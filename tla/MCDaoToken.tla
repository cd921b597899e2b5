------------------------------ MODULE MCDaoToken ------------------------------
(* The governance contract wired to the slashing contract and the pool, and  *)
(* the property token, for TLC: each behaviour deploys the contracts of the  *)
(* DAO or the token, which do not call one another, so that their state      *)
(* spaces add instead of multiplying.                                        *)
EXTENDS MCInsuranceDao, MCToken

VARIABLE deployed

votingVars == <<vars, scenarioVars, deployed>>

VotingInit ==
  /\ deployed \in {"dao", "breaker", "token"} /\ Init /\ ScenarioInit
  /\ deployed # "token" => scenario = "owners"

Proposed(kind) == {id \in DOMAIN pendingAction : pendingAction[id].kind = kind}

(* The DAO without its pauses; or with them, where nothing is paid from the  *)
(* pool and nobody but the DAO takes a stake: the pool does not look at the  *)
(* breaker.                                                                  *)
DaoNext ==
  \/ deployed = "dao" /\ Next /\ UNCHANGED breakerState /\ Proposed("PauseContract")' = {}
  \/ /\ deployed = "breaker" /\ Next
     /\ Proposed("FundAllocation")' = {} /\ besides'.paid = 0 /\ besides'.forfeited = 0

VotingNext ==
  /\ \/ DaoNext /\ UNCHANGED scenarioVars
     \/ deployed = "token" /\ ScenarioNext /\ UNCHANGED vars
  /\ UNCHANGED deployed

VotingSpec == VotingInit /\ [][VotingNext]_votingVars
=============================================================================
