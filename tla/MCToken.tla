-------------------------------- MODULE MCToken --------------------------------
(* The property token for TLC.  The owners' calls, the bridge and the market *)
(* share the ledger of owners and units; a scenario runs one of them, so     *)
(* that their state spaces add instead of multiplying.  Every step is one of *)
(* SharesNext, which the proofs are about.                                   *)
EXTENDS PropertyShares

Limits == {<<1, 2>>, <<2, 2>>}

VARIABLE scenario

scenarioVars == <<sharesVars, scenario>>

ScenarioInit == TokenInit /\ SharesInit /\ scenario \in {"owners", "bridge", "dividends", "votes"}

ScenarioNext ==
  /\ \/ Registering /\ tokenCounter = 0 /\ UNCHANGED shareVars
     \/ scenario = "owners" /\ (OwnershipNext \/ Verifying) /\ UNCHANGED shareVars
     \/ scenario = "bridge" /\ (BridgeNext \/ (Verifying /\ \E t \in Tokens : verified'[t] /\ ~ verified[t])) /\ UNCHANGED shareVars
     \/ scenario \in {"dividends", "votes"} /\ Trading
     \/ scenario = "dividends" /\ Dividends
     \/ scenario = "votes" /\ Voting
  /\ Peaks /\ UNCHANGED scenario

ScenarioSpec == ScenarioInit /\ [][ScenarioNext]_scenarioVars

(* The admin does not stop recovering what can be recovered.                 *)
Recovering(r) == r \in DOMAIN requests /\ UnlockFailed(r) /\ UNCHANGED <<shareVars, scenario>> /\ Peaks

ScenarioFairSpec == ScenarioSpec /\ \A r \in 1..MaxRequests : WF_scenarioVars(Recovering(r))
=============================================================================
