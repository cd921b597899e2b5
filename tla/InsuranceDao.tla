----------------------------- MODULE InsuranceDao -----------------------------
(*****************************************************************************)
(* The governance contract wired to the slashing contract and the pool: an   *)
(* execution of a proposal and the calls it makes to other contracts are one *)
(* step, which fails as a whole when any of them fails and may be retried.   *)
(*****************************************************************************)
EXTENDS Integers, Sequences, FiniteSets, Functions, Int128

CONSTANTS
  User, Pool, Admin, Grantee, MinStake, Funds, Amount, BatchLimit, CapitalLimit,  \* RiskPool
  Target, SlashRole, SlashAmount, Cooldown, MaxHistory, ViolationLimit,        \* Slashing
  PauseTimelock, ResumeTimelock, MaxTime, Duration, LastTime,                  \* CircuitBreaker
  Voter, Weight, Threshold, Action, NoAction, VotingPeriod,                    \* Governance
  ProposalLimit,
  ClaimsEntryPoints   \* names of the functions that the claims contract exports

(* What the records of the slashing contract need of their constants.        *)
ASSUME SlashingAssumption ==
  /\ MaxHistory \in Nat \ {0} /\ ViolationLimit \in Nat
  /\ Cooldown \subseteq 0..MaxTime /\ SlashAmount \subseteq Int

VARIABLES
  balance, stake, totalCapital, availableCapital, claimsPaid, roles,
  version, abiCurrent, stateRoot,
  scheduledAt, activatesAt, until, rescheduled, resumeAt, emergency, announced,
  slashable, cooldown, violations, history, ownRoles,
  time, proposals, pendingAction, voterRecords,
  enacted,            \* auxiliary: executed proposal |-> the action it carried
  besides             \* auxiliary: what was forfeited, paid and counted by other steps

RP == INSTANCE RiskPool
SL == INSTANCE Slashing
CB == INSTANCE CircuitBreaker
GV == INSTANCE Governance WITH ballotTime <- time, BallotLastTime <- LastTime

ASSUME PartsAssumption ==
  /\ IsFiniteSet(User) /\ Pool \notin User /\ Amount \subseteq Nat
  /\ MaxTime \in Nat /\ LastTime \in 0..MaxTime /\ GV!GovernanceAssumption

(* What proposers may ask for: only accounts that may be providers are       *)
(* slashed, in a role that there is, the token moves no negative amount, and *)
(* a pause has one of the durations.                                         *)
ASSUME ActionAssumption ==
  /\ Target \subseteq User
  /\ \A action \in Action :
       /\ action.kind \in {"Slashing", "FundAllocation", "PauseContract", "ClaimApproval", "PolicyChange"}
       /\ action.kind = "Slashing" =>
            action.target \in Target /\ action.role \in SlashRole /\ action.amount \in Int
       /\ action.kind = "FundAllocation" =>
            action.recipient \in RP!Account /\ action.amount \in Nat
       /\ action.kind = "PauseContract" => action.length \in Duration

poolState     == <<balance, stake, totalCapital, availableCapital, claimsPaid, roles,
                   version, abiCurrent, stateRoot>>
slashRecords  == <<slashable, cooldown, violations, history, ownRoles>>
breakerState  == <<scheduledAt, activatesAt, until, rescheduled, resumeAt, emergency,
                   announced>>
slashingState == <<breakerState, slashRecords>>
ballots       == <<proposals, pendingAction, voterRecords>>
vars          == <<time, poolState, slashingState, ballots, enacted, besides>>

-----------------------------------------------------------------------------
(* The contracts are deployed and wired; the slashing contract has its roles *)
(* and their cooldowns.                                                      *)
Init ==
  /\ GV!GovernanceInit
  /\ version = 2 /\ RP!InitCapital
  /\ roles = {<<Admin, "Admin">>, <<Pool, "Admin">>, <<Pool, "Governance">>}
  /\ CB!Init /\ SL!InitRecords
  /\ slashable = SlashRole /\ cooldown \in [SlashRole -> Cooldown]
  /\ ownRoles = {"Admin", "Governance"}
  /\ enacted = <<>>
  /\ besides = [forfeited |-> 0, paid |-> 0, violations |-> [c \in SL!Case |-> 0]]

Advance == GV!BallotTick /\ UNCHANGED <<poolState, slashingState, enacted>>

(* The calls of others that move capital; RiskPool has the batches of them.  *)
PoolStep ==
  /\ \E user \in User, amount \in Amount :
       \/ RP!DepositLiquidity(user, amount) \/ RP!WithdrawLiquidity(user, amount)
       \/ RP!PayoutClaim(user, amount)      \/ RP!AbsorbSlash(user, amount)
  /\ UNCHANGED <<time, slashingState, ballots, enacted>>

(* The governance contract alone holds the role to pause the slashing        *)
(* contract, and it has no call for emergency_pause; the admin may resume.   *)
ResumeStep ==
  /\ CB!RequestResume \/ CB!Resume \/ CB!Sync
  /\ UNCHANGED slashRecords

(* Anybody may call slash_funds: the role it asks for is the contract's own. *)
SlashingStep ==
  /\ \/ ResumeStep \/ SL!AdminStep
     \/ \E c \in SL!Case, amount \in SlashAmount : SL!SlashFunds(c[1], c[2], amount)
  /\ UNCHANGED <<poolState, ballots, enacted>>

BallotStep == GV!OwnStep /\ UNCHANGED <<poolState, slashingState, enacted>>

(* Whatever such a step forfeits, pays or counts is not the doing of the DAO. *)
Besides ==
  besides' = [forfeited  |-> besides.forfeited + RP!Forfeited' - RP!Forfeited,
              paid       |-> besides.paid + RP!PaidOut' - RP!PaidOut,
              violations |-> [c \in SL!Case |->
                                besides.violations[c] + violations'[c] - violations[c]]]

-----------------------------------------------------------------------------
CarryOut_Twice(action) ==
  CASE action.kind = "Slashing" ->
         /\ SL!SlashFunds(action.target, action.role, action.amount)
         /\ RP!AbsorbSlash(action.target, 2 * action.amount)
    [] action.kind = "FundAllocation" ->
         RP!PayoutClaim(action.recipient, action.amount) /\ UNCHANGED <<time, slashingState>>
    [] OTHER -> UNCHANGED <<time, slashingState, poolState>>

(* The calls that execute_proposal makes for a pending action.  A slash is   *)
(* recorded and then taken from the stake; a claim is approved under a name  *)
(* that the claims contract would have to export; a patch that the policy    *)
(* contract accepts changes nothing here.                                    *)
CarryOut(action) ==
  CASE action.kind = "Slashing" ->
         /\ RP!Supports(1)
         /\ SL!SlashFunds(action.target, action.role, action.amount)
         /\ RP!AbsorbSlash(action.target, action.amount)
    [] action.kind = "FundAllocation" ->
         /\ RP!Supports(1)
         /\ RP!PayoutClaim(action.recipient, action.amount)
         /\ UNCHANGED <<time, slashingState>>
    [] action.kind = "PauseContract" ->
         /\ CB!Pause(action.length)
         /\ UNCHANGED <<slashRecords, poolState>>
    [] action.kind = "ClaimApproval" ->
         /\ "approve" \in ClaimsEntryPoints
         /\ UNCHANGED <<time, slashingState, poolState>>
    [] action.kind \in {"PolicyChange", "None"} ->
         UNCHANGED <<time, slashingState, poolState>>

(* What a proposal asks for: one of create_proposal asks for nothing.        *)
Asked(id) ==
  IF id \in DOMAIN pendingAction THEN pendingAction[id] ELSE [kind |-> "None"]

(* execute_proposal, and its alias execute_slashing_proposal.                *)
Execute(id) ==
  /\ GV!ExecuteProposal(id)
  /\ CarryOut(Asked(id))
  /\ enacted' = [p \in DOMAIN enacted \cup {id} |->
                   IF p = id THEN Asked(id) ELSE enacted[p]]
  /\ UNCHANGED besides

Next ==
  \/ (Advance \/ PoolStep \/ SlashingStep \/ BallotStep) /\ Besides
  \/ \E id \in GV!ProposalId : Execute(id)

Spec     == Init /\ [][Next]_vars
FairSpec == Spec /\ \A id \in 1..ProposalLimit : WF_vars(id \in GV!ProposalId /\ Execute(id))

-----------------------------------------------------------------------------
TypeOK ==
  /\ RP!TypeOK /\ SL!TypeOK /\ GV!GovernanceTypeOK
  /\ DOMAIN enacted \subseteq GV!ProposalId

EnactedOf(kind) == {id \in DOMAIN enacted : enacted[id].kind = kind}
SumOf(ids)      == SumFunctionOnSet([id \in ids |-> enacted[id].amount], ids)

(* What the DAO enacted happened exactly once, in the step that marked its   *)
(* proposal as executed, whatever was retried, paused, paid or slashed       *)
(* besides: the stakes that were forfeited, the claims that were paid and    *)
(* the violations that were counted are those of the executed slashes and    *)
(* allocations and of the other steps, no more and no less.                  *)
EnactedIsCarriedOut ==
  LET slashes == EnactedOf("Slashing") IN
  /\ DOMAIN enacted = {id \in GV!ProposalId : proposals[id].executed}
  /\ RP!Forfeited = besides.forfeited + SumOf(slashes)
  /\ RP!PaidOut = besides.paid + SumOf(EnactedOf("FundAllocation"))
  /\ \A c \in SL!Case :
       violations[c] = besides.violations[c] +
         Cardinality({id \in slashes : <<enacted[id].target, enacted[id].role>> = c})

(* The records of the slashing contract stay consistent under the DAO.       *)
SlashesAreOrderly == SL!SlashesAreOrderly

(* governance/src/lib.rs: "Call claims contract to approve the claim".  A    *)
(* claim that the DAO voted to approve is approved in the end.               *)
ClaimApprovalsAreExecuted ==
  \A id \in 1..ProposalLimit :
    (GV!Executable(id) /\ Asked(id).kind = "ClaimApproval") ~> id \in DOMAIN enacted
=============================================================================
