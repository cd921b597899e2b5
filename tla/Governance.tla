------------------------------ MODULE Governance ------------------------------
(*****************************************************************************)
(* The governance contract (contracts/governance): proposals that carry an   *)
(* action for another contract are voted on, finalized after the voting      *)
(* period, and executed if enough of the weight cast is in favour.  What an  *)
(* execution does to the other contracts is conjoined in InsuranceDao.       *)
(*****************************************************************************)
EXTENDS Integers, Sequences, FiniteSets, Functions, Int128

CONSTANTS
  Voter,           \* accounts that vote
  Weight,          \* weights voters pass: any i128, nothing ties it to a stake
  Threshold,       \* percentages proposers pass
  Action,          \* actions proposers ask for
  NoAction,        \* a proposal of create_proposal carries none
  VotingPeriod,
  ProposalLimit,   \* bound on the number of proposals
  BallotLastTime   \* bound on the ledger's timestamp

GovernanceAssumption ==
  /\ Weight \subseteq Int /\ Threshold \subseteq Nat
  /\ VotingPeriod \in Nat /\ I128Max \in Nat /\ ProposalLimit \in Nat /\ BallotLastTime \in Nat

VARIABLES
  ballotTime,      \* ledger timestamp
  proposals,       \* Proposal(id) for id in 1..ProposalCounter
  pendingAction,   \* GovernanceActionPending: id |-> action
  voterRecords     \* VoterRecord: <<id, voter>> |-> [weight, isYes]

governanceState == <<proposals, pendingAction, voterRecords>>
governanceVars  == <<ballotTime, governanceState>>

ProposalId == DOMAIN proposals

-----------------------------------------------------------------------------
(* Sums and products of votes wrap; a quotient is truncated towards zero.    *)
Abs(x)     == IF x < 0 THEN -x ELSE x
Quot(a, b) == LET q == Abs(a) \div Abs(b) IN IF (a < 0) = (b < 0) THEN q ELSE -q

(* Does the share of yes votes, in per cent, reach the threshold?  The       *)
(* quotient of the least i128 and -1 does not exist, and the call fails.     *)
ThresholdMet(p) ==
  LET total == I128(p.yes + p.no)
      part  == I128(100 * p.yes) IN
  /\ total # 0
  /\ ~ (part = -I128Max - 1 /\ total = -1)
  /\ Quot(part, total) >= p.threshold

GovernanceInit ==
  /\ ballotTime = 0
  /\ proposals = <<>>
  /\ pendingAction = <<>>
  /\ voterRecords = <<>>

BallotTick ==
  /\ ballotTime < BallotLastTime
  /\ ballotTime' = ballotTime + 1
  /\ UNCHANGED governanceState

(* create_proposal and the five calls that also store an action.  A pause of *)
(* no length is refused.  A bound on time: every voting period ends.         *)
CreateProposal(action, threshold) ==
  /\ Len(proposals) < ProposalLimit
  /\ ballotTime + VotingPeriod < BallotLastTime
  /\ proposals' = Append(proposals,
       [expiresAt |-> ballotTime + VotingPeriod, threshold |-> threshold, yes |-> 0, no |-> 0,
        finalized |-> FALSE, executed |-> FALSE])
  /\ pendingAction' =
       [id \in DOMAIN pendingAction \cup (IF action = NoAction THEN {} ELSE {Len(proposals')}) |->
          IF id \in DOMAIN pendingAction THEN pendingAction[id] ELSE action]
  /\ UNCHANGED <<ballotTime, voterRecords>>

Tallied_Overwrites(p, weight, isYes) ==
  IF isYes THEN [p EXCEPT !.yes = weight] ELSE [p EXCEPT !.no = weight]

Tallied(p, weight, isYes) ==
  IF isYes THEN [p EXCEPT !.yes = I128(@ + weight)] ELSE [p EXCEPT !.no = I128(@ + weight)]

(* vote: once per voter, up to and including the time of expiry.             *)
Vote(voter, id, weight, isYes) ==
  /\ ballotTime <= proposals[id].expiresAt
  /\ <<id, voter>> \notin DOMAIN voterRecords
  /\ proposals' = [proposals EXCEPT ![id] = Tallied(@, weight, isYes)]
  /\ voterRecords' = [r \in DOMAIN voterRecords \cup {<<id, voter>>} |->
       IF r = <<id, voter>> THEN [weight |-> weight, isYes |-> isYes] ELSE voterRecords[r]]
  /\ UNCHANGED <<ballotTime, pendingAction>>

(* finalize_proposal: anybody, after the time of expiry, and again.          *)
FinalizeProposal(id) ==
  /\ ballotTime > proposals[id].expiresAt
  /\ proposals' = [proposals EXCEPT ![id].finalized = TRUE]
  /\ UNCHANGED <<ballotTime, pendingAction, voterRecords>>

Executable(id) ==
  /\ id \in ProposalId
  /\ proposals[id].finalized /\ ~ proposals[id].executed
  /\ ThresholdMet(proposals[id])

ExecuteProposal_Unfinalized(id) ==
  /\ ~ proposals[id].executed /\ ThresholdMet(proposals[id])
  /\ proposals' = [proposals EXCEPT ![id].executed = TRUE]
  /\ pendingAction' = Restrict(pendingAction, DOMAIN pendingAction \ {id})
  /\ UNCHANGED <<ballotTime, voterRecords>>

(* execute_proposal, this contract's part: when the call that the action     *)
(* makes fails, so does this one, and the proposal stays to be retried.      *)
ExecuteProposal(id) ==
  /\ Executable(id)
  /\ proposals' = [proposals EXCEPT ![id].executed = TRUE]
  /\ pendingAction' = Restrict(pendingAction, DOMAIN pendingAction \ {id})
  /\ UNCHANGED <<ballotTime, voterRecords>>

(* The calls that touch no other contract.                                   *)
OwnStep ==
  \/ \E action \in Action \cup {NoAction}, threshold \in Threshold :
       CreateProposal(action, threshold)
  \/ \E voter \in Voter, id \in ProposalId, weight \in Weight, isYes \in BOOLEAN :
       Vote(voter, id, weight, isYes)
  \/ \E id \in ProposalId : FinalizeProposal(id)

GovernanceNext ==
  \/ BallotTick
  \/ OwnStep
  \/ \E id \in ProposalId : ExecuteProposal(id)

GovernanceSpec == GovernanceInit /\ [][GovernanceNext]_governanceVars

-----------------------------------------------------------------------------
ProposalRecord ==
  [expiresAt : Nat, threshold : Threshold, yes : Int, no : Int,
   finalized : BOOLEAN, executed : BOOLEAN]

GovernanceTypeOK ==
  /\ ballotTime \in 0..BallotLastTime
  /\ proposals \in Seq(ProposalRecord)
  /\ pendingAction \in [DOMAIN pendingAction -> Action]
  /\ DOMAIN pendingAction \subseteq ProposalId
  /\ voterRecords \in [DOMAIN voterRecords -> [weight : Weight, isYes : BOOLEAN]]
  /\ DOMAIN voterRecords \subseteq ProposalId \X Voter

Cast(id, isYes) ==
  {r \in DOMAIN voterRecords : r[1] = id /\ voterRecords[r].isYes = isYes}
WeightOf(records) == SumFunctionOnSet([r \in records |-> voterRecords[r].weight], records)

(* The tally of a proposal is what its voters' records add up to, each voter *)
(* counted once, on the side of the record.                                  *)
TallyMatchesRecords ==
  \A id \in ProposalId :
    /\ proposals[id].yes = I128(WeightOf(Cast(id, TRUE)))
    /\ proposals[id].no  = I128(WeightOf(Cast(id, FALSE)))

(* Once a proposal is finalized its tally is final: no vote arrives in the   *)
(* second in which the period ends, before or after the call that finalizes. *)
TallyIsFinal ==
  [][\A id \in ProposalId : proposals[id].finalized =>
       /\ proposals'[id].finalized
       /\ proposals'[id].yes = proposals[id].yes
       /\ proposals'[id].no  = proposals[id].no]_governanceVars

(* A proposal that was executed was finalized, reached its threshold and     *)
(* still does, and its action cannot be carried out again; one that was not  *)
(* executed still has its action to be retried.                              *)
ExecutedForGood ==
  \A id \in ProposalId : proposals[id].executed =>
    /\ proposals[id].finalized
    /\ ThresholdMet(proposals[id])
    /\ id \notin DOMAIN pendingAction

PendingUntilExecuted ==
  [][\A id \in DOMAIN pendingAction :
       \/ id \in DOMAIN pendingAction' /\ pendingAction'[id] = pendingAction[id]
       \/ proposals'[id].executed]_governanceVars
=============================================================================
