----------------------------- MODULE InsuranceCore -----------------------------
(*****************************************************************************)
(* The claims contract wired to the policy contract and the pool: the calls  *)
(* one contract makes to another within a transaction are one step, which    *)
(* fails as a whole when any of them fails.                                  *)
(*****************************************************************************)
EXTENDS Integers, Sequences, FiniteSets, Functions, Int128

CONSTANTS
  User, Pool, Admin, Grantee, MinStake, Funds, Amount, CapitalLimit,  \* RiskPool
  Holder, Claims, Governance, Coverage, Days, DurationMod,            \* Policy
  MaxCoverage, PolicyLimit, LastDay, BatchLimit,
  ClaimLimit,                                                         \* Claims
  ClaimAmount,    \* amounts claimed: any i128
  ServedStats     \* the fields of the struct that the pool's get_stats returns

VARIABLES
  balance, stake, totalCapital, availableCapital, claimsPaid, roles,
  version, abiCurrent, stateRoot,
  now, policies, coverageCap, policyAdmin, claimsContract, governanceContract,
  claims, activeClaim, claimsAdmin

RP == INSTANCE RiskPool
PO == INSTANCE Policy
CL == INSTANCE Claims

ASSUME PolicyAssumption == PO!PolicyAssumption
ASSUME PoolAssumption   == Amount \subseteq Nat /\ IsFiniteSet(User)

poolState   == <<balance, stake, totalCapital, availableCapital, claimsPaid, roles,
                 version, abiCurrent, stateRoot>>
policyState == <<now, policies, coverageCap, policyAdmin, claimsContract,
                 governanceContract>>
claimState  == <<claims, activeClaim, claimsAdmin>>
vars        == <<poolState, policyState, claimState>>

(* The PoolStats struct that the claims contract decodes; a map with other   *)
(* keys does not convert, and the call fails.                                *)
ExpectedStats ==
  {"total_capital", "available_capital", "total_claims_paid", "provider_count"}

(* The PoolStats struct of the pool in this repository.                      *)
PoolStatsFields == {"total_capital", "available_capital", "total_claims_paid"}

-----------------------------------------------------------------------------
(* The contracts are deployed and wired: the pool's and the policy           *)
(* contract's own addresses hold the roles their entry points ask for.       *)
Init ==
  /\ version = 2 /\ RP!InitCapital
  /\ roles = {<<Admin, "Admin">>, <<Pool, "Admin">>, <<Pool, "Governance">>}
  /\ PO!InitPolicies
  /\ policyAdmin = TRUE /\ claimsContract = Claims /\ governanceContract = Governance
  /\ CL!InitClaims

(* A step of one contract alone.                                             *)
PoolStep == RP!Next /\ UNCHANGED <<policyState, claimState>>

(* The contracts stay wired to each other.                                   *)
PolicyStep ==
  /\ PO!OwnStep
  /\ UNCHANGED <<claimsContract, governanceContract, poolState, claimState>>

(* The governance contract sends a patch or new parameters.                  *)
GovernanceStep ==
  /\ \/ \E id \in PO!PolicyId, patch \in PO!Patch : PO!ApplyGovernanceUpdate(id, patch)
     \/ \E cap \in Coverage : PO!ApplyGovernanceParams(cap)
  /\ UNCHANGED <<poolState, claimState>>

(* What is_active and get_pol answer to the claims contract.                 *)
Book == [id \in PO!PolicyId |->
           [active |-> PO!IsActive(policies[id]), claimed |-> policies[id].claimed,
            coverage |-> policies[id].coverage, holder |-> policies[id].holder]]

Submit ==
  /\ \/ \E id \in PO!PolicyId, amount \in ClaimAmount : CL!SubmitClaim(id, amount, Book)
     \/ \E n \in 1..BatchLimit :
          \E requests \in [1..n -> PO!PolicyId \X ClaimAmount] :
            CL!SubmitClaimsBatch(requests, Book)
  /\ UNCHANGED <<poolState, policyState>>

Review ==
  /\ \/ CL!GrantClaimsAdmin
     \/ \E id \in CL!ClaimId : CL!StartReview(id) \/ CL!ApproveClaim(id) \/ CL!RejectClaim(id)
  /\ UNCHANGED <<poolState, policyState>>

SettleClaim_PolicyNotTold(id) ==
  /\ RP!Supports(1) /\ ServedStats = ExpectedStats
  /\ availableCapital >= claims[id].amount
  /\ CL!SettleRecord(id)
  /\ RP!PayoutClaim(claims[id].claimant, claims[id].amount)
  /\ UNCHANGED policyState

(* settle_claim: read the pool's statistics, pay the claimant out of the     *)
(* pool, tell the policy contract, then close the claim.                     *)
SettleClaim(id) ==
  /\ RP!Supports(1) /\ ServedStats = ExpectedStats
  /\ availableCapital >= claims[id].amount
  /\ CL!SettleRecord(id)
  /\ RP!PayoutClaim(claims[id].claimant, claims[id].amount)
  /\ PO!UpdateClaimed(claims[id].policy, claims[id].amount)

Settle == \E id \in CL!ClaimId : SettleClaim(id)

Next == PoolStep \/ PolicyStep \/ GovernanceStep \/ Submit \/ Review \/ Settle

Spec     == Init /\ [][Next]_vars
FairSpec == Spec /\ \A id \in 1..ClaimLimit :
                      WF_vars(id \in CL!ClaimId /\ SettleClaim(id))

-----------------------------------------------------------------------------
TypeOK ==
  /\ RP!TypeOK /\ PO!TypeOK
  /\ claims \in Seq([policy : 1..PolicyLimit, claimant : Holder, amount : Int,
                     status : CL!Active \cup CL!Closed])
  /\ activeClaim \in [DOMAIN activeClaim -> CL!ClaimId]
  /\ claimsAdmin \in BOOLEAN

Settled(ids)  == {id \in ids : claims[id].status = "Settled"}
ClaimsOn(p)   == {id \in CL!ClaimId : claims[id].policy = p}
SumOf(ids)    == SumFunctionOnSet([id \in ids |-> claims[id].amount], ids)

(* The lock of a policy names its one open claim, and is absent when there   *)
(* is none: no order of submissions, reviews and settlements leaves a policy *)
(* locked without a claim or open to a second one.                           *)
LockNamesTheOpenClaim ==
  \A p \in PO!PolicyId :
    {id \in ClaimsOn(p) : claims[id].status \in CL!Active}
      = IF p \in DOMAIN activeClaim THEN {activeClaim[p]} ELSE {}

(* The policy contract's total and the claims contract's records agree: what *)
(* a policy counts as claimed is the sum of its settled claims, wrapped.     *)
ClaimedIsSettled ==
  \A p \in PO!PolicyId : policies[p].claimed = I128(SumOf(Settled(ClaimsOn(p))))

(* The pool has paid at least what the settled claims amount to.             *)
PaidCoversSettled == RP!PaidOut >= SumOf(Settled(CL!ClaimId))

(* A settlement is booked by all three contracts or by none.                 *)
SettlementIsBooked == ClaimedIsSettled /\ PaidCoversSettled

(* A policy's total, when it counts anything as claimed, counts no more than *)
(* the policy covers, whatever claims and patches of its coverage are in     *)
(* flight together.                                                          *)
ClaimedWithinCoverage == PO!ClaimedWithinCoverage

Stage(status) ==
  CASE status \in {"Submitted", "UnderReview"} -> "filed"
    [] status = "Approved" -> "granted"
    [] status = "Rejected" -> "refused"
    [] status = "Settled"  -> "paid"

Ledger == INSTANCE ClaimLedger WITH
  files <- [id \in CL!ClaimId |-> [policy |-> claims[id].policy, amount |-> claims[id].amount,
                                  stage |-> Stage(claims[id].status)]],
  received <- [p \in PO!PolicyId |-> policies[p].claimed]

(* The contracts together keep the promise of ClaimLedger.                   *)
ImplementsLedger == Ledger!Spec

(* What settling a claim takes: the pool can pay it, the policy covers it.   *)
Payable(id) ==
  /\ id \in CL!ClaimId /\ claims[id].status = "Approved"
  /\ RP!RequireRole(Pool, "Admin")
  /\ balance[Pool] >= claims[id].amount /\ availableCapital >= claims[id].amount
  /\ I128(policies[claims[id].policy].claimed + claims[id].amount)
       <= policies[claims[id].policy].coverage

(* An approved claim that is payable does not stay so forever if             *)
(* settle_claim is called again and again: it is settled, unless another     *)
(* payout or a patch of the policy gets there first.                         *)
PayableClaimsSettle == \A id \in 1..ClaimLimit : Payable(id) ~> ~ Payable(id)
=============================================================================
