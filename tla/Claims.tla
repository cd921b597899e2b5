-------------------------------- MODULE Claims --------------------------------
(*****************************************************************************)
(* The claims contract (contracts/claims): a claim is submitted, reviewed,   *)
(* approved or rejected, and settled; a policy has one active claim at most. *)
(* What the contract reads from and does to the policy contract and the pool *)
(* in the same transaction is conjoined in InsuranceCore.                    *)
(*****************************************************************************)
EXTENDS Integers, Sequences, FiniteSets, Functions, Int128

CONSTANT ClaimLimit       \* bound on the number of claims

VARIABLES
  claims,         \* Claim(id) for id in 1..ClaimCounter
  activeClaim,    \* PolicyActiveClaim: policy id |-> claim id, while there is one
  claimsAdmin     \* RoleMap(own address, Admin)

claimVars == <<claims, activeClaim, claimsAdmin>>

ClaimId == DOMAIN claims
Active  == {"Submitted", "UnderReview", "Approved"}
Closed  == {"Rejected", "Settled"}

-----------------------------------------------------------------------------
(* initialize: no claims; the admin has yet to grant the contract its role.  *)
InitClaims ==
  /\ claims = <<>>
  /\ activeClaim = <<>>
  /\ claimsAdmin = FALSE

(* set_role: the admin grants the contract's own address the Admin role.     *)
GrantClaimsAdmin ==
  /\ claimsAdmin' = TRUE
  /\ UNCHANGED <<claims, activeClaim>>

Acceptable_LockIgnored(policyId, amount, view) ==
  /\ view.active
  /\ amount > 0 /\ I128(amount + view.claimed) <= view.coverage

(* What submit_claim asks of a request, given the answers of is_active and   *)
(* get_pol in view: the policy is active, the amount fits what is left of    *)
(* its coverage, and it has no active claim.                                 *)
Acceptable(policyId, amount, view) ==
  /\ view.active
  /\ amount > 0 /\ I128(amount + view.claimed) <= view.coverage
  /\ policyId \notin DOMAIN activeClaim

(* submit_claims_batch: requests of <<policy_id, amount>>; book gives the    *)
(* view of each policy.  An earlier request of the batch holds the lock of   *)
(* its policy already, so the policies of a batch are distinct.              *)
SubmitClaimsBatch(requests, book) ==
  LET policyOf == [i \in DOMAIN requests |-> requests[i][1]] IN
  /\ Len(claims) + Len(requests) <= ClaimLimit
  /\ IsInjective(policyOf)
  /\ \A i \in DOMAIN requests :
       Acceptable(policyOf[i], requests[i][2], book[policyOf[i]])
  /\ claims' = claims \o
       [i \in DOMAIN requests |->
          [policy |-> policyOf[i], claimant |-> book[policyOf[i]].holder,
           amount |-> requests[i][2], status |-> "Submitted"]]
  /\ activeClaim' = [p \in DOMAIN activeClaim \cup Range(policyOf) |->
       IF p \in DOMAIN activeClaim THEN activeClaim[p]
       ELSE Len(claims) + CHOOSE i \in DOMAIN requests : policyOf[i] = p]
  /\ UNCHANGED claimsAdmin

SubmitClaim(policyId, amount, book) ==
  SubmitClaimsBatch(<<<<policyId, amount>>>>, book)

-----------------------------------------------------------------------------
(* An admin-gated change of status; the last one clears the policy's lock.   *)
Advance(id, from, to) ==
  /\ claimsAdmin
  /\ claims[id].status = from
  /\ claims' = [claims EXCEPT ![id].status = to]
  /\ UNCHANGED claimsAdmin

ClearLock(policyId) ==
  activeClaim' = Restrict(activeClaim, DOMAIN activeClaim \ {policyId})

StartReview(id) == Advance(id, "Submitted", "UnderReview") /\ UNCHANGED activeClaim

ApproveClaim(id) == Advance(id, "UnderReview", "Approved") /\ UNCHANGED activeClaim

RejectClaim_LockKept(id) == Advance(id, "UnderReview", "Rejected") /\ UNCHANGED activeClaim

RejectClaim(id) ==
  Advance(id, "UnderReview", "Rejected") /\ ClearLock(claims[id].policy)

(* What settle_claim does to the claim itself, once pool and policy agree.   *)
SettleRecord(id) ==
  Advance(id, "Approved", "Settled") /\ ClearLock(claims[id].policy)
=============================================================================
