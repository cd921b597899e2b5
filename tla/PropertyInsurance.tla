--------------------------- MODULE PropertyInsurance ---------------------------
(*****************************************************************************)
(* The insurance contract (contracts/insurance, insurance_impl.rs): policies *)
(* on assessed properties, their claims, the reinsurance of large payouts,   *)
(* the market of the policies' tokens and the hand-over of the admin, on top *)
(* of one pool's liquidity.  A call that fails is reverted, so only the      *)
(* calls that go through are steps; the items of a batch are the exception.  *)
(*****************************************************************************)
EXTENDS LiquidityPool, Sequences

CONSTANTS
  Insured,             \* property ids
  Assessors,           \* accounts with Role::Assessor; the admin has every role
  Scores, Validity,    \* risk scores, and seconds an assessment holds
  Kinds,               \* coverage types
  Coverages, Payments, \* amounts insured, premiums paid
  Terms,               \* durations of policies
  ClaimAmounts, EvidenceTypes,
  CoverageRatio,       \* max_coverage_ratio, in basis points
  FeeRate,             \* platform_fee_rate, in basis points
  MinPremium,          \* min_premium_amount
  PremiumScale, DeductibleScale,   \* 10^12 and 10^7 in the code
  Cooldown, DisputeWindow, AdminDelay,
  ReinsuranceThreshold, Retention, RecoveryLimit, \* of the one agreement
  AskPrices,
  MaxCovers, MaxInsClaims, MaxItems               \* bounds

ASSUME InsuranceAssumption ==
  /\ Assessors \subseteq Accounts
  /\ Scores \subseteq 0..100 /\ Validity \subseteq Nat \ {0} /\ Terms \subseteq Nat \ {0}
  /\ Coverages \subseteq Nat \ {0} /\ ClaimAmounts \subseteq Nat \ {0} /\ Payments \subseteq Nat
  /\ CoverageRatio \in Nat \ {0} /\ CoverageRatio <= 10000 /\ FeeRate \in Nat /\ FeeRate <= 1000
  /\ Cooldown \in Nat \ {0}
  /\ Retention \in Nat \ {0} /\ RecoveryLimit \in Nat /\ Retention <= RecoveryLimit
  /\ ReinsuranceThreshold \in Nat \ {0} /\ DisputeWindow \in Nat
  /\ PremiumScale \in Nat \ {0} /\ DeductibleScale \in Nat \ {0}
  /\ AskPrices \subseteq Nat \ {0}  \* list_token_for_sale refuses a price of 0
  /\ InsStart >= Cooldown        \* the chain is older than a cooldown

NotAssessed == [score |-> -1, until |-> -1]
NoOffer     == 0
NoProposal  == [to |-> "nobody", after |-> 0]

VARIABLES
  assessment,   \* risk_assessments
  cover,        \* policies
  token,        \* insurance_tokens: one of each policy, with the same id
  listings,     \* token_listings
  insClaims,    \* claims
  paidClaims,   \* history: how often a claim was paid
  lastPayout,   \* claim_cooldowns, by property
  lastSubmit, nonces,    \* caller_last_claim, caller_nonces
  usedEvidence, \* used_evidence_nonces
  items,        \* evidence_items with their verifiers
  reinsured, recovered,  \* end of the agreement, total_recoveries
  adminRole,    \* accounts with Role::Admin
  insAdmin, proposal     \* admin; pending_admin and pending_admin_after

claimBooks == <<insClaims, paidClaims, lastPayout, lastSubmit, nonces, usedEvidence>>
market     == <<token, listings>>
adminBooks == <<adminRole, insAdmin, proposal>>
reinsurance == <<reinsured, recovered>>
insVars == <<insTime, insPaused, pool, liquidity, accrued, assessment, cover, market, claimBooks,
             items, reinsurance, adminBooks>>

InsInit ==
  /\ LiquidityInit
  /\ assessment = [p \in Insured |-> NotAssessed]
  /\ cover = <<>> /\ token = <<>> /\ listings = {}
  /\ insClaims = <<>> /\ paidClaims = <<>> /\ lastPayout = [p \in Insured |-> 0]
  /\ lastSubmit = [a \in Accounts |-> 0] /\ nonces = [a \in Accounts |-> 0]
  /\ usedEvidence = {} /\ items = <<>>
  /\ reinsured = 0 /\ recovered = 0
  /\ insAdmin \in Accounts /\ adminRole = {insAdmin} /\ proposal = NoProposal

May(a) == a \in Assessors \cup adminRole

(* The multiplier of a score, and that of a coverage type.                   *)
RiskMultiplier(score) ==
  CASE score <= 20 -> 400 [] score \in 21..40 -> 250 [] score \in 41..60 -> 150
    [] score \in 61..80 -> 110 [] OTHER -> 80

KindMultiplier ==
  [Fire |-> 100, Theft |-> 80, Flood |-> 150, Earthquake |-> 200, LiabilityDamage |-> 120,
   NaturalDisaster |-> 180, Comprehensive |-> 250]

(* calculate_premium, with a base rate of 150, and its deductible.           *)
PremiumOf(property, amount, kind) ==
  (amount * 150 * RiskMultiplier(assessment[property].score) * KindMultiplier[kind]) \div PremiumScale

DeductibleOf(property, amount) ==
  (amount * 500 * RiskMultiplier(assessment[property].score)) \div DeductibleScale

(* update_risk_assessment, by an oracle: the four scores count by their mean. *)
UpdateRiskAssessment(property, score, seconds) ==
  /\ assessment' = [assessment EXCEPT ![property] = [score |-> score, until |-> insTime + seconds]]
  /\ UNCHANGED <<insTime, insPaused, pool, liquidity, accrued, cover, market, claimBooks, items,
                 reinsurance, adminBooks>>

PoolShare(paid) == paid - (paid * FeeRate) \div 10000

(* A parametric policy pays on the event the oracle is asked about.          *)
PolicyRecord(holder, property, amount, seconds, parametric) ==
  [holder |-> holder, property |-> property, amount |-> amount,
   deductible |-> DeductibleOf(property, amount), end |-> insTime + seconds,
   status |-> "Active", parametric |-> parametric, claimed |-> 0]

(* The token of policy i is token i: one is minted with each policy.         *)
MintedToken(owner) == [owner |-> owner, price |-> NoOffer]

(* create_policy and create_parametric_policy.                               *)
CreatePolicy(holder, property, kind, amount, seconds, paid, parametric) ==
  LET share == PoolShare(paid) IN
  /\ ~ insPaused /\ Len(cover) < MaxCovers
  /\ amount <= (pool.capital * CoverageRatio) \div 10000
  /\ amount <= ((pool.available + share) * CoverageRatio) \div 10000
  /\ assessment[property] # NotAssessed /\ insTime <= assessment[property].until
  /\ PremiumOf(property, amount, kind) >= MinPremium
  /\ paid >= PremiumOf(property, amount, kind)
  /\ pool.available + share <= MaxAvailable
  /\ pool' = [WithPremium(share) EXCEPT !.active = @ + 1] /\ AccruePremium(share)
  /\ cover' = Append(cover, PolicyRecord(holder, property, amount, seconds, parametric))
  /\ token' = Append(token, MintedToken(holder))
  /\ UNCHANGED <<insTime, insPaused, liquidity, assessment, listings, claimBooks, items,
                 reinsurance, adminBooks>>

(* A renewed policy has a status of its own: no claim, cancellation, expiry  *)
(* or sale reaches it.                                                       *)
Renewed(policy, seconds) == [policy EXCEPT !.end = @ + seconds, !.status = "Renewed"]

RenewPolicy(i, seconds, paid) ==
  /\ cover[i].status \in {"Active", "Renewed"} /\ paid > 0
  /\ pool.available + PoolShare(paid) <= MaxAvailable
  /\ pool' = WithPremium(PoolShare(paid)) /\ AccruePremium(PoolShare(paid))
  /\ cover' = [cover EXCEPT ![i] = Renewed(@, seconds)]
  /\ UNCHANGED <<insTime, insPaused, liquidity, assessment, market, claimBooks, items,
                 reinsurance, adminBooks>>

(* The policy stops counting in its pool, at most once.                      *)
Stops(ids, status) ==
  /\ cover' = [i \in DOMAIN cover |-> IF i \in ids THEN [cover[i] EXCEPT !.status = status] ELSE cover[i]]
  /\ pool'  = [pool EXCEPT !.active = LessOrZero(@, Cardinality(ids))]
  /\ UNCHANGED <<insTime, insPaused, liquidity, accrued, assessment, market, claimBooks, items,
                 reinsurance, adminBooks>>

CancelPolicy(i) ==
  /\ cover[i].status = "Active"
  /\ Stops({i}, "Cancelled")

Overdue(i) == cover[i].status = "Active" /\ insTime > cover[i].end

(* expire_policies takes the first max_scan overdue ones; 0 takes all.       *)
ExpirePolicies(limit) ==
  LET overdue == {i \in DOMAIN cover : Overdue(i)}
      first   == {i \in overdue : limit = 0 \/ Cardinality({j \in overdue : j <= i}) <= limit}
  IN  first # {} /\ Stops(first, "Expired")

-----------------------------------------------------------------------------
(* What an approval pays: the claim without the deductible.                  *)
PayoutOf(claim) == LessOrZero(claim.amount, cover[claim.policy].deductible)

(* Above the threshold the agreement gives back what exceeds the retention,  *)
(* up to its limit: of each claim, not of all of them.                       *)
Recovery(payout) ==
  LET excess == LessOrZero(payout, Retention)
  IN  IF payout <= ReinsuranceThreshold \/ reinsured < insTime \/ reinsured = 0 THEN 0
      ELSE IF excess < RecoveryLimit THEN excess ELSE RecoveryLimit

Assessed(claim, status, by) == [claim EXCEPT !.status = status, !.assessor = by]

(* A policy that has paid all it covers is over.                             *)
Charged(policy, payout) ==
  LET total == policy.claimed + payout
  IN  [policy EXCEPT !.claimed = total, !.status = IF total >= policy.amount THEN "Claimed" ELSE @]

(* execute_payout and the claim's new status.  A payout of 0 changes nothing *)
(* but the status; coverage is not looked at again.                          *)
Settle(books, id, by) ==
  LET claim  == books[id]
      i      == claim.policy
      payout == PayoutOf(claim)
  IN  IF payout = 0
      THEN /\ insClaims' = [books EXCEPT ![id] = Assessed(@, "Approved", by)]
           /\ UNCHANGED <<pool, cover, lastPayout, recovered>>
      ELSE /\ payout <= pool.available
           /\ insClaims' = [books EXCEPT ![id] = Assessed(@, "Paid", by)]
           /\ pool' = [pool EXCEPT !.available = @ - payout]
           /\ cover' = [cover EXCEPT ![i] = Charged(@, payout)]
           /\ lastPayout' = [lastPayout EXCEPT ![cover[i].property] = insTime]
           /\ recovered' = recovered + Recovery(payout)

NewClaim(caller, i, amount) ==
  [policy |-> i, claimant |-> caller, amount |-> amount, status |-> "Pending",
   assessor |-> "nobody", deadline |-> insTime + DisputeWindow]

Claimable(caller, i, amount) ==
  /\ ~ insPaused /\ Len(insClaims) < MaxInsClaims
  /\ cover[i].holder = caller /\ cover[i].status = "Active" /\ insTime <= cover[i].end
  /\ amount <= LessOrZero(cover[i].amount, cover[i].claimed)
  /\ insTime - lastPayout[cover[i].property] >= Cooldown
  /\ insTime - lastSubmit[caller] >= Cooldown

(* submit_claim: the caller passes its next nonce, and evidence of a type it *)
(* has not used for this policy.                                             *)
SubmitClaim(caller, i, amount, evidence, nonce) ==
  /\ nonce = nonces[caller] /\ <<i, evidence>> \notin usedEvidence
  /\ Claimable(caller, i, amount) /\ ~ cover[i].parametric
  /\ insClaims'  = Append(insClaims, NewClaim(caller, i, amount))
  /\ paidClaims' = Append(paidClaims, 0)
  /\ usedEvidence' = usedEvidence \cup {<<i, evidence>>}
  /\ lastSubmit' = [lastSubmit EXCEPT ![caller] = insTime]
  /\ nonces' = [nonces EXCEPT ![caller] = @ + 1]
  /\ UNCHANGED <<insTime, insPaused, pool, liquidity, accrued, assessment, cover, market, lastPayout,
                 items, reinsurance, adminBooks>>

(* A parametric claim is processed in the same call, with the claimant as    *)
(* its assessor; the nonce and the evidence stay good for another one.       *)
SubmitParametricClaim(caller, i, amount, evidence, nonce) ==
  /\ nonce = nonces[caller] /\ <<i, evidence>> \notin usedEvidence
  /\ Claimable(caller, i, amount) /\ cover[i].parametric /\ May(caller)
  /\ LET id == Len(insClaims) + 1
     IN  /\ Settle(Append(insClaims, NewClaim(caller, i, amount)), id, caller)
         /\ paidClaims' = Append(paidClaims, 1)
  /\ UNCHANGED <<insTime, insPaused, liquidity, accrued, assessment, market, lastSubmit, nonces,
                 usedEvidence, items, reinsured, adminBooks>>

(* UnderReview is in the type, and no message sets it.                       *)
Unsettled_Disputed(id) == insClaims[id].status \in {"Pending", "Disputed"}

Unsettled(id) == insClaims[id].status = "Pending"

Rejects(caller, id) ==
  /\ Unsettled(id)
  /\ insClaims' = [insClaims EXCEPT ![id] = Assessed(@, "Rejected", caller)]
  /\ UNCHANGED <<pool, cover, paidClaims, lastPayout, recovered>>

Approves(caller, id) ==
  /\ Unsettled(id)
  /\ Settle(insClaims, id, caller)
  /\ paidClaims' = [paidClaims EXCEPT ![id] = @ + 1]

UntouchedByProcessing ==
  UNCHANGED <<insTime, insPaused, liquidity, accrued, assessment, market, lastSubmit, nonces,
              usedEvidence, items, reinsured, adminBooks>>

ProcessClaim(caller, id) ==
  /\ ~ insPaused /\ May(caller)
  /\ Approves(caller, id) \/ Rejects(caller, id)
  /\ UntouchedByProcessing

(* batch_approve_claims and batch_reject_claims, one item: a batch is a      *)
(* sequence of them.  Neither looks at the pause.  An item that fails for    *)
(* want of capital is not undone: the claim stays Approved and unpaid, and   *)
(* the recovery stays booked.                                                *)
FailsUnpaid(caller, id) ==
  LET payout == PayoutOf(insClaims[id]) IN
  /\ Unsettled(id) /\ payout > pool.available
  /\ insClaims' = [insClaims EXCEPT ![id] = Assessed(@, "Approved", caller)]
  /\ recovered' = recovered + Recovery(payout)
  /\ UNCHANGED <<pool, cover, paidClaims, lastPayout>>

BatchItem(caller, id) ==
  /\ May(caller)
  /\ Approves(caller, id) \/ Rejects(caller, id) \/ FailsUnpaid(caller, id)
  /\ UntouchedByProcessing

(* move_to_dispute: by anyone, at any time, whatever the claim's status; no  *)
(* message leads out of a dispute.                                           *)
MoveToDispute(id) ==
  /\ ~ insPaused
  /\ insClaims' = [insClaims EXCEPT ![id].status = "Disputed"]
  /\ UNCHANGED <<pool, cover, paidClaims, lastPayout, recovered>>
  /\ UntouchedByProcessing

(* submit_evidence, and verify_evidence, once by each assessor.              *)
SubmitEvidence(caller, id) ==
  /\ Len(items) < MaxItems
  /\ caller \in {insClaims[id].claimant, insClaims[id].assessor} \cup adminRole
  /\ items' = Append(items, [claim |-> id, verified |-> FALSE, by |-> [a \in Accounts |-> "none"]])
  /\ UNCHANGED <<insTime, insPaused, pool, liquidity, accrued, assessment, cover, market, claimBooks,
                 reinsurance, adminBooks>>

VerifyEvidence(caller, n, valid) ==
  /\ May(caller) /\ items[n].by[caller] = "none"
  /\ items' = [items EXCEPT ![n].verified = @ \/ valid,
                            ![n].by[caller] = IF valid THEN "valid" ELSE "invalid"]
  /\ UNCHANGED <<insTime, insPaused, pool, liquidity, accrued, assessment, cover, market, claimBooks,
                 reinsurance, adminBooks>>

RegisterReinsurance(seconds) ==
  /\ reinsured = 0
  /\ reinsured' = insTime + seconds
  /\ UNCHANGED <<insTime, insPaused, pool, liquidity, accrued, assessment, cover, market, claimBooks,
                 items, recovered, adminBooks>>

-----------------------------------------------------------------------------
ListToken(i, price) ==
  /\ token' = [token EXCEPT ![i].price = price]
  /\ listings' = listings \cup {i}
  /\ UNCHANGED <<insTime, insPaused, pool, liquidity, accrued, assessment, cover, claimBooks, items,
                 reinsurance, adminBooks>>

PurchaseToken_KeepsHolder(buyer, i, paid) ==
  /\ token[i].price # NoOffer /\ paid >= token[i].price
  /\ cover[i].status = "Active"
  /\ token' = [token EXCEPT ![i].owner = buyer, ![i].price = NoOffer]
  /\ listings' = listings \ {i}
  /\ UNCHANGED <<insTime, insPaused, pool, liquidity, accrued, assessment, cover, claimBooks, items,
                 reinsurance, adminBooks>>

(* purchase_token hands over the policy with the token; the price stays with *)
(* the contract.                                                             *)
PurchaseToken(buyer, i, paid) ==
  /\ token[i].price # NoOffer /\ paid >= token[i].price
  /\ cover[i].status = "Active"
  /\ cover' = [cover EXCEPT ![i].holder = buyer]
  /\ token' = [token EXCEPT ![i].owner = buyer, ![i].price = NoOffer]
  /\ listings' = listings \ {i}
  /\ UNCHANGED <<insTime, insPaused, pool, liquidity, accrued, assessment, claimBooks, items,
                 reinsurance, adminBooks>>

(* propose_set_admin, execute_set_admin and cancel_pending_admin check       *)
(* Role::Admin and leave the roles alone.                                    *)
HandsOver ==
  UNCHANGED <<insTime, insPaused, pool, liquidity, accrued, assessment, cover, market, claimBooks,
              items, reinsurance>>

ProposeSetAdmin(caller, to) ==
  /\ caller \in adminRole /\ proposal = NoProposal
  /\ proposal' = [to |-> to, after |-> insTime + AdminDelay]
  /\ UNCHANGED <<adminRole, insAdmin>> /\ HandsOver

ExecuteSetAdmin(caller) ==
  /\ caller \in adminRole /\ proposal # NoProposal /\ insTime >= proposal.after
  /\ insAdmin' = proposal.to /\ proposal' = NoProposal
  /\ UNCHANGED adminRole /\ HandsOver

CancelPendingAdmin(caller) ==
  /\ caller \in adminRole /\ proposal # NoProposal
  /\ proposal' = NoProposal
  /\ UNCHANGED <<adminRole, insAdmin>> /\ HandsOver

(* grant_role and revoke_role, of Role::Admin.                               *)
GrantAdmin(caller, a) ==
  /\ caller \in adminRole /\ adminRole' = adminRole \cup {a}
  /\ UNCHANGED <<insAdmin, proposal>> /\ HandsOver

RevokeAdmin(caller, a) ==
  /\ caller \in adminRole /\ adminRole' = adminRole \ {a}
  /\ UNCHANGED <<insAdmin, proposal>> /\ HandsOver

-----------------------------------------------------------------------------
Insuring ==
  \/ \E p \in Insured, score \in Scores, s \in Validity : UpdateRiskAssessment(p, score, s)
  \/ \E h \in Accounts, p \in Insured, kind \in Kinds, amount \in Coverages, s \in Terms,
        paid \in Payments, parametric \in BOOLEAN :
       CreatePolicy(h, p, kind, amount, s, paid, parametric)
  \/ \E i \in DOMAIN cover, s \in Terms, paid \in Payments : RenewPolicy(i, s, paid)
  \/ \E i \in DOMAIN cover : CancelPolicy(i)
  \/ \E limit \in 0..1 : ExpirePolicies(limit)

Claiming ==
  \/ \E a \in Accounts, i \in DOMAIN cover, amount \in ClaimAmounts, evidence \in EvidenceTypes,
        nonce \in 0..MaxInsClaims :
       SubmitClaim(a, i, amount, evidence, nonce) \/ SubmitParametricClaim(a, i, amount, evidence, nonce)
  \/ \E a \in Accounts, id \in DOMAIN insClaims : ProcessClaim(a, id) \/ BatchItem(a, id)
  \/ \E id \in DOMAIN insClaims : MoveToDispute(id)

(* batch_submit_evidence is a row of submissions for one claim.              *)
Evidence ==
  \/ \E a \in Accounts, id \in DOMAIN insClaims : SubmitEvidence(a, id)
  \/ \E a \in Accounts, n \in DOMAIN items, valid \in BOOLEAN : VerifyEvidence(a, n, valid)

Marketing ==
  \/ \E i \in DOMAIN token, price \in AskPrices : ListToken(i, price)
  \/ \E a \in Accounts, i \in DOMAIN token, paid \in AskPrices : PurchaseToken(a, i, paid)

Administering ==
  \E caller, a \in Accounts :
    \/ ProposeSetAdmin(caller, a) \/ GrantAdmin(caller, a) \/ RevokeAdmin(caller, a)
    \/ ExecuteSetAdmin(caller) \/ CancelPendingAdmin(caller)

(* What moves the pool, its pause or the clock alone.                        *)
PoolStep ==
  /\ Providing \/ SwitchPause \/ InsTick
  /\ UNCHANGED <<assessment, cover, market, claimBooks, items, reinsurance, adminBooks>>

Reinsuring == \E s \in Terms : RegisterReinsurance(s)

InsNext ==
  PoolStep \/ Insuring \/ Claiming \/ Evidence \/ Marketing \/ Administering \/ Reinsuring

InsSpec == InsInit /\ [][InsNext]_insVars

-----------------------------------------------------------------------------
ClaimStatuses == {"Pending", "Approved", "Rejected", "Paid", "Disputed"}

InsTypeOK ==
  /\ LiquidityTypeOK
  /\ \A i \in DOMAIN cover : /\ cover[i].holder \in Accounts /\ cover[i].claimed \in Nat
                             /\ cover[i].status \in {"Active", "Renewed", "Cancelled", "Expired", "Claimed"}
  /\ Len(token) = Len(cover) /\ Len(paidClaims) = Len(insClaims)
  /\ \A id \in DOMAIN insClaims : insClaims[id].status \in ClaimStatuses /\ insClaims[id].policy \in DOMAIN cover
  /\ reinsured \in Nat /\ recovered \in Nat /\ insAdmin \in Accounts

(* A policy has been charged what its approved claims paid, each of them     *)
(* once: neither a dispute nor a batch, nor a parametric claim that is       *)
(* processed within its own submission, settles a claim a second time.       *)
ClaimsArePaidOnce ==
  /\ \A id \in DOMAIN insClaims : paidClaims[id] <= 1
  /\ \A i \in DOMAIN cover :
       cover[i].claimed = SumFunction([id \in DOMAIN insClaims |->
         IF insClaims[id].policy = i THEN paidClaims[id] * PayoutOf(insClaims[id]) ELSE 0])

(* The pool's count covers every policy in force: a policy that was          *)
(* cancelled or has expired leaves it once.                                  *)
PoliciesInForceCount ==
  Cardinality({i \in DOMAIN cover : cover[i].status \in {"Active", "Renewed"}}) <= pool.active

(* The pool's books agree with the accounts: the stake that premiums are     *)
(* divided by is the providers', what they are paid stays within the         *)
(* premiums, and no policy in force is left uncounted, whatever is           *)
(* deposited, staked again, cancelled, renewed or settled.                   *)
PoolBooksAgree == StakesAddUp /\ RewardsWithinPremiums /\ PoliciesInForceCount

(* Whoever owns the token holds the policy, and what is on the market is     *)
(* what has a price.                                                         *)
TokenFollowsPolicy ==
  \A i \in DOMAIN cover :
    /\ token[i].owner = cover[i].holder
    /\ i \in listings <=> token[i].price # NoOffer

(* Claims are never paid above what the policy covers.  The code checks a    *)
(* claim against what is left when it is submitted, and two that were        *)
(* submitted before either was paid are both paid.                           *)
PaidWithinCoverage == \A i \in DOMAIN cover : cover[i].claimed <= cover[i].amount
=============================================================================
