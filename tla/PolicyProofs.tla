----------------------------- MODULE PolicyProofs -----------------------------
(*****************************************************************************)
(* Proofs about the policy contract for every set of holders, coverages and  *)
(* durations, every modulus at which durations and amounts wrap, and batches *)
(* of any length.                                                            *)
(*****************************************************************************)
EXTENDS Policy, SumTheorems, SequenceTheorems

(* A list of policies is a function into the records, which is how the steps *)
(* below use it.                                                             *)
Listed(list) == \E n \in Nat : n <= PolicyLimit /\ list \in [1..n -> PolicyRecord]

Covered(policy) == policy.claimed > 0 => policy.claimed <= policy.coverage

(* The inductive invariant: the types, and no policy above its coverage.     *)
IInv == TypeOK /\ ClaimedWithinCoverage

(* What a step must establish: the invariant again, and no policy that is    *)
(* active afterwards and was not before.                                     *)
Revived   == \E id \in PolicyId : IsActive(policies[id])' /\ ~ IsActive(policies[id])
Preserved == IInv' /\ ~ Revived

-----------------------------------------------------------------------------
(* A sequence of at most PolicyLimit records is such a function.             *)
LEMMA ListIsSequence ==
  ASSUME NEW list
  PROVE  (list \in Seq(PolicyRecord) /\ Len(list) <= PolicyLimit) <=> Listed(list)
<1>1. ASSUME list \in Seq(PolicyRecord), Len(list) <= PolicyLimit PROVE Listed(list)
  <2>1. Len(list) \in Nat /\ list \in [1..Len(list) -> PolicyRecord]
    BY <1>1
  <2> QED BY <1>1, <2>1 DEF Listed
<1>2. ASSUME Listed(list) PROVE list \in Seq(PolicyRecord) /\ Len(list) <= PolicyLimit
  <2>1. PICK n \in Nat : n <= PolicyLimit /\ list \in [1..n -> PolicyRecord]
    BY <1>2 DEF Listed
  <2>2. list \in Seq(PolicyRecord) BY <2>1
  <2>3. Len(list) = n BY <2>1, <2>2, SMTT(20)
  <2> QED BY <2>1, <2>2, <2>3
<1> QED BY <1>1, <1>2

(* The contract starts without policies.                                     *)
LEMMA InitEstablishes ==
  ASSUME PolicyAssumption, Init
  PROVE  IInv
<1>1. policies = <<>> /\ now = 0 /\ coverageCap = MaxCoverage /\ policyAdmin = FALSE
      /\ claimsContract = NoContract /\ governanceContract = NoContract
  BY DEF Init, InitPolicies
<1>2. policies \in Seq(PolicyRecord) /\ Len(policies) <= PolicyLimit
  BY <1>1 DEF PolicyAssumption
<1>3. TypeOK BY <1>1, <1>2 DEF TypeOK, PolicyAssumption
<1>4. PolicyId = {} BY <1>1 DEF PolicyId
<1> QED BY <1>3, <1>4 DEF IInv, ClaimedWithinCoverage

(* Every policy that is read has the fields of its record.                   *)
LEMMA PolicyFields ==
  ASSUME TypeOK
  PROVE  policies \in [PolicyId -> PolicyRecord]
<1>1. PICK n \in Nat : n <= PolicyLimit /\ policies \in [1..n -> PolicyRecord]
  BY ListIsSequence DEF TypeOK, Listed
<1> QED BY <1>1 DEF PolicyId

(* A step that changes some records of the list, keeps each within its       *)
(* coverage and revives none.                                                *)
LEMMA StepChangesRecords ==
  ASSUME PolicyAssumption, IInv, UNCHANGED <<now, settings>>,
         policies' \in [PolicyId -> PolicyRecord],
         \A id \in PolicyId : Covered(policies'[id]),
         \A id \in PolicyId : policies'[id] = policies[id]
            \/ (policies'[id].status \in Live /\ now <= policies'[id].start + policies'[id].duration
                  => IsActive(policies[id]))
  PROVE  Preserved
<1>1. PICK n \in Nat : n <= PolicyLimit /\ policies \in [1..n -> PolicyRecord]
  BY ListIsSequence DEF IInv, TypeOK, Listed
<1>2. PolicyId = 1..n /\ DOMAIN policies' = PolicyId BY <1>1 DEF PolicyId
<1>3. Listed(policies') BY <1>1, <1>2 DEF Listed
<1>4. TypeOK' BY <1>3, ListIsSequence DEF IInv, TypeOK, settings
<1>5. ClaimedWithinCoverage' BY <1>2 DEF ClaimedWithinCoverage, Covered, PolicyId
<1>6. ~ Revived BY DEF Revived, IsActive, Expiry
<1> QED BY <1>4, <1>5, <1>6 DEF IInv, Preserved

(* New policies are appended: nothing has been claimed on them.              *)
LEMMA StepIssues ==
  ASSUME PolicyAssumption, IInv, NEW n \in Nat, NEW requests \in [1..n -> Request],
         IssuePoliciesBatch(requests)
  PROVE  Preserved
<1> DEFINE fresh == [i \in DOMAIN requests |->
          [holder |-> requests[i].holder, coverage |-> requests[i].coverage, start |-> now,
           duration |-> requests[i].days, status |-> "Active", claimed |-> 0]]
<1>1. policies' = policies \o fresh /\ UNCHANGED <<now, settings>>
      /\ Len(policies) + Len(requests) <= PolicyLimit
  BY DEF IssuePoliciesBatch
<1>2. \A i \in 1..n : fresh[i] \in PolicyRecord /\ fresh[i].claimed = 0
  <2>1. 0 \in Int /\ "Active" \in Status BY DEF Status, Live
  <2> QED BY <2>1 DEF IInv, TypeOK, PolicyRecord, Request, PolicyAssumption
<1>3. fresh \in Seq(PolicyRecord) /\ Len(fresh) = n
  BY <1>2
<1>4. requests \in Seq(Request) /\ Len(requests) = n
  OBVIOUS
<1> HIDE DEF fresh
<1>5. policies \in Seq(PolicyRecord) /\ Len(policies) \in Nat BY DEF IInv, TypeOK
<1>6. /\ policies' \in Seq(PolicyRecord)
      /\ Len(policies') = Len(policies) + n
      /\ \A i \in 1..Len(policies) : policies'[i] = policies[i]
      /\ \A i \in (Len(policies) + 1) .. (Len(policies) + n) : policies'[i] = fresh[i - Len(policies)]
  <2>1. /\ policies' \in Seq(PolicyRecord)
        /\ Len(policies') = Len(policies) + Len(fresh)
        /\ \A i \in 1..Len(policies) + Len(fresh) : policies'[i] =
              IF i <= Len(policies) THEN policies[i] ELSE fresh[i - Len(policies)]
    BY <1>1, <1>3, <1>5, ConcatProperties
  <2> QED BY <2>1, <1>3, <1>5
<1>7. TypeOK' BY <1>1, <1>4, <1>6 DEF IInv, TypeOK, settings
<1>8. PolicyId = 1..Len(policies) /\ PolicyId' = 1..(Len(policies) + n)
  BY <1>5, <1>6 DEF PolicyId
<1>9. ASSUME NEW id \in PolicyId' PROVE Covered(policies'[id])
  <2>1. CASE id \in PolicyId
    BY <2>1, <1>6, <1>8 DEF IInv, ClaimedWithinCoverage, Covered
  <2>2. CASE id \notin PolicyId
    <3>1. id - Len(policies) \in 1..n /\ policies'[id] = fresh[id - Len(policies)]
      BY <2>2, <1>5, <1>6, <1>8
    <3> QED BY <3>1, <1>2 DEF Covered, fresh
  <2> QED BY <2>1, <2>2
<1>10. ClaimedWithinCoverage' BY <1>9 DEF ClaimedWithinCoverage, Covered
<1>11. ~ Revived BY <1>1, <1>6, <1>8 DEF Revived, IsActive, Expiry
<1> QED BY <1>7, <1>10, <1>11 DEF IInv, Preserved
(* A renewal: the policy is active, and what it paid and covers stays.       *)
LEMMA RenewedRecord ==
  ASSUME PolicyAssumption, NEW policy \in PolicyRecord, Covered(policy), NEW days \in Days
  PROVE  Renewed(policy, days) \in PolicyRecord /\ Covered(Renewed(policy, days))
<1>1. /\ policy.duration \in 0..(DurationMod - 1) /\ days \in Nat /\ DurationMod \in Nat \ {0}
      /\ policy.status \in Status /\ policy.holder \in Holder
      /\ policy.start \in Nat /\ policy.claimed \in Int /\ policy.coverage \in Int
  BY DEF PolicyRecord, PolicyAssumption
<1>2. (policy.duration + days) % DurationMod \in 0..(DurationMod - 1)
  BY <1>1
<1>3. "Renewed" \in Status BY DEF Status, Live
<1> QED BY <1>1, <1>2, <1>3 DEF Renewed, PolicyRecord, Covered

LEMMA StepRenews ==
  ASSUME PolicyAssumption, IInv, NEW id \in PolicyId, NEW days \in Days, RenewPolicy(id, days)
  PROVE  Preserved
<1>1. policies \in [PolicyId -> PolicyRecord] /\ Covered(policies[id])
  BY PolicyFields DEF IInv, ClaimedWithinCoverage, Covered
<1>2. IsActive(policies[id]) /\ policies' = [policies EXCEPT ![id] = Renewed(@, days)]
      /\ UNCHANGED <<now, settings>>
  BY DEF RenewPolicy
<1>3. Renewed(policies[id], days) \in PolicyRecord /\ Covered(Renewed(policies[id], days))
  BY <1>1, RenewedRecord
<1>4. policies' \in [PolicyId -> PolicyRecord] BY <1>1, <1>2, <1>3
<1>5. \A i \in PolicyId : Covered(policies'[i])
  BY <1>1, <1>2, <1>3 DEF IInv, ClaimedWithinCoverage, Covered
<1> QED BY <1>1, <1>2, <1>4, <1>5, StepChangesRecords

(* Two renewals of a batch: the second sees what the first did.              *)
LEMMA StepRenewsTwo ==
  ASSUME PolicyAssumption, IInv, NEW first \in PolicyId \X Days, NEW second \in PolicyId \X Days,
         RenewPoliciesBatch(first, second)
  PROVE  Preserved
<1> DEFINE once == [policies EXCEPT ![first[1]] = Renewed(@, first[2])]
<1>1. policies \in [PolicyId -> PolicyRecord] /\ \A i \in PolicyId : Covered(policies[i])
  BY PolicyFields DEF IInv, ClaimedWithinCoverage, Covered
<1>2. /\ IsActive(policies[first[1]]) /\ IsActive(once[second[1]])
      /\ policies' = [once EXCEPT ![second[1]] = Renewed(@, second[2])]
      /\ UNCHANGED <<now, settings>>
  BY DEF RenewPoliciesBatch
<1>3. first[1] \in PolicyId /\ first[2] \in Days /\ second[1] \in PolicyId /\ second[2] \in Days
  OBVIOUS
<1>4. once \in [PolicyId -> PolicyRecord] /\ \A i \in PolicyId : Covered(once[i])
  <2>1. Renewed(policies[first[1]], first[2]) \in PolicyRecord
        /\ Covered(Renewed(policies[first[1]], first[2]))
    BY <1>1, <1>3, RenewedRecord
  <2> QED BY <1>1, <1>3, <2>1
<1>5. \A i \in PolicyId : once[i] = policies[i] \/ IsActive(policies[i])
  BY <1>1, <1>2, <1>3
<1> HIDE DEF once
<1>6. Renewed(once[second[1]], second[2]) \in PolicyRecord
      /\ Covered(Renewed(once[second[1]], second[2]))
  BY <1>3, <1>4, RenewedRecord
<1>7. policies' \in [PolicyId -> PolicyRecord] /\ \A i \in PolicyId : Covered(policies'[i])
  BY <1>2, <1>3, <1>4, <1>6
<1>8. \A i \in PolicyId : policies'[i] = policies[i] \/ IsActive(policies[i])
  BY <1>2, <1>3, <1>4, <1>5
<1> QED BY <1>2, <1>7, <1>8, StepChangesRecords

(* A cancellation or an expiry leaves a policy that is not active.           *)
LEMMA StepStops ==
  ASSUME PolicyAssumption, IInv,
         \/ \E ids \in SUBSET PolicyId : CancelPoliciesBatch(ids)
         \/ \E id \in PolicyId : CancelPolicy(id) \/ ExpirePolicy(id)
  PROVE  Preserved
<1>1. policies \in [PolicyId -> PolicyRecord] /\ \A i \in PolicyId : Covered(policies[i])
  BY PolicyFields DEF IInv, ClaimedWithinCoverage, Covered
<1>2. "Cancelled" \in Status /\ "Expired" \in Status /\ "Cancelled" \notin Live /\ "Expired" \notin Live
  BY DEF Status, Terminal, Live
<1>3. ASSUME NEW ids \in SUBSET PolicyId, CancelPoliciesBatch(ids) PROVE Preserved
  <2>1. /\ policies' = [i \in PolicyId |->
              IF i \in ids THEN [policies[i] EXCEPT !.status = "Cancelled"] ELSE policies[i]]
        /\ UNCHANGED <<now, settings>>
    BY <1>3 DEF CancelPoliciesBatch
  <2>2. \A i \in PolicyId : policies'[i] \in PolicyRecord /\ Covered(policies'[i])
    BY <1>1, <1>2, <2>1 DEF PolicyRecord, Covered
  <2>3. policies' \in [PolicyId -> PolicyRecord] BY <2>1, <2>2
  <2>4. \A i \in PolicyId : policies'[i] = policies[i] \/ policies'[i].status \notin Live
    BY <1>1, <1>2, <2>1 DEF PolicyRecord
  <2> QED BY <2>1, <2>2, <2>3, <2>4, StepChangesRecords
<1>4. ASSUME NEW id \in PolicyId, ExpirePolicy(id) PROVE Preserved
  <2>1. policies' = [policies EXCEPT ![id].status = "Expired"] /\ UNCHANGED <<now, settings>>
    BY <1>4 DEF ExpirePolicy
  <2>2. policies' \in [PolicyId -> PolicyRecord] /\ \A i \in PolicyId : Covered(policies'[i])
    BY <1>1, <1>2, <2>1 DEF PolicyRecord, Covered
  <2>3. \A i \in PolicyId : policies'[i] = policies[i] \/ policies'[i].status \notin Live
    BY <1>1, <1>2, <2>1 DEF PolicyRecord
  <2> QED BY <2>1, <2>2, <2>3, StepChangesRecords
<1> QED BY <1>3, <1>4 DEF CancelPolicy

(* A patch of the DAO: the new coverage is at least what was claimed, and a  *)
(* terminal status is not patched.  A live status does not extend the term.  *)
LEMMA StepPatches ==
  ASSUME PolicyAssumption, IInv, NEW id \in PolicyId, NEW patch \in Patch,
         ApplyGovernanceUpdate(id, patch)
  PROVE  Preserved
<1> DEFINE coverage == OrElse(patch.coverage, policies[id].coverage)
           status   == OrElse(patch.status, policies[id].status)
<1>1. policies \in [PolicyId -> PolicyRecord] /\ \A i \in PolicyId : Covered(policies[i])
  BY PolicyFields DEF IInv, ClaimedWithinCoverage, Covered
<1>2. /\ PatchAllowed(policies[id], patch) /\ UNCHANGED <<now, settings>>
      /\ policies' = [policies EXCEPT ![id] = [@ EXCEPT !.coverage = coverage, !.status = status]]
  BY <1>1 DEF ApplyGovernanceUpdate, PolicyRecord
<1>3. patch.coverage = {} \/ \E c \in Coverage : patch.coverage = {c}
  BY DEF Patch, Option
<1>4. patch.status = {} \/ \E st \in Status : patch.status = {st}
  BY DEF Patch, Option
<1>5. policies[id] \in PolicyRecord /\ policies[id].claimed \in Int /\ policies[id].coverage \in Int
      /\ policies[id].status \in Status
  BY <1>1 DEF PolicyRecord
<1>6. coverage \in Int /\ (policies[id].claimed > 0 => policies[id].claimed <= coverage)
  <2>1. CASE patch.coverage = {} BY <2>1, <1>1, <1>5 DEF OrElse, Covered
  <2>2. CASE \E c \in Coverage : patch.coverage = {c}
    <3>1. PICK c \in Coverage : patch.coverage = {c} BY <2>2
    <3>2. coverage = c BY <3>1 DEF OrElse
    <3> QED BY <3>1, <3>2, <1>2 DEF PatchAllowed, PolicyAssumption
  <2> QED BY <2>1, <2>2, <1>3
<1>7. status \in Status /\ (status = policies[id].status \/ policies[id].status \in Live)
  <2>1. CASE patch.status = {} BY <2>1, <1>5 DEF OrElse
  <2>2. CASE \E st \in Status : patch.status = {st}
    <3>1. PICK st \in Status : patch.status = {st} BY <2>2
    <3>2. status = st BY <3>1 DEF OrElse
    <3> QED BY <3>1, <3>2, <1>2, <1>5 DEF PatchAllowed, Status
  <2> QED BY <2>1, <2>2, <1>4
<1> HIDE DEF coverage, status
<1>8. policies' \in [PolicyId -> PolicyRecord] /\ \A i \in PolicyId : Covered(policies'[i])
  BY <1>1, <1>2, <1>6, <1>7 DEF PolicyRecord, Covered
<1>9. \A i \in PolicyId : policies'[i] = policies[i]
        \/ (policies'[i].status \in Live /\ now <= policies'[i].start + policies'[i].duration
              => IsActive(policies[i]))
  BY <1>1, <1>2, <1>7 DEF IsActive, Expiry, PolicyRecord
<1> QED BY <1>2, <1>8, <1>9, StepChangesRecords

(* A settlement reported by the claims contract.                             *)
LEMMA StepClaimed ==
  ASSUME PolicyAssumption, IInv, NEW id \in PolicyId, NEW amount \in ClaimAmount,
         UpdateClaimed(id, amount)
  PROVE  Preserved
<1>1. policies \in [PolicyId -> PolicyRecord] /\ \A i \in PolicyId : Covered(policies[i])
  BY PolicyFields DEF IInv, ClaimedWithinCoverage, Covered
<1>2. /\ I128(policies[id].claimed + amount) <= policies[id].coverage
      /\ policies' = [policies EXCEPT ![id].claimed = I128(@ + amount)]
      /\ UNCHANGED <<now, settings>>
  BY DEF UpdateClaimed
<1>3. policies[id] \in PolicyRecord /\ I128(policies[id].claimed + amount) \in Int
  <2>1. policies[id] \in PolicyRecord BY <1>1
  <2>2. policies[id].claimed + amount \in Int BY <2>1 DEF PolicyRecord, PolicyAssumption
  <2> QED BY <2>1, <2>2, I128OfSum DEF PolicyAssumption
<1>4. policies' \in [PolicyId -> PolicyRecord] BY <1>1, <1>2, <1>3 DEF PolicyRecord
<1>5. \A i \in PolicyId : Covered(policies'[i]) BY <1>1, <1>2, <1>3 DEF PolicyRecord, Covered
<1>6. \A i \in PolicyId : policies'[i] = policies[i]
        \/ (policies'[i].status \in Live /\ now <= policies'[i].start + policies'[i].duration
              => IsActive(policies[i]))
  BY <1>1, <1>2 DEF IsActive, Expiry, PolicyRecord
<1> QED BY <1>2, <1>4, <1>5, <1>6, StepChangesRecords

(* A step that leaves the policies alone: time passes, the contracts are     *)
(* wired, the cap on coverage changes.                                       *)
LEMMA StepKeepsPolicies ==
  ASSUME PolicyAssumption, IInv, policies' = policies, now' \in Nat, now' >= now,
         coverageCap' \in Nat, policyAdmin' \in BOOLEAN,
         {claimsContract', governanceContract'} \subseteq Contracts \cup {NoContract}
  PROVE  Preserved
<1>1. TypeOK' BY DEF IInv, TypeOK
<1>2. ClaimedWithinCoverage' BY DEF IInv, ClaimedWithinCoverage, PolicyId
<1>3. \A id \in PolicyId : Expiry(policies[id]) \in Nat
  BY PolicyFields DEF IInv, Expiry, PolicyRecord, PolicyAssumption
<1>4. ~ Revived BY <1>3 DEF Revived, IsActive, Expiry, IInv, TypeOK
<1> QED BY <1>1, <1>2, <1>4 DEF IInv, Preserved

(* Every step of the contract.                                               *)
LEMMA StepPreserves ==
  ASSUME PolicyAssumption, IInv, [Next]_vars
  PROVE  Preserved
<1> USE DEF IInv, TypeOK, settings, PolicyAssumption
<1>1. CASE Tick BY <1>1, StepKeepsPolicies DEF Tick
<1>2. CASE GrantAdmin BY <1>2, StepKeepsPolicies DEF GrantAdmin
<1>3. ASSUME NEW addr \in Contracts, SetClaimsContract(addr) \/ SetGovernanceContract(addr)
      PROVE  Preserved
  BY <1>3, StepKeepsPolicies DEF SetClaimsContract, SetGovernanceContract
<1>4. ASSUME NEW cap \in Coverage, ApplyGovernanceParams(cap) PROVE Preserved
  BY <1>4, StepKeepsPolicies DEF ApplyGovernanceParams
<1>5. CASE UNCHANGED vars BY <1>5, StepKeepsPolicies DEF vars
<1>6. ASSUME NEW h \in Holder, NEW c \in Coverage, NEW d \in Days, IssuePolicy(h, c, d)
      PROVE  Preserved
  <2> DEFINE one == <<[holder |-> h, coverage |-> c, days |-> d]>>
  <2>1. one \in [1..1 -> Request] BY DEF Request
  <2>2. IssuePoliciesBatch(one) BY <1>6 DEF IssuePolicy
  <2> HIDE DEF one
  <2> QED BY <2>1, <2>2, StepIssues
<1>7. ASSUME NEW n \in 1..BatchLimit, NEW requests \in [1..n -> Request], IssuePoliciesBatch(requests)
      PROVE  Preserved
  BY <1>7, StepIssues
<1>8. CASE OwnStep
  BY <1>1, <1>2, <1>3, <1>6, <1>7, <1>8, StepRenews, StepRenewsTwo, StepStops DEF OwnStep
<1>9. CASE ContractStep
  BY <1>4, <1>9, StepPatches, StepClaimed DEF ContractStep
<1> QED BY <1>5, <1>8, <1>9 DEF Next

(* What was claimed on a policy is kept, and nothing on a new one.           *)
ClaimedKept ==
  /\ PolicyId \subseteq PolicyId'
  /\ \A id \in PolicyId' :
       policies'[id].claimed = IF id \in PolicyId THEN policies[id].claimed ELSE 0

(* Only a settlement changes what was claimed on a policy: the calls of      *)
(* holders, the admin and the DAO do not.                                    *)
LEMMA OthersKeepClaimed ==
  ASSUME PolicyAssumption, IInv,
         \/ OwnStep
         \/ \E id \in PolicyId, patch \in Patch : ApplyGovernanceUpdate(id, patch)
         \/ \E cap \in Coverage : ApplyGovernanceParams(cap)
  PROVE  ClaimedKept
<1>1. policies \in [PolicyId -> PolicyRecord] BY PolicyFields DEF IInv
<1>2. ASSUME policies' = policies PROVE ClaimedKept BY <1>2 DEF ClaimedKept, PolicyId
<1>3. ASSUME NEW n \in Nat, NEW requests \in [1..n -> Request], IssuePoliciesBatch(requests)
      PROVE  ClaimedKept
  <2> DEFINE fresh == [i \in DOMAIN requests |->
            [holder |-> requests[i].holder, coverage |-> requests[i].coverage, start |-> now,
             duration |-> requests[i].days, status |-> "Active", claimed |-> 0]]
  <2>1. policies' = policies \o fresh BY <1>3 DEF IssuePoliciesBatch
  <2>2. \A i \in 1..n : fresh[i] \in PolicyRecord /\ fresh[i].claimed = 0
    <3>1. 0 \in Int /\ "Active" \in Status BY DEF Status, Live
    <3> QED BY <3>1 DEF IInv, TypeOK, PolicyRecord, Request, PolicyAssumption
  <2>3. fresh \in Seq(PolicyRecord) /\ Len(fresh) = n BY <2>2
  <2> HIDE DEF fresh
  <2>4. policies \in Seq(PolicyRecord) /\ Len(policies) \in Nat BY DEF IInv, TypeOK
  <2>5. /\ policies' \in Seq(PolicyRecord) /\ Len(policies') = Len(policies) + n
        /\ \A i \in 1..Len(policies) + n : policies'[i] =
              IF i <= Len(policies) THEN policies[i] ELSE fresh[i - Len(policies)]
    BY <2>1, <2>3, <2>4, ConcatProperties
  <2>6. PolicyId = 1..Len(policies) /\ PolicyId' = 1..(Len(policies) + n)
    BY <2>4, <2>5 DEF PolicyId
  <2>7. ASSUME NEW id \in PolicyId', id \notin PolicyId PROVE policies'[id].claimed = 0
    <3>1. id - Len(policies) \in 1..n /\ policies'[id] = fresh[id - Len(policies)]
      BY <2>4, <2>5, <2>6, <2>7
    <3> QED BY <3>1, <2>2 DEF fresh
  <2>8. \A id \in PolicyId : policies'[id] = policies[id] BY <2>4, <2>5, <2>6
  <2> QED BY <2>4, <2>6, <2>7, <2>8 DEF ClaimedKept
<1>4. ASSUME NEW h \in Holder, NEW c \in Coverage, NEW d \in Days, IssuePolicy(h, c, d)
      PROVE  ClaimedKept
  <2> DEFINE one == <<[holder |-> h, coverage |-> c, days |-> d]>>
  <2>1. one \in [1..1 -> Request] BY DEF Request
  <2>2. IssuePoliciesBatch(one) BY <1>4 DEF IssuePolicy
  <2> HIDE DEF one
  <2> QED BY <2>1, <2>2, <1>3
<1>5. ASSUME NEW id \in PolicyId, NEW d \in Days, RenewPolicy(id, d) PROVE ClaimedKept
  BY <1>1, <1>5 DEF RenewPolicy, Renewed, ClaimedKept, PolicyId, PolicyRecord
<1>6. ASSUME NEW first \in PolicyId \X Days, NEW second \in PolicyId \X Days,
             RenewPoliciesBatch(first, second)
      PROVE  ClaimedKept
  <2> DEFINE once == [policies EXCEPT ![first[1]] = Renewed(@, first[2])]
  <2>1. policies' = [once EXCEPT ![second[1]] = Renewed(@, second[2])]
    BY <1>6 DEF RenewPoliciesBatch
  <2>2. \A p \in PolicyRecord, d \in Days :
          Renewed(p, d).claimed = p.claimed /\ DOMAIN Renewed(p, d) = DOMAIN p
    BY DEF Renewed, PolicyRecord
  <2>3. DOMAIN once = PolicyId /\ \A id \in PolicyId :
          once[id].claimed = policies[id].claimed /\ DOMAIN once[id] = DOMAIN policies[id]
    BY <1>1, <2>2
  <2>4. \A id \in PolicyId, d \in Days : Renewed(once[id], d).claimed = once[id].claimed
    BY <1>1, <2>3 DEF Renewed, PolicyRecord
  <2> HIDE DEF once
  <2>5. DOMAIN policies' = PolicyId /\ \A id \in PolicyId : policies'[id].claimed = once[id].claimed
    BY <2>1, <2>3, <2>4
  <2> QED BY <2>3, <2>5 DEF ClaimedKept, PolicyId
<1>7. ASSUME NEW ids \in SUBSET PolicyId, CancelPoliciesBatch(ids) PROVE ClaimedKept
  BY <1>1, <1>7 DEF CancelPoliciesBatch, ClaimedKept, PolicyId, PolicyRecord
<1>8. ASSUME NEW id \in PolicyId, ExpirePolicy(id) PROVE ClaimedKept
  BY <1>1, <1>8 DEF ExpirePolicy, ClaimedKept, PolicyId, PolicyRecord
<1>9. ASSUME NEW id \in PolicyId, CancelPolicy(id) PROVE ClaimedKept
  BY <1>7, <1>9 DEF CancelPolicy
<1>10. ASSUME NEW id \in PolicyId, NEW patch \in Patch, ApplyGovernanceUpdate(id, patch)
       PROVE  ClaimedKept
  BY <1>1, <1>10 DEF ApplyGovernanceUpdate, ClaimedKept, PolicyId, PolicyRecord
<1>11. ASSUME NEW cap \in Coverage, ApplyGovernanceParams(cap) PROVE ClaimedKept
  BY <1>2, <1>11 DEF ApplyGovernanceParams
<1>12. CASE OwnStep
  <2>1. CASE Tick BY <1>2, <2>1 DEF Tick
  <2>2. CASE GrantAdmin BY <1>2, <2>2 DEF GrantAdmin
  <2>3. ASSUME NEW addr \in Contracts, SetClaimsContract(addr) \/ SetGovernanceContract(addr)
        PROVE  ClaimedKept
    BY <1>2, <2>3 DEF SetClaimsContract, SetGovernanceContract
  <2>4. ASSUME NEW n \in 1..BatchLimit, NEW requests \in [1..n -> Request],
               IssuePoliciesBatch(requests)
        PROVE  ClaimedKept
    BY <1>3, <2>4
  <2> QED BY <1>4, <1>5, <1>6, <1>7, <1>8, <1>9, <1>12, <2>1, <2>2, <2>3, <2>4 DEF OwnStep
<1> QED BY <1>10, <1>11, <1>12

-----------------------------------------------------------------------------
(* Every reachable state satisfies the invariant.                            *)
THEOREM PolicyInvariant ==
  ASSUME PolicyAssumption
  PROVE  Spec => []IInv
<1>1. Init => IInv BY InitEstablishes
<1>2. IInv /\ [Next]_vars => IInv' BY StepPreserves DEF Preserved
<1> QED BY <1>1, <1>2, PTL DEF Spec

(* The list of policies, the cap and the wiring keep their types; durations  *)
(* stay below the modulus at which the code's u32 wraps, and a total that    *)
(* wraps is an integer, negative after some settlements.                     *)
THEOREM PolicyTypes ==
  ASSUME PolicyAssumption
  PROVE  Spec => []TypeOK
<1>1. IInv => TypeOK BY DEF IInv
<1> QED BY <1>1, PolicyInvariant, PTL

(* No policy's total stands above its coverage, for all coverages and        *)
(* amounts, negative ones and ones whose sum wraps as well, all patches of   *)
(* the DAO and all orders of calls.                                          *)
THEOREM PolicyCovers ==
  ASSUME PolicyAssumption
  PROVE  Spec => []ClaimedWithinCoverage
<1>1. IInv => ClaimedWithinCoverage BY DEF IInv
<1> QED BY <1>1, PolicyInvariant, PTL

(* Cover that ended never resumes, whatever durations wrap in a renewal.     *)
THEOREM PolicyNeverResumes ==
  ASSUME PolicyAssumption
  PROVE  Spec => CoverNeverResumes
<1>1. IInv /\ [Next]_vars => [\A id \in PolicyId : IsActive(policies[id])' => IsActive(policies[id])]_vars
  BY StepPreserves DEF Preserved, Revived
<1> QED BY <1>1, PolicyInvariant, PTL DEF Spec, CoverNeverResumes
=============================================================================
