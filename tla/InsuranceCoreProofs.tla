-------------------------- MODULE InsuranceCoreProofs --------------------------
(*****************************************************************************)
(* Proofs about the claims, the policies and the pool together, for any      *)
(* number of them, batches of any length and every order of calls: the locks *)
(* of the claims contract name its open claims, so that the three contracts  *)
(* implement ClaimLedger.  What holds of the policy contract alone comes     *)
(* from PolicyProofs.                                                        *)
(*****************************************************************************)
EXTENDS InsuranceCore, SumTheorems, SequenceTheorems, TLAPS

PP == INSTANCE PolicyProofs

ClaimRecord ==
  [policy : Nat, claimant : Holder, amount : {a \in ClaimAmount : a > 0},
   status : CL!Active \cup CL!Closed]

(* The claims are a list of records, each about a policy that exists.        *)
ClaimsListed ==
  /\ claims \in Seq(ClaimRecord)
  /\ \A id \in CL!ClaimId : claims[id].policy \in PO!PolicyId

(* The lock in both directions: it names an active claim of its policy, and  *)
(* every active claim has it.                                                *)
LocksNameClaims ==
  \A p \in DOMAIN activeClaim :
    /\ activeClaim[p] \in CL!ClaimId
    /\ claims[activeClaim[p]].policy = p /\ claims[activeClaim[p]].status \in CL!Active
ClaimsHoldLocks ==
  \A id \in CL!ClaimId : claims[id].status \in CL!Active =>
    /\ claims[id].policy \in DOMAIN activeClaim
    /\ activeClaim[claims[id].policy] = id

IInv == PP!IInv /\ ClaimsListed /\ LocksNameClaims /\ ClaimsHoldLocks

-----------------------------------------------------------------------------
(* The calls to the policy contract are the ones PolicyProofs is about.      *)
LEMMA PolicyCalls ==
  /\ PO!OwnStep => PP!OwnStep
  /\ (\E id \in PO!PolicyId, patch \in PO!Patch : PO!ApplyGovernanceUpdate(id, patch))
       => \E id \in PP!PolicyId, patch \in PP!Patch : PP!ApplyGovernanceUpdate(id, patch)
  /\ (\E cap \in Coverage : PO!ApplyGovernanceParams(cap))
       => \E cap \in Coverage : PP!ApplyGovernanceParams(cap)
  /\ \A id, amount : PO!UpdateClaimed(id, amount) => PP!UpdateClaimed(id, amount)
  /\ PO!PolicyId = PP!PolicyId
<1>1. PO!OwnStep => PP!OwnStep
  BY Zenon DEF PO!OwnStep, PO!Tick, PO!GrantAdmin, PO!SetClaimsContract, PO!SetGovernanceContract,
         PO!IssuePolicy, PO!IssuePoliciesBatch, PO!RenewPolicy, PO!RenewPoliciesBatch,
         PO!CancelPolicy, PO!ExpirePolicy, PO!CancelPoliciesBatch, PO!Contracts, PO!Request,
         PO!PolicyId, PO!Renewed, PO!IsActive, PO!Expiry, PO!Live, PO!settings,
         PP!OwnStep, PP!Tick, PP!GrantAdmin, PP!SetClaimsContract, PP!SetGovernanceContract,
         PP!IssuePolicy, PP!IssuePoliciesBatch, PP!RenewPolicy, PP!RenewPoliciesBatch,
         PP!CancelPolicy, PP!ExpirePolicy, PP!CancelPoliciesBatch, PP!Contracts, PP!Request,
         PP!PolicyId, PP!Renewed, PP!IsActive, PP!Expiry, PP!Live, PP!settings
<1>2. (\E id \in PO!PolicyId, patch \in PO!Patch : PO!ApplyGovernanceUpdate(id, patch))
        => \E id \in PP!PolicyId, patch \in PP!Patch : PP!ApplyGovernanceUpdate(id, patch)
  BY DEF PO!PolicyId, PO!Patch, PO!Option, PO!Status, PO!Live, PO!Terminal, PO!PatchAllowed,
         PO!OrElse, PO!ApplyGovernanceUpdate, PO!settings,
         PP!PolicyId, PP!Patch, PP!Option, PP!Status, PP!Live, PP!Terminal, PP!PatchAllowed,
         PP!OrElse, PP!ApplyGovernanceUpdate, PP!settings
<1>3. (\E cap \in Coverage : PO!ApplyGovernanceParams(cap))
        => \E cap \in Coverage : PP!ApplyGovernanceParams(cap)
  BY DEF PO!ApplyGovernanceParams, PP!ApplyGovernanceParams
<1>4. \A id, amount : PO!UpdateClaimed(id, amount) => PP!UpdateClaimed(id, amount)
  BY DEF PO!UpdateClaimed, PP!UpdateClaimed, PO!I128, PP!I128, PO!settings, PP!settings
<1>5. PO!PolicyId = PP!PolicyId BY DEF PO!PolicyId, PP!PolicyId
<1> QED BY <1>1, <1>2, <1>3, <1>4, <1>5, Zenon

(* A positive amount of a claim is a positive number.                        *)
LEMMA PositiveAmounts ==
  ASSUME NEW a \in ClaimAmount, a > 0
  PROVE  a \in Nat \ {0}
<1>1. a \in Int BY PolicyAssumption DEF PO!PolicyAssumption
<1> QED BY <1>1

LEMMA PolicyConstants == PP!PolicyAssumption
BY PolicyAssumption DEF PO!PolicyAssumption, PP!PolicyAssumption, PO!NoContract, PP!NoContract

(* The policies are records, numbered from one.                              *)
LEMMA PolicyRecords ==
  ASSUME PP!IInv
  PROVE  /\ policies \in [PO!PolicyId -> PP!PolicyRecord]
         /\ PO!PolicyId = 1..Len(policies) /\ Len(policies) \in Nat
         /\ \A p \in PO!PolicyId : policies[p].claimed \in Int /\ policies[p].holder \in Holder
<1>1. policies \in [PO!PolicyId -> PP!PolicyRecord]
  BY PP!PolicyFields, PolicyCalls DEF PP!IInv
<1>2. policies \in Seq(PP!PolicyRecord) BY DEF PP!IInv, PP!TypeOK
<1>3. PO!PolicyId = 1..Len(policies) /\ Len(policies) \in Nat BY <1>2 DEF PO!PolicyId
<1> QED BY <1>1, <1>3 DEF PP!PolicyRecord

(* Claims that stay as they are keep their locks.                            *)
LEMMA UntouchedClaims ==
  ASSUME IInv, PP!IInv', PO!PolicyId \subseteq PO!PolicyId', UNCHANGED claimState
  PROVE  IInv'
<1>1. claims' = claims /\ activeClaim' = activeClaim BY DEF claimState
<1>2. ClaimsListed' BY <1>1 DEF IInv, ClaimsListed, CL!ClaimId
<1>3. LocksNameClaims' /\ ClaimsHoldLocks'
  BY <1>1 DEF IInv, LocksNameClaims, ClaimsHoldLocks, CL!ClaimId
<1> QED BY <1>2, <1>3 DEF IInv

-----------------------------------------------------------------------------
(* The abstract state.                                                       *)
Files ==
  [id \in CL!ClaimId |-> [policy |-> claims[id].policy, amount |-> claims[id].amount,
                          stage |-> Stage(claims[id].status)]]
Received == [p \in PO!PolicyId |-> policies[p].claimed]

LEMMA StageValues ==
  /\ Stage("Submitted") = "filed" /\ Stage("UnderReview") = "filed" /\ Stage("Approved") = "granted"
  /\ Stage("Rejected") = "refused" /\ Stage("Settled") = "paid"
BY DEF Stage

(* The facts about the list of claims that the steps use, in this state and  *)
(* in the next.                                                              *)
FilesListed ==
  /\ CL!ClaimId = 1..Len(claims) /\ Len(claims) \in Nat
  /\ \A id \in CL!ClaimId : claims[id] \in ClaimRecord
  /\ Files \in [1..Len(claims) -> [policy : Nat, amount : Nat \ {0},
                                 stage : {"filed", "granted", "refused", "paid"}]]
  /\ Len(Files) = Len(claims)

LEMMA ClaimList == IInv => FilesListed
<1> SUFFICES ASSUME IInv PROVE FilesListed OBVIOUS
<1>1. claims \in Seq(ClaimRecord) BY DEF IInv, ClaimsListed
<1>2. CL!ClaimId = 1..Len(claims) /\ Len(claims) \in Nat
      /\ \A id \in CL!ClaimId : claims[id] \in ClaimRecord
  BY <1>1 DEF CL!ClaimId
<1> DEFINE entry == [policy : Nat, amount : Nat \ {0}, stage : {"filed", "granted", "refused", "paid"}]
<1>3. ASSUME NEW id \in CL!ClaimId
      PROVE  [policy |-> claims[id].policy, amount |-> claims[id].amount,
              stage |-> Stage(claims[id].status)] \in entry
  <2>1. claims[id].status \in {"Submitted", "UnderReview", "Approved", "Rejected", "Settled"}
    BY <1>2 DEF ClaimRecord, CL!Active, CL!Closed
  <2>2. Stage(claims[id].status) \in {"filed", "granted", "refused", "paid"}
    BY <2>1, StageValues
  <2>3. claims[id].policy \in Nat /\ claims[id].amount \in Nat \ {0}
    BY <1>2, PositiveAmounts DEF ClaimRecord
  <2> QED BY <2>2, <2>3
<1> HIDE DEF entry
<1>4. Files \in [1..Len(claims) -> entry] BY <1>2, <1>3 DEF Files
<1>5. Files \in Seq(entry) /\ Len(Files) = Len(claims) BY <1>2, <1>4
<1> QED BY <1>2, <1>4, <1>5 DEF FilesListed, entry

LEMMA ClaimListNext == IInv' => FilesListed'
BY ClaimList, PTL

(* A claim's stage is open exactly while its status is active.               *)
LEMMA OpenIsActive ==
  ASSUME IInv, NEW id \in CL!ClaimId
  PROVE  Files[id].stage \in {"filed", "granted"} <=> claims[id].status \in CL!Active
<1>1. claims[id].status \in {"Submitted", "UnderReview", "Approved", "Rejected", "Settled"}
  BY ClaimList DEF FilesListed, ClaimRecord, CL!Active, CL!Closed
<1>2. Files[id].stage = Stage(claims[id].status) BY DEF Files
<1> QED BY <1>1, <1>2, StageValues DEF CL!Active

(* A batch of claims arrives: each finds its policy unlocked and locks it.   *)
LEMMA StepSubmits ==
  ASSUME IInv, NEW n \in Nat \ {0}, NEW requests \in [1..n -> PO!PolicyId \X ClaimAmount],
         CL!SubmitClaimsBatch(requests, Book), UNCHANGED <<poolState, policyState>>
  PROVE  IInv' /\ Ledger!File
<1> DEFINE policyOf == [i \in DOMAIN requests |-> requests[i][1]]
           fresh == [i \in DOMAIN requests |->
                       [policy |-> policyOf[i], claimant |-> Book[policyOf[i]].holder,
                        amount |-> requests[i][2], status |-> "Submitted"]]
           len == Len(claims)
           lockOf(p) == len + CHOOSE i \in DOMAIN requests : policyOf[i] = p
<1>1. /\ CL!IsInjective(policyOf)
      /\ \A i \in DOMAIN requests : policyOf[i] \notin DOMAIN activeClaim /\ requests[i][2] > 0
      /\ claims' = claims \o fresh
      /\ activeClaim' = [p \in DOMAIN activeClaim \cup CL!Range(policyOf) |->
                            IF p \in DOMAIN activeClaim THEN activeClaim[p] ELSE lockOf(p)]
  <2>1. CL!IsInjective(policyOf) BY Zenon DEF CL!SubmitClaimsBatch
  <2>2. \A i \in DOMAIN requests : policyOf[i] \notin DOMAIN activeClaim /\ requests[i][2] > 0
    BY Zenon DEF CL!SubmitClaimsBatch, CL!Acceptable
  <2>3. claims' = claims \o fresh BY Zenon DEF CL!SubmitClaimsBatch
  <2>4. activeClaim' = [p \in DOMAIN activeClaim \cup CL!Range(policyOf) |->
                          IF p \in DOMAIN activeClaim THEN activeClaim[p] ELSE lockOf(p)]
    BY Zenon DEF CL!SubmitClaimsBatch
  <2> QED BY <2>1, <2>2, <2>3, <2>4
<1>2. DOMAIN requests = 1..n OBVIOUS
<1>3. \A i \in 1..n : /\ policyOf[i] \in PO!PolicyId
                      /\ requests[i][2] \in {a \in ClaimAmount : a > 0}
                      /\ requests[i][2] \in Nat \ {0}
  <2>1. ASSUME NEW i \in 1..n
        PROVE  /\ policyOf[i] \in PO!PolicyId /\ requests[i][2] \in ClaimAmount
               /\ requests[i][2] > 0
    BY <1>1, <1>2
  <2> HIDE DEF policyOf
  <2> QED BY <2>1, PositiveAmounts
<1>4. \A p \in PO!PolicyId : Book[p].holder \in Holder /\ p \in Nat
  BY PolicyRecords DEF IInv, Book
<1>5. \A i, j \in 1..n : policyOf[i] = policyOf[j] => i = j
  BY <1>1, <1>2 DEF CL!IsInjective
<1>6. \A i \in 1..n : /\ fresh[i] \in ClaimRecord /\ fresh[i].policy = policyOf[i]
                      /\ fresh[i].status = "Submitted" /\ fresh[i].amount = requests[i][2]
  BY <1>2, <1>3, <1>4 DEF ClaimRecord, CL!Active
<1>7. fresh \in Seq(ClaimRecord) /\ Len(fresh) = n BY <1>2, <1>6
<1>8. CL!Range(policyOf) = {policyOf[i] : i \in 1..n} BY <1>2 DEF CL!Range
<1>9. \A i \in 1..n : lockOf(policyOf[i]) = len + i BY <1>2, <1>5
<1> HIDE DEF policyOf, fresh, lockOf
<1>10. claims \in Seq(ClaimRecord) /\ len \in Nat BY DEF IInv, ClaimsListed
<1>11. /\ claims' \in Seq(ClaimRecord) /\ Len(claims') = len + n
       /\ \A i \in 1..len + n : claims'[i] = IF i <= len THEN claims[i] ELSE fresh[i - len]
  <2>1. /\ claims \o fresh \in Seq(ClaimRecord) /\ Len(claims \o fresh) = len + n
        /\ \A i \in 1..len + n : (claims \o fresh)[i] = IF i <= len THEN claims[i] ELSE fresh[i - len]
    BY <1>7, <1>10, ConcatProperties
  <2>2. claims' = claims \o fresh BY <1>1
  <2> QED BY <2>1, <2>2
<1>12. CL!ClaimId = 1..len /\ CL!ClaimId' = 1..(len + n) BY <1>10, <1>11 DEF CL!ClaimId
<1>13. \A i \in 1..len : claims'[i] = claims[i] BY <1>10, <1>11
<1>14. \A i \in 1..n : len + i \in 1..(len + n) /\ claims'[len + i] = fresh[i]
  BY <1>10, <1>11
<1>15. ASSUME NEW id \in CL!ClaimId', id \notin CL!ClaimId
       PROVE  \E i \in 1..n : id = len + i
  <2>1. id - len \in 1..n /\ id = len + (id - len) BY <1>10, <1>12, <1>15
  <2> QED BY <2>1
<1>16. PO!PolicyId' = PO!PolicyId /\ policies' = policies BY DEF policyState, PO!PolicyId
<1>17. ClaimsListed'
  <2>1. ASSUME NEW id \in CL!ClaimId' PROVE claims'[id].policy \in PO!PolicyId
    <3>1. CASE id \in CL!ClaimId BY <3>1, <1>12, <1>13 DEF IInv, ClaimsListed
    <3>2. CASE id \notin CL!ClaimId
      <4>1. PICK i \in 1..n : id = len + i BY <3>2, <1>15
      <4>2. claims'[id].policy = policyOf[i] BY <4>1, <1>6, <1>14
      <4> QED BY <4>2, <1>3
    <3> QED BY <3>1, <3>2
  <2> QED BY <2>1, <1>11, <1>16 DEF ClaimsListed
<1>18. LocksNameClaims'
  <2> SUFFICES ASSUME NEW p \in DOMAIN activeClaim'
               PROVE  /\ activeClaim'[p] \in CL!ClaimId'
                      /\ claims'[activeClaim'[p]].policy = p
                      /\ claims'[activeClaim'[p]].status \in CL!Active
    BY DEF LocksNameClaims, CL!Active
  <2>1. CASE p \in DOMAIN activeClaim
    <3>1. activeClaim'[p] = activeClaim[p] BY <2>1, <1>1
    <3>2. activeClaim[p] \in 1..len /\ claims[activeClaim[p]].policy = p
          /\ claims[activeClaim[p]].status \in CL!Active
      BY <2>1, <1>12 DEF IInv, LocksNameClaims
    <3>3. activeClaim[p] \in 1..(len + n) BY <3>2, <1>10
    <3> QED BY <3>1, <3>2, <3>3, <1>12, <1>13
  <2>2. CASE p \notin DOMAIN activeClaim
    <3>1. PICK i \in 1..n : p = policyOf[i] BY <2>2, <1>1, <1>8
    <3>2. activeClaim'[p] = len + i BY <2>2, <3>1, <1>1, <1>8, <1>9
    <3> QED BY <3>1, <3>2, <1>6, <1>12, <1>14 DEF CL!Active
  <2> QED BY <2>1, <2>2
<1>19. ClaimsHoldLocks'
  <2> SUFFICES ASSUME NEW id \in CL!ClaimId', claims'[id].status \in CL!Active
               PROVE  /\ claims'[id].policy \in DOMAIN activeClaim'
                      /\ activeClaim'[claims'[id].policy] = id
    BY DEF ClaimsHoldLocks, CL!Active
  <2>1. CASE id \in CL!ClaimId
    <3>1. claims'[id] = claims[id] BY <2>1, <1>12, <1>13
    <3>2. claims[id].policy \in DOMAIN activeClaim /\ activeClaim[claims[id].policy] = id
      BY <2>1, <3>1 DEF IInv, ClaimsHoldLocks
    <3> QED BY <3>1, <3>2, <1>1
  <2>2. CASE id \notin CL!ClaimId
    <3>1. PICK i \in 1..n : id = len + i BY <2>2, <1>15
    <3>2. claims'[id].policy = policyOf[i] BY <3>1, <1>6, <1>14
    <3>3. policyOf[i] \notin DOMAIN activeClaim BY <1>1, <1>2
    <3> QED BY <3>1, <3>2, <3>3, <1>1, <1>8, <1>9
  <2> QED BY <2>1, <2>2
<1>20. PP!IInv'
  BY DEF IInv, policyState, PP!IInv, PP!TypeOK, PP!ClaimedWithinCoverage, PP!PolicyId
<1>21. IInv' BY <1>17, <1>18, <1>19, <1>20 DEF IInv
<1>22. FilesListed /\ FilesListed' BY <1>21, ClaimList, ClaimListNext
<1>23. Len(Files') = len + n /\ Len(Files) = len BY <1>11, <1>22 DEF FilesListed
<1>24. \A i \in 1..len : Files'[i] = Files[i]
  BY <1>10, <1>12, <1>13 DEF Files
<1>25. ASSUME NEW i \in len + 1 .. len + n
       PROVE  /\ Files'[i].stage = "filed" /\ Files'[i].amount > 0
              /\ \A j \in 1 .. i - 1 :
                   Files'[j].stage \in {"filed", "granted"} => Files'[j].policy # Files'[i].policy
  <2>1. PICK k \in 1..n : i = len + k
    <3>1. i \in 1..len + n /\ i \notin 1..len BY <1>10
    <3> QED BY <3>1, <1>12, <1>15
  <2>2. /\ Files'[i].policy = policyOf[k] /\ Files'[i].amount = requests[k][2]
        /\ Files'[i].stage = "filed"
    BY <2>1, <1>6, <1>12, <1>14, StageValues DEF Files
  <2>3. ASSUME NEW j \in 1 .. i - 1, Files'[j].stage \in {"filed", "granted"}
        PROVE  Files'[j].policy # Files'[i].policy
    <3>1. CASE j \in 1..len
      <4>1. claims[j].status \in CL!Active BY <2>3, <3>1, <1>12, <1>24, OpenIsActive
      <4>2. claims[j].policy \in DOMAIN activeClaim
        BY <4>1, <3>1, <1>12 DEF IInv, ClaimsHoldLocks
      <4>3. Files'[j].policy = claims[j].policy
        <5>1. Files[j].policy = claims[j].policy BY <3>1, <1>12 DEF Files
        <5> QED BY <3>1, <5>1, <1>24
      <4> QED BY <4>2, <4>3, <2>2, <1>1, <1>2
    <3>2. CASE j \notin 1..len
      <4>1. j \in 1..len + n BY <1>10
      <4>2. PICK m \in 1..n : j = len + m BY <4>1, <3>2, <1>12, <1>15
      <4>3. Files'[j].policy = policyOf[m] BY <4>1, <4>2, <1>6, <1>12, <1>14 DEF Files
      <4>4. m # k BY <2>1, <4>2, <1>10
      <4> QED BY <2>2, <4>3, <4>4, <1>5
    <3> QED BY <3>1, <3>2
  <2>4. requests[k][2] > 0 BY <1>3
  <2> QED BY <2>2, <2>3, <2>4
<1>26. SubSeq(Files', 1, Len(Files)) = Files
  <2> DEFINE entry == [policy : Nat, amount : Nat \ {0}, stage : {"filed", "granted", "refused", "paid"}]
  <2>1. Files \in [1..len -> entry] /\ Files' \in [1..len + n -> entry]
    BY <1>11, <1>22 DEF FilesListed
  <2> HIDE DEF entry
  <2>2. Files \in Seq(entry) /\ Files' \in Seq(entry)
    <3>1. len + n \in Nat BY <1>10
    <3>2. \A k \in Nat : [1..k -> entry] \subseteq Seq(entry) OBVIOUS
    <3> QED BY <2>1, <3>1, <3>2, <1>10
  <2>3. /\ SubSeq(Files', 1, len) \in Seq(entry) /\ Len(SubSeq(Files', 1, len)) = len
        /\ \A i \in 1..len : SubSeq(Files', 1, len)[i] = Files'[i]
    BY <2>2, <1>10, <1>23
  <2> QED BY <2>2, <2>3, <1>10, <1>23, <1>24
<1>27. Received' = Received BY <1>16 DEF Received
<1>28. Ledger!File
  <2>1. Len(Files') > Len(Files) BY <1>10, <1>23
  <2>2. \A i \in Len(Files) + 1 .. Len(Files') :
          /\ Files'[i].stage = "filed" /\ Files'[i].amount > 0
          /\ \A j \in 1 .. i - 1 :
               Files'[j].stage \in {"filed", "granted"} => Files'[j].policy # Files'[i].policy
    BY <1>23, <1>25
  <2> QED BY Zenon, <2>1, <2>2, <1>26, <1>27 DEF Ledger!File, Ledger!Open, Files, Received
<1> QED BY <1>21, <1>28

(* A claim moves on: an open one that is closed gives up its lock, and only  *)
(* its own.                                                                  *)
LEMMA StepAdvances ==
  ASSUME IInv, PP!IInv', PO!PolicyId' = PO!PolicyId,
         NEW id \in CL!ClaimId, NEW from \in CL!Active, NEW to \in CL!Active \cup CL!Closed,
         CL!Advance(id, from, to),
         IF to \in CL!Active THEN UNCHANGED activeClaim ELSE CL!ClearLock(claims[id].policy)
  PROVE  IInv' /\ Files[id].stage = Stage(from) /\ Files' = [Files EXCEPT ![id].stage = Stage(to)]
<1>1. claims' = [claims EXCEPT ![id].status = to] /\ claims[id].status = from
  BY DEF CL!Advance
<1>2. FilesListed BY ClaimList
<1>3. claims \in [CL!ClaimId -> ClaimRecord] BY <1>2 DEF FilesListed, CL!ClaimId, IInv, ClaimsListed
<1>4. /\ claims' \in [CL!ClaimId -> ClaimRecord] /\ claims'[id].status = to
      /\ \A i \in CL!ClaimId : claims'[i].policy = claims[i].policy /\ claims'[i].amount = claims[i].amount
      /\ \A i \in CL!ClaimId \ {id} : claims'[i] = claims[i]
  BY <1>1, <1>3 DEF ClaimRecord
<1>5. CL!ClaimId' = CL!ClaimId BY <1>4 DEF CL!ClaimId
<1>6. ClaimsListed'
  <2>1. claims' \in Seq(ClaimRecord) BY <1>2, <1>4 DEF FilesListed
  <2>2. \A i \in CL!ClaimId : claims[i].policy \in PO!PolicyId BY DEF IInv, ClaimsListed
  <2> QED BY <2>1, <2>2, <1>4, <1>5 DEF ClaimsListed
<1>7. LocksNameClaims' /\ ClaimsHoldLocks'
  <2>1. claims[id].policy \in DOMAIN activeClaim /\ activeClaim[claims[id].policy] = id
    BY <1>1 DEF IInv, ClaimsHoldLocks
  <2>2. CASE to \in CL!Active
    <3>1. activeClaim' = activeClaim BY <2>2
    <3>2. LocksNameClaims'
      BY <2>2, <3>1, <1>4, <1>5 DEF IInv, LocksNameClaims, CL!Active
    <3>3. ClaimsHoldLocks'
      BY <2>1, <3>1, <1>4, <1>5 DEF IInv, ClaimsHoldLocks, CL!Active
    <3> QED BY <3>2, <3>3
  <2>3. CASE to \notin CL!Active
    <3>1. /\ DOMAIN activeClaim' = DOMAIN activeClaim \ {claims[id].policy}
          /\ \A p \in DOMAIN activeClaim' : activeClaim'[p] = activeClaim[p]
      BY <2>3 DEF CL!ClearLock, CL!Restrict
    <3>2. LocksNameClaims'
      <4> SUFFICES ASSUME NEW p \in DOMAIN activeClaim'
                   PROVE  /\ activeClaim'[p] \in CL!ClaimId'
                          /\ claims'[activeClaim'[p]].policy = p
                          /\ claims'[activeClaim'[p]].status \in CL!Active
        BY DEF LocksNameClaims, CL!Active
      <4>1. activeClaim[p] \in CL!ClaimId /\ claims[activeClaim[p]].policy = p
            /\ claims[activeClaim[p]].status \in CL!Active
        BY <3>1 DEF IInv, LocksNameClaims
      <4>2. activeClaim[p] # id BY <3>1, <4>1
      <4> QED BY <3>1, <4>1, <4>2, <1>4, <1>5
    <3>3. ClaimsHoldLocks'
      <4> SUFFICES ASSUME NEW i \in CL!ClaimId, claims'[i].status \in CL!Active
                   PROVE  /\ claims'[i].policy \in DOMAIN activeClaim'
                          /\ activeClaim'[claims'[i].policy] = i
        BY <1>5 DEF ClaimsHoldLocks, CL!Active
      <4>1. i # id BY <2>3, <1>4
      <4>2. claims'[i] = claims[i] BY <4>1, <1>4
      <4>3. claims[i].policy \in DOMAIN activeClaim /\ activeClaim[claims[i].policy] = i
        BY <4>2 DEF IInv, ClaimsHoldLocks
      <4>4. claims[i].policy # claims[id].policy BY <2>1, <4>1, <4>3
      <4> QED BY <3>1, <4>2, <4>3, <4>4
    <3> QED BY <3>2, <3>3
  <2> QED BY <2>2, <2>3
<1>8. IInv' BY <1>6, <1>7 DEF IInv
<1>9. Files[id].stage = Stage(from) BY <1>1 DEF Files
<1>10. Files' = [Files EXCEPT ![id].stage = Stage(to)]
  <2>1. Files' = [i \in CL!ClaimId |-> [policy |-> claims'[i].policy, amount |-> claims'[i].amount,
                                         stage |-> Stage(claims'[i].status)]]
    BY <1>5 DEF Files, Stage
  <2>2. \A i \in CL!ClaimId \ {id} : Files'[i] = Files[i] BY <2>1, <1>4 DEF Files
  <2>3. Files'[id] = [policy |-> claims[id].policy, amount |-> claims[id].amount, stage |-> Stage(to)]
    BY <2>1, <1>4
  <2>4. [Files[id] EXCEPT !.stage = Stage(to)] =
          [policy |-> claims[id].policy, amount |-> claims[id].amount, stage |-> Stage(to)]
    BY DEF Files
  <2>5. DOMAIN Files = CL!ClaimId BY DEF Files
  <2> QED BY <2>1, <2>2, <2>3, <2>4, <2>5
<1> QED BY <1>8, <1>9, <1>10

-----------------------------------------------------------------------------
(* What each step of the contracts is in the ledger: a settlement is a       *)
(* payment and no other step is.                                             *)
Stutter == UNCHANGED <<Files, Received>>
Unpaid ==
  \/ Stutter \/ Ledger!Write \/ Ledger!File
  \/ \E i \in DOMAIN Files : Ledger!Decide(i, "granted") \/ Ledger!Decide(i, "refused")
InLedger == Ledger!Next \/ Stutter

LEMMA UnpaidInLedger == Unpaid => InLedger
BY Zenon DEF Unpaid, InLedger, Ledger!Next, Files

LEMMA StepReviews ==
  ASSUME IInv, Review
  PROVE  IInv' /\ Unpaid
<1>1. policies' = policies /\ PO!PolicyId' = PO!PolicyId
  BY DEF Review, policyState, PO!PolicyId
<1>2. PP!IInv'
  BY DEF IInv, Review, policyState, PP!IInv, PP!TypeOK, PP!ClaimedWithinCoverage, PP!PolicyId
<1>3. Received' = Received BY <1>1 DEF Received
<1>4. DOMAIN Files = CL!ClaimId BY DEF Files
<1>5. CASE CL!GrantClaimsAdmin
  <2>1. claims' = claims /\ activeClaim' = activeClaim BY <1>5 DEF CL!GrantClaimsAdmin
  <2>2. ClaimsListed' BY <2>1, <1>1 DEF IInv, ClaimsListed, CL!ClaimId
  <2>3. LocksNameClaims' /\ ClaimsHoldLocks'
    BY <2>1 DEF IInv, LocksNameClaims, ClaimsHoldLocks, CL!ClaimId, CL!Active
  <2>4. Files' = Files BY <2>1 DEF Files, CL!ClaimId, Stage
  <2> QED BY <2>2, <2>3, <2>4, <1>2, <1>3 DEF IInv, Unpaid, Stutter
<1>6. ASSUME NEW id \in CL!ClaimId, CL!StartReview(id) PROVE IInv' /\ Unpaid
  <2>1. CL!Advance(id, "Submitted", "UnderReview") /\ UNCHANGED activeClaim
    BY <1>6 DEF CL!StartReview
  <2>2. IInv' /\ Files[id].stage = "filed" /\ Files' = [Files EXCEPT ![id].stage = "filed"]
    BY <2>1, <1>1, <1>2, StepAdvances, StageValues DEF CL!Active
  <2>3. Files' = Files
    <3>1. FilesListed BY ClaimList
    <3> QED BY <2>2, <3>1, <1>4 DEF FilesListed
  <2> QED BY <2>2, <2>3, <1>3 DEF Unpaid, Stutter
<1>7. ASSUME NEW id \in CL!ClaimId, CL!ApproveClaim(id) PROVE IInv' /\ Unpaid
  <2>1. CL!Advance(id, "UnderReview", "Approved") /\ UNCHANGED activeClaim
    BY <1>7 DEF CL!ApproveClaim
  <2>2. IInv' /\ Files[id].stage = "filed" /\ Files' = [Files EXCEPT ![id].stage = "granted"]
    BY <2>1, <1>1, <1>2, StepAdvances, StageValues DEF CL!Active
  <2>3. Ledger!Decide(id, "granted")
    BY Zenon, <2>2, <1>3 DEF Ledger!Decide, Files, Received
  <2>4. Unpaid BY Zenon, <2>3, <1>4 DEF Unpaid, Files
  <2> QED BY <2>2, <2>4
<1>8. ASSUME NEW id \in CL!ClaimId, CL!RejectClaim(id) PROVE IInv' /\ Unpaid
  <2>1. CL!Advance(id, "UnderReview", "Rejected") /\ CL!ClearLock(claims[id].policy)
    BY <1>8 DEF CL!RejectClaim
  <2>2. IInv' /\ Files[id].stage = "filed" /\ Files' = [Files EXCEPT ![id].stage = "refused"]
    BY <2>1, <1>1, <1>2, StepAdvances, StageValues DEF CL!Active, CL!Closed
  <2>3. Ledger!Decide(id, "refused")
    BY Zenon, <2>2, <1>3 DEF Ledger!Decide, Files, Received
  <2>4. Unpaid BY Zenon, <2>3, <1>4 DEF Unpaid, Files
  <2> QED BY <2>2, <2>4
<1> QED BY <1>5, <1>6, <1>7, <1>8 DEF Review

(* A settlement is the payment of the claim, out of its policy's coverage.   *)
LEMMA StepSettles ==
  ASSUME IInv, NEW id \in CL!ClaimId, SettleClaim(id)
  PROVE  IInv' /\ Ledger!Pay(id)
<1> DEFINE p == claims[id].policy
           amount == claims[id].amount
<1>1. FilesListed BY ClaimList
<1>2. p \in PO!PolicyId /\ amount \in ClaimAmount
  BY <1>1 DEF IInv, ClaimsListed, FilesListed, ClaimRecord
<1>3. PO!UpdateClaimed(p, amount) BY DEF SettleClaim
<1>4. PP!IInv'
  <2>1. PP!UpdateClaimed(p, amount) /\ p \in PP!PolicyId BY <1>2, <1>3, PolicyCalls
  <2>2. PP!Preserved BY <1>2, <2>1, PolicyConstants, PP!StepClaimed DEF IInv
  <2> QED BY <2>2 DEF PP!Preserved
<1>5. policies' = [policies EXCEPT ![p].claimed = I128(@ + amount)]
  BY <1>3 DEF PO!UpdateClaimed, PO!I128, I128
<1>6. PO!PolicyId' = PO!PolicyId BY <1>5 DEF PO!PolicyId
<1>7. Received' = [Received EXCEPT ![p] = I128(@ + amount)]
  <2>1. policies \in [PO!PolicyId -> PP!PolicyRecord] BY PolicyRecords DEF IInv
  <2>2. \A q \in PO!PolicyId :
          policies'[q].claimed =
            IF q = p THEN I128(policies[q].claimed + amount) ELSE policies[q].claimed
    BY <1>2, <1>5, <2>1 DEF PP!PolicyRecord
  <2> HIDE DEF p, amount
  <2> QED BY <1>2, <1>6, <2>2 DEF Received
<1>8. CL!Advance(id, "Approved", "Settled") /\ CL!ClearLock(p)
  BY DEF SettleClaim, CL!SettleRecord
<1>9. IInv' /\ Files[id].stage = "granted" /\ Files' = [Files EXCEPT ![id].stage = "paid"]
  BY <1>4, <1>6, <1>8, StepAdvances, StageValues DEF CL!Active, CL!Closed
<1>10. Files[id].policy = p /\ Files[id].amount = amount /\ id \in DOMAIN Files BY DEF Files
<1>11. Ledger!Pay(id)
  <2>1. Received' = [Received EXCEPT ![Files[id].policy] = Ledger!I128(@ + Files[id].amount)]
    BY <1>7, <1>10 DEF I128, Ledger!I128
  <2> HIDE DEF p, amount
  <2> QED BY Zenon, <2>1, <1>9 DEF Ledger!Pay, Files, Received
<1> QED BY <1>9, <1>11

(* A step of the policy contract writes policies or leaves the ledger alone. *)
LEMMA StepWrites ==
  ASSUME IInv, PolicyStep \/ GovernanceStep
  PROVE  IInv' /\ Unpaid
<1>1. \/ PP!OwnStep
      \/ \E id \in PP!PolicyId, patch \in PP!Patch : PP!ApplyGovernanceUpdate(id, patch)
      \/ \E cap \in Coverage : PP!ApplyGovernanceParams(cap)
  BY PolicyCalls DEF PolicyStep, GovernanceStep
<1>2. PP!IInv'
  <2>1. PP!Next BY <1>1 DEF PP!Next, PP!ContractStep
  <2>2. PP!Preserved BY <2>1, PolicyConstants, PP!StepPreserves DEF IInv
  <2> QED BY <2>2 DEF PP!Preserved
<1>3. PP!ClaimedKept BY <1>1, PolicyConstants, PP!OthersKeepClaimed DEF IInv
<1>4. UNCHANGED claimState BY DEF PolicyStep, GovernanceStep
<1>5. PO!PolicyId = PP!PolicyId /\ PO!PolicyId' = PP!PolicyId'
  BY DEF PO!PolicyId, PP!PolicyId
<1>6. IInv' BY <1>2, <1>3, <1>4, <1>5, UntouchedClaims DEF PP!ClaimedKept
<1>7. Files' = Files BY <1>4 DEF claimState, Files, CL!ClaimId, Stage
<1>8. policies \in Seq(PP!PolicyRecord) /\ policies' \in Seq(PP!PolicyRecord)
  BY <1>2 DEF IInv, PP!IInv, PP!TypeOK, PP!PolicyRecord, PP!Status, PP!Live, PP!Terminal
<1>9. /\ Len(policies) \in Nat /\ PO!PolicyId = 1..Len(policies)
      /\ Len(policies') \in Nat /\ PO!PolicyId' = 1..Len(policies')
  BY <1>8 DEF PO!PolicyId
<1>10. /\ PO!PolicyId \subseteq PO!PolicyId'
       /\ \A p \in PO!PolicyId' : Received'[p] = IF p \in PO!PolicyId THEN Received[p] ELSE 0
  BY <1>3, <1>5 DEF PP!ClaimedKept, Received
<1>11. CASE Len(policies') = Len(policies)
  <2>1. Received' = Received BY <1>9, <1>10, <1>11 DEF Received
  <2> QED BY <2>1, <1>6, <1>7 DEF Unpaid, Stutter
<1>12. CASE Len(policies') # Len(policies)
  <2>1. Len(policies') > Len(policies) BY <1>9, <1>10, <1>12
  <2>2. Len(Received) = Len(policies) /\ Len(Received') = Len(policies')
    <3>1. DOMAIN Received = 1..Len(policies) /\ DOMAIN Received' = 1..Len(policies')
      BY <1>9 DEF Received
    <3>2. Received \in [1..Len(policies) -> Int] /\ Received' \in [1..Len(policies') -> Int]
      <4>1. \A p \in PO!PolicyId : Received[p] \in Int
        BY PolicyRecords DEF IInv, Received
      <4>2. \A p \in PO!PolicyId' : Received'[p] \in Int BY <4>1, <1>10
      <4> QED BY <3>1, <4>1, <4>2, <1>9 DEF Received
    <3> QED BY <3>2, <1>9
  <2>3. DOMAIN Received = PO!PolicyId /\ DOMAIN Received' = PO!PolicyId' BY DEF Received
  <2>4. Ledger!Write
    <3>1. /\ Len(Received') > Len(Received)
          /\ \A p \in DOMAIN Received' :
               Received'[p] = IF p \in DOMAIN Received THEN Received[p] ELSE 0
      BY <2>1, <2>2, <2>3, <1>10
    <3> QED BY Zenon, <3>1, <1>7 DEF Ledger!Write, Files, Received
  <2> QED BY <2>4, <1>6 DEF Unpaid
<1> QED BY <1>11, <1>12

(* New claims are filed, in batches or one at a time.                        *)
LEMMA StepFiles ==
  ASSUME IInv, Submit
  PROVE  IInv' /\ Unpaid
<1>1. UNCHANGED <<poolState, policyState>> BY DEF Submit
<1>2. ASSUME NEW n \in Nat \ {0}, NEW requests \in [1..n -> PO!PolicyId \X ClaimAmount],
             CL!SubmitClaimsBatch(requests, Book)
      PROVE  IInv' /\ Unpaid
  BY <1>1, <1>2, StepSubmits DEF Unpaid
<1>3. ASSUME NEW id \in PO!PolicyId, NEW amount \in ClaimAmount, CL!SubmitClaim(id, amount, Book)
      PROVE  IInv' /\ Unpaid
  <2> DEFINE one == <<<<id, amount>>>>
  <2>1. one \in [1..1 -> PO!PolicyId \X ClaimAmount] OBVIOUS
  <2>2. CL!SubmitClaimsBatch(one, Book) BY <1>3 DEF CL!SubmitClaim
  <2>3. 1 \in Nat \ {0} OBVIOUS
  <2> HIDE DEF one
  <2> QED BY Zenon, <2>1, <2>2, <2>3, <1>2
<1>4. BatchLimit \in Nat BY PolicyAssumption DEF PO!PolicyAssumption
<1> QED BY <1>2, <1>3, <1>4 DEF Submit

(* A step of the pool alone, or none.                                        *)
LEMMA StepElsewhere ==
  ASSUME IInv, PoolStep \/ UNCHANGED vars
  PROVE  IInv' /\ Unpaid
<1>1. UNCHANGED <<policyState, claimState>> BY DEF PoolStep, vars
<1>2. PP!IInv' /\ PO!PolicyId' = PO!PolicyId
  BY <1>1 DEF IInv, policyState, PP!IInv, PP!TypeOK, PP!ClaimedWithinCoverage, PP!PolicyId,
              PO!PolicyId
<1>3. IInv' BY <1>1, <1>2, UntouchedClaims
<1>4. Files' = Files /\ Received' = Received
  BY <1>1 DEF claimState, policyState, Files, Received, CL!ClaimId, PO!PolicyId, Stage
<1> QED BY <1>3, <1>4 DEF Unpaid, Stutter

LEMMA StepPreserves ==
  ASSUME IInv, [Next]_vars
  PROVE  IInv' /\ InLedger
<1>1. ASSUME NEW id \in CL!ClaimId, SettleClaim(id) PROVE IInv' /\ InLedger
  <2>1. Ledger!Pay(id) /\ id \in DOMAIN Files BY <1>1, StepSettles DEF Files
  <2> QED BY Zenon, <1>1, <2>1, StepSettles DEF InLedger, Ledger!Next, Files
<1>2. ASSUME ~ Settle PROVE IInv' /\ Unpaid
  BY <1>2, StepElsewhere, StepWrites, StepFiles, StepReviews DEF Next
<1> QED BY <1>1, <1>2, UnpaidInLedger DEF Settle

-----------------------------------------------------------------------------
(* The books: what a policy has received is the sum of its settled claims,   *)
(* wrapped, and the pool has paid at least what all settled claims amount    *)
(* to, with the types of the figures that this is read from.                 *)
PoolTyped == stake \in [User -> Nat] /\ totalCapital \in Int /\ availableCapital \in Int

Books ==
  /\ PoolTyped
  /\ \A p \in PO!PolicyId : Received[p] = I128(SumOf(Settled(ClaimsOn(p))))
  /\ RP!PaidOut >= SumOf(Settled(CL!ClaimId))

(* The settled claims are the paid files, with the same policies and amounts.*)
SettledIsPaid ==
  /\ DOMAIN Files = CL!ClaimId /\ IsFiniteSet(CL!ClaimId)
  /\ \A id \in CL!ClaimId :
       /\ Files[id].policy = claims[id].policy /\ Files[id].amount = claims[id].amount
       /\ claims[id].amount \in Nat /\ claims[id].policy \in PO!PolicyId
       /\ Files[id].stage = "paid" <=> claims[id].status = "Settled"

LEMMA SettledFiles == IInv => SettledIsPaid
<1> SUFFICES ASSUME IInv PROVE SettledIsPaid OBVIOUS
<1>1. FilesListed BY ClaimList
<1>2. DOMAIN Files = CL!ClaimId /\ IsFiniteSet(CL!ClaimId)
  <2>1. CL!ClaimId = 1..Len(claims) /\ Len(claims) \in Nat BY <1>1 DEF FilesListed
  <2>2. IsFiniteSet(1..Len(claims)) BY <2>1, FS_Interval
  <2>3. DOMAIN Files = CL!ClaimId BY DEF Files
  <2> QED BY Zenon, <2>1, <2>2, <2>3
<1>3. ASSUME NEW id \in CL!ClaimId
      PROVE  /\ Files[id].policy = claims[id].policy /\ Files[id].amount = claims[id].amount
             /\ claims[id].amount \in Nat /\ claims[id].policy \in PO!PolicyId
             /\ Files[id].stage = "paid" <=> claims[id].status = "Settled"
  <2>1. claims[id].status \in {"Submitted", "UnderReview", "Approved", "Rejected", "Settled"}
    BY <1>1 DEF FilesListed, ClaimRecord, CL!Active, CL!Closed
  <2>2. /\ Files[id].policy = claims[id].policy /\ Files[id].amount = claims[id].amount
        /\ Files[id].stage = Stage(claims[id].status)
    BY DEF Files
  <2>3. Files[id].amount \in Nat BY <1>1 DEF FilesListed
  <2>4. claims[id].policy \in PO!PolicyId BY DEF IInv, ClaimsListed
  <2> QED BY <2>1, <2>2, <2>3, <2>4, StageValues
<1> QED BY <1>2, <1>3 DEF SettledIsPaid

LEMMA SettledFilesNext == IInv' => SettledIsPaid'
BY SettledFiles, PTL

(* A step that pays nothing leaves the settled claims and what the policies  *)
(* have received as they are; a new policy has received nothing.             *)
FilesKept ==
  /\ \A id \in CL!ClaimId :
       /\ id \in CL!ClaimId'
       /\ Files'[id].policy = Files[id].policy /\ Files'[id].amount = Files[id].amount
       /\ Files'[id].stage = "paid" <=> Files[id].stage = "paid"
  /\ \A id \in CL!ClaimId' : id \notin CL!ClaimId => Files'[id].stage # "paid"
ReceivedKept ==
  \A p \in PO!PolicyId' : Received'[p] = IF p \in PO!PolicyId THEN Received[p] ELSE 0

LEMMA UnpaidKeeps ==
  ASSUME IInv, IInv', Unpaid
  PROVE  FilesKept /\ ReceivedKept
<1>1. FilesListed /\ FilesListed' BY ClaimList, ClaimListNext
<1>2. DOMAIN Files = CL!ClaimId /\ DOMAIN Files' = CL!ClaimId'
  BY DEF Files, CL!ClaimId
<1>3. DOMAIN Received = PO!PolicyId /\ DOMAIN Received' = PO!PolicyId' BY DEF Received
<1>4. Files' = Files => FilesKept BY <1>2 DEF FilesKept
<1>5. Received' = Received => ReceivedKept BY <1>3 DEF ReceivedKept
<1>6. CASE Stutter BY <1>4, <1>5, <1>6 DEF Stutter
<1>7. CASE Ledger!Write
  <2>1. Files' = Files /\ \A p \in DOMAIN Received' :
          Received'[p] = IF p \in DOMAIN Received THEN Received[p] ELSE 0
    BY Zenon, <1>7 DEF Ledger!Write, Files, Received
  <2> QED BY <2>1, <1>3, <1>4 DEF ReceivedKept
<1>8. CASE Ledger!File
  <2>1. /\ Len(Files') > Len(Files) /\ SubSeq(Files', 1, Len(Files)) = Files
        /\ \A i \in Len(Files) + 1 .. Len(Files') : Files'[i].stage = "filed"
        /\ Received' = Received
    BY Zenon, <1>8 DEF Ledger!File, Files, Received
  <2>2. Len(Files) \in Nat /\ Len(Files') \in Nat /\ Len(Files) < Len(Files')
        /\ CL!ClaimId = 1..Len(Files) /\ CL!ClaimId' = 1..Len(Files')
    BY <1>1, <2>1 DEF FilesListed
  <2>3. \A i \in 1..Len(Files) : Files'[i] = Files[i]
    <3> DEFINE entry == [policy : Nat, amount : Nat \ {0},
                         stage : {"filed", "granted", "refused", "paid"}]
    <3>1. Files' \in [1..Len(Files') -> entry] BY <1>1 DEF FilesListed
    <3> HIDE DEF entry
    <3>2. Files' \in Seq(entry) BY <3>1, <2>2
    <3>3. \A i \in 1..Len(Files) : SubSeq(Files', 1, Len(Files))[i] = Files'[i]
      BY <3>2, <2>2, SubSeqProperties
    <3> QED BY <3>3, <2>1
  <2>4. ASSUME NEW id \in CL!ClaimId', id \notin CL!ClaimId PROVE Files'[id].stage # "paid"
    <3>1. id \in Len(Files) + 1 .. Len(Files') BY <2>2, <2>4
    <3> QED BY <3>1, <2>1
  <2>5. FilesKept BY <2>2, <2>3, <2>4 DEF FilesKept
  <2> QED BY <2>1, <2>5, <1>5
<1>9. ASSUME NEW i \in DOMAIN Files, NEW to \in {"granted", "refused"}, Ledger!Decide(i, to)
      PROVE  FilesKept /\ ReceivedKept
  <2>1. /\ Files[i].stage = "filed" /\ Files' = [Files EXCEPT ![i].stage = to]
        /\ Received' = Received
    BY Zenon, <1>9 DEF Ledger!Decide, Files, Received
  <2>2. CL!ClaimId' = CL!ClaimId BY <2>1, <1>2
  <2>3. \A id \in CL!ClaimId :
          Files[id] \in [policy : Nat, amount : Nat \ {0},
                         stage : {"filed", "granted", "refused", "paid"}]
    BY <1>1 DEF FilesListed
  <2>4. FilesKept BY <2>1, <2>2, <2>3, <1>2 DEF FilesKept
  <2> QED BY <2>1, <2>4, <1>5
<1> QED BY <1>6, <1>7, <1>8, <1>9 DEF Unpaid

(* A step that pays nothing keeps the sums over the settled claims.          *)
LEMMA UnpaidSums ==
  ASSUME IInv, IInv', Unpaid
  PROVE  /\ SumOf(Settled(CL!ClaimId))' = SumOf(Settled(CL!ClaimId))
         /\ \A p : SumOf(Settled(ClaimsOn(p)))' = SumOf(Settled(ClaimsOn(p)))
<1>1. FilesKept BY UnpaidKeeps
<1>2. SettledIsPaid /\ SettledIsPaid' BY SettledFiles, SettledFilesNext
<1>3. \A id \in CL!ClaimId :
        /\ id \in CL!ClaimId'
        /\ claims'[id].policy = claims[id].policy /\ claims'[id].amount = claims[id].amount
        /\ claims'[id].status = "Settled" <=> claims[id].status = "Settled"
  BY <1>1, <1>2 DEF FilesKept, SettledIsPaid
<1>4. \A id \in CL!ClaimId' : id \notin CL!ClaimId => claims'[id].status # "Settled"
  BY <1>1, <1>2 DEF FilesKept, SettledIsPaid
<1> DEFINE old == {id \in CL!ClaimId : claims[id].status = "Settled"}
           new == {id \in CL!ClaimId' : claims'[id].status = "Settled"}
           oldOn(p) == {id \in {i \in CL!ClaimId : claims[i].policy = p} :
                          claims[id].status = "Settled"}
           newOn(p) == {id \in {i \in CL!ClaimId' : claims'[i].policy = p} :
                          claims'[id].status = "Settled"}
<1>5. new = old /\ \A p : newOn(p) = oldOn(p) /\ oldOn(p) \subseteq old BY <1>3, <1>4
<1>6. \A id \in old : claims'[id].amount = claims[id].amount BY <1>3
<1>7. \A ids \in SUBSET old : [id \in ids |-> claims'[id].amount] = [id \in ids |-> claims[id].amount]
  BY <1>6
<1>8. Settled(CL!ClaimId) = old /\ Settled(CL!ClaimId)' = new
      /\ \A p : Settled(ClaimsOn(p)) = oldOn(p) /\ Settled(ClaimsOn(p))' = newOn(p)
  BY DEF Settled, ClaimsOn, CL!ClaimId
<1> HIDE DEF old, new, oldOn, newOn
<1> QED BY <1>5, <1>7, <1>8 DEF SumOf

(* The sums of the pool are the sums of SumTheorems.                         *)
LEMMA SameSum ==
  ASSUME NEW f, NEW S
  PROVE  RP!SumFunctionOnSet(f, S) = SumFunctionOnSet(f, S)
BY DEF RP!SumFunctionOnSet, RP!FoldFunctionOnSet, RP!MapThenFoldSet,
       SumFunctionOnSet, FoldFunctionOnSet, MapThenFoldSet

LEMMA PoolFigures ==
  ASSUME PoolTyped
  PROVE  RP!Staked \in Nat /\ RP!Staked = SumFunctionOnSet(stake, User) /\ RP!PaidOut \in Int
<1>1. SumFunctionOnSet(stake, User) \in Nat BY PoolAssumption, SumNat DEF PoolTyped
<1> QED BY <1>1, SameSum DEF PoolTyped, RP!Staked, RP!PaidOut, RP!Forfeited

(* The providers' shares of a batch make up its total.                       *)
LEMMA BatchTotal ==
  ASSUME NEW n \in Nat, NEW batch \in [1..n -> User \X Amount]
  PROVE  /\ RP!Share(batch) \in [User -> Nat] /\ RP!Total(batch) \in Nat
         /\ SumFunctionOnSet(RP!Share(batch), User) = RP!Total(batch)
<1> DEFINE I == 1..n
           owner == [i \in I |-> batch[i][1]]
           a == [i \in I |-> batch[i][2]]
<1>1. DOMAIN batch = I /\ IsFiniteSet(I) BY FS_Interval
<1>2. \A i \in I : a[i] \in Nat /\ owner[i] \in User BY PoolAssumption
<1>3. RP!Amounts(batch) = a BY <1>1 DEF RP!Amounts
<1>4. \A p \in User : RP!Entries(batch, p) = {i \in I : owner[i] = p}
  BY <1>1 DEF RP!Entries
<1>5. RP!Total(batch) = SumFunctionOnSet(a, I) BY <1>1, <1>3, SameSum DEF RP!Total
<1>6. RP!Share(batch) = SharesOf(a, owner, I, User)
  BY <1>3, <1>4, SameSum DEF RP!Share, SharesOf
<1> HIDE DEF a, owner, I
<1>7. SumFunctionOnSet(a, I) \in Nat BY <1>1, <1>2, SumNat
<1>8. ASSUME NEW p \in User PROVE SharesOf(a, owner, I, User)[p] \in Nat
  <2> DEFINE own == {i \in I : owner[i] = p}
  <2>1. IsFiniteSet(own) /\ \A i \in own : a[i] \in Nat BY <1>1, <1>2, FS_Subset
  <2>2. SharesOf(a, owner, I, User)[p] = SumFunctionOnSet(a, own) BY DEF SharesOf
  <2> HIDE DEF own
  <2> QED BY <2>1, <2>2, SumNat
<1>9. SumFunctionOnSet(SharesOf(a, owner, I, User), User) = SumFunctionOnSet(a, I)
  BY <1>1, <1>2, PoolAssumption, SumOfShares
<1>10. SharesOf(a, owner, I, User) \in [User -> Nat] BY <1>8 DEF SharesOf
<1> QED BY <1>5, <1>6, <1>7, <1>9, <1>10

(* A batch moves the capital and the stakes alike, so it pays no claim.      *)
LEMMA BatchPaysNothing ==
  ASSUME PoolTyped, NEW n \in Nat, NEW batch \in [1..n -> User \X Amount],
         RP!DepositLiquidityBatch(batch) \/ RP!WithdrawLiquidityBatch(batch)
  PROVE  PoolTyped' /\ RP!PaidOut' = RP!PaidOut
<1> DEFINE share == RP!Share(batch)
           total == RP!Total(batch)
<1>1. share \in [User -> Nat] /\ total \in Nat /\ SumFunctionOnSet(share, User) = total
  BY BatchTotal
<1>2. CASE RP!DepositLiquidityBatch(batch)
  <2>1. /\ stake' = [p \in User |-> stake[p] + share[p]]
        /\ totalCapital' = totalCapital + total /\ availableCapital' = availableCapital + total
    BY <1>2 DEF RP!DepositLiquidityBatch
  <2> HIDE DEF share, total
  <2>2. PoolTyped' BY <1>1, <2>1 DEF PoolTyped
  <2>3. \A p \in User : stake[p] \in Int /\ share[p] \in Int /\ stake'[p] = stake[p] + share[p]
    BY <1>1, <2>1 DEF PoolTyped
  <2>4. SumFunctionOnSet(stake', User) = SumFunctionOnSet(stake, User) + SumFunctionOnSet(share, User)
    BY <2>3, PoolAssumption, SumOfSums
  <2>5. RP!Staked' = RP!Staked + total /\ RP!Staked \in Nat
    BY <1>1, <2>4, PoolFigures, SameSum DEF RP!Staked
  <2> QED BY <1>1, <2>1, <2>2, <2>5 DEF PoolTyped, RP!PaidOut, RP!Forfeited
<1>3. CASE RP!WithdrawLiquidityBatch(batch)
  <2>1. /\ stake' = [p \in User |-> stake[p] - share[p]]
        /\ \A p \in User : stake[p] >= share[p]
        /\ totalCapital' = totalCapital - total /\ availableCapital' = availableCapital - total
    BY <1>3 DEF RP!WithdrawLiquidityBatch, RP!WithinLimits
  <2> HIDE DEF share, total
  <2>2. PoolTyped' BY <1>1, <2>1 DEF PoolTyped
  <2>3. \A p \in User : stake'[p] \in Int /\ share[p] \in Int /\ stake[p] = stake'[p] + share[p]
    BY <1>1, <2>1 DEF PoolTyped
  <2>4. SumFunctionOnSet(stake, User) = SumFunctionOnSet(stake', User) + SumFunctionOnSet(share, User)
    BY <2>3, PoolAssumption, SumOfSums
  <2>5. SumFunctionOnSet(stake', User) \in Nat BY <2>2, PoolAssumption, SumNat DEF PoolTyped
  <2>6. RP!Staked' = RP!Staked - total /\ RP!Staked \in Nat
    BY <1>1, <2>4, <2>5, PoolFigures, SameSum DEF RP!Staked
  <2> QED BY <1>1, <2>1, <2>2, <2>6 DEF PoolTyped, RP!PaidOut, RP!Forfeited
<1> QED BY <1>2, <1>3

(* A payout pays its amount.                                                 *)
LEMMA PayoutPays ==
  ASSUME PoolTyped, NEW recipient, NEW amount \in Nat, RP!PayoutClaim(recipient, amount)
  PROVE  PoolTyped' /\ RP!PaidOut' = RP!PaidOut + amount
<1>1. availableCapital' = availableCapital - amount /\ UNCHANGED <<stake, totalCapital>>
  BY DEF RP!PayoutClaim
<1>2. RP!Staked' = RP!Staked /\ RP!Staked \in Nat BY <1>1, PoolFigures DEF RP!Staked
<1> QED BY <1>1, <1>2 DEF PoolTyped, RP!PaidOut, RP!Forfeited

(* A forfeit moves a stake to the available capital, and pays no claim.      *)
LEMMA AbsorbPaysNothing ==
  ASSUME PoolTyped, NEW target \in User, NEW amount \in Nat, RP!AbsorbSlash(target, amount)
  PROVE  PoolTyped' /\ RP!PaidOut' = RP!PaidOut
<1>1. /\ stake[target] >= amount /\ stake' = [stake EXCEPT ![target] = @ - amount]
      /\ totalCapital' = totalCapital /\ availableCapital' = availableCapital + amount
  BY DEF RP!AbsorbSlash
<1>2. stake[target] - amount \in Nat /\ stake' \in [User -> Nat] BY <1>1 DEF PoolTyped
<1>3. /\ \A q \in User : stake[q] \in Int
      /\ stake'[target] = stake[target] - amount
      /\ \A q \in User \ {target} : stake'[q] = stake[q]
  BY <1>1 DEF PoolTyped
<1>4. SumFunctionOnSet(stake', User) = SumFunctionOnSet(stake, User) - stake[target] + (stake[target] - amount)
  BY <1>2, <1>3, PoolAssumption, SumUpdate
<1>5. RP!Staked' = RP!Staked - amount /\ RP!Staked \in Nat
  BY <1>3, <1>4, PoolFigures, SameSum DEF RP!Staked
<1> QED BY <1>1, <1>2, <1>5 DEF PoolTyped, RP!PaidOut, RP!Forfeited

(* No step of the pool takes back what it has paid.                          *)
LEMMA PaidGrows ==
  ASSUME PoolTyped, PoolStep \/ UNCHANGED poolState
  PROVE  PoolTyped' /\ RP!PaidOut' \in Int /\ RP!PaidOut' >= RP!PaidOut
<1>1. RP!PaidOut \in Int BY PoolFigures
<1>2. ASSUME UNCHANGED <<stake, totalCapital, availableCapital>>
      PROVE  PoolTyped' /\ RP!PaidOut' = RP!PaidOut
  BY <1>2 DEF PoolTyped, RP!PaidOut, RP!Forfeited, RP!Staked
<1>3. CASE UNCHANGED poolState BY <1>1, <1>2, <1>3 DEF poolState
<1>4. CASE PoolStep
  <2>1. ASSUME NEW batch \in RP!Batch, RP!DepositLiquidityBatch(batch) \/ RP!WithdrawLiquidityBatch(batch)
        PROVE  PoolTyped' /\ RP!PaidOut' = RP!PaidOut
    <3>1. PICK n \in 1..BatchLimit : batch \in [1..n -> User \X Amount] BY DEF RP!Batch
    <3>2. n \in Nat BY PolicyAssumption DEF PO!PolicyAssumption
    <3> QED BY <2>1, <3>1, <3>2, BatchPaysNothing
  <2>2. ASSUME NEW p \in User, NEW amount \in Amount,
               RP!DepositLiquidity(p, amount) \/ RP!WithdrawLiquidity(p, amount)
        PROVE  PoolTyped' /\ RP!PaidOut' = RP!PaidOut
    <3> DEFINE one == <<<<p, amount>>>>
    <3>1. one \in [1..1 -> User \X Amount] /\ 1 \in Nat OBVIOUS
    <3>2. RP!DepositLiquidityBatch(one) \/ RP!WithdrawLiquidityBatch(one)
      BY <2>2 DEF RP!DepositLiquidity, RP!WithdrawLiquidity
    <3> HIDE DEF one
    <3> QED BY <3>1, <3>2, BatchPaysNothing
  <2>3. ASSUME NEW target \in User, NEW amount \in Amount, RP!AbsorbSlash(target, amount)
        PROVE  PoolTyped' /\ RP!PaidOut' = RP!PaidOut
    BY <2>3, PoolAssumption, AbsorbPaysNothing
  <2>4. ASSUME NEW recipient \in RP!Account, NEW amount \in Amount, RP!PayoutClaim(recipient, amount)
        PROVE  PoolTyped' /\ RP!PaidOut' = RP!PaidOut + amount /\ amount \in Nat
    BY <2>4, PoolAssumption, PayoutPays
  <2>5. ASSUME \/ \E addr \in Grantee, role \in RP!Role : RP!SetRole(addr, role)
               \/ \E caller \in User : RP!Migrate(caller)
               \/ \E from \in User, to \in RP!Account, amount \in Amount : RP!TokenTransfer(from, to, amount)
        PROVE  PoolTyped' /\ RP!PaidOut' = RP!PaidOut
    BY <2>5, <1>2 DEF RP!SetRole, RP!Migrate, RP!TokenTransfer, RP!poolVars, RP!capitalVars
  <2>6. CASE \E recipient \in RP!Account, amount \in Amount : RP!PayoutClaim(recipient, amount)
    <3>1. PICK recipient \in RP!Account, amount \in Amount : RP!PayoutClaim(recipient, amount) BY <2>6
    <3> QED BY <1>1, <2>4, <3>1
  <2>7. ASSUME ~ \E recipient \in RP!Account, amount \in Amount : RP!PayoutClaim(recipient, amount)
        PROVE  PoolTyped' /\ RP!PaidOut' = RP!PaidOut
    BY <1>4, <2>1, <2>2, <2>3, <2>5, <2>7 DEF PoolStep, RP!Next
  <2> QED BY <1>1, <2>6, <2>7
<1> QED BY <1>3, <1>4

(* A step that settles nothing keeps the books.                              *)
LEMMA UnpaidKeepsBooks ==
  ASSUME IInv, IInv', Unpaid, Books, PoolStep \/ UNCHANGED poolState
  PROVE  Books'
<1>1. PoolTyped /\ RP!PaidOut \in Int BY PoolFigures DEF Books
<1>2. PoolTyped' /\ RP!PaidOut' \in Int /\ RP!PaidOut' >= RP!PaidOut BY <1>1, PaidGrows
<1> DEFINE old == SumOf(Settled(CL!ClaimId))
           oldOn(p) == SumOf(Settled(ClaimsOn(p)))
<1>3. old' = old /\ \A p : oldOn(p)' = oldOn(p) BY UnpaidSums
<1>4. SettledIsPaid BY SettledFiles
<1>5. ASSUME NEW p, p \notin PO!PolicyId PROVE oldOn(p) = 0
  <2>1. Settled(ClaimsOn(p)) = {} BY <1>4, <1>5 DEF Settled, ClaimsOn, SettledIsPaid
  <2> QED BY <2>1, SumEmpty DEF SumOf
<1>6. old \in Int
  <2>1. IsFiniteSet(Settled(CL!ClaimId)) BY <1>4, FS_Subset DEF SettledIsPaid, Settled
  <2>2. \A id \in Settled(CL!ClaimId) :
          [i \in Settled(CL!ClaimId) |-> claims[i].amount][id] \in Int
    BY <1>4 DEF SettledIsPaid, Settled
  <2> QED BY <2>1, <2>2, SumType DEF SumOf
<1>7. ReceivedKept BY UnpaidKeeps
<1>8. RP!PaidOut >= old /\ \A p \in PO!PolicyId : Received[p] = I128(oldOn(p)) BY DEF Books
<1>9. (\A p \in PO!PolicyId : Received[p] = I128(SumOf(Settled(ClaimsOn(p)))))'
  <2>1. I128(0) = 0 BY I128OfZero, PolicyAssumption DEF PO!PolicyAssumption
  <2>2. ASSUME NEW p \in PO!PolicyId' PROVE Received'[p] = I128(oldOn(p))
    <3>1. CASE p \in PO!PolicyId BY <3>1, <1>7, <1>8 DEF ReceivedKept
    <3>2. CASE p \notin PO!PolicyId BY <3>2, <2>1, <1>5, <1>7 DEF ReceivedKept
    <3> QED BY <3>1, <3>2
  <2>3. \A p : oldOn(p)' = oldOn(p) BY <1>3
  <2> HIDE DEF oldOn
  <2>4. \A p \in PO!PolicyId' : Received'[p] = I128(oldOn(p)') BY <2>2, <2>3
  <2> QED BY <2>4 DEF oldOn, I128
<1>10. RP!PaidOut' >= old'
  <2> HIDE DEF old
  <2> QED BY <1>1, <1>2, <1>3, <1>6, <1>8
<1> QED BY <1>2, <1>9, <1>10 DEF Books

(* A settlement books its amount with the policy, the claim and the pool.    *)
LEMMA SettleKeepsBooks ==
  ASSUME IInv, NEW id \in CL!ClaimId, SettleClaim(id), Books
  PROVE  Books'
<1> DEFINE p == claims[id].policy
           amount == claims[id].amount
           all == Settled(CL!ClaimId)
           on(q) == Settled(ClaimsOn(q))
           amounts(ids) == [i \in ids |-> claims[i].amount]
<1>1. SettledIsPaid BY SettledFiles
<1>2. p \in PO!PolicyId /\ amount \in Nat BY <1>1 DEF SettledIsPaid
<1>3. PoolTyped /\ RP!PaidOut \in Int /\ PoolTyped' /\ RP!PaidOut' = RP!PaidOut + amount
  BY <1>2, PoolFigures, PayoutPays DEF SettleClaim, Books
<1>4. /\ claims[id].status = "Approved"
      /\ claims' = [claims EXCEPT ![id].status = "Settled"]
  BY DEF SettleClaim, CL!SettleRecord, CL!Advance
<1>5. policies' = [policies EXCEPT ![p].claimed = I128(@ + amount)]
  BY DEF SettleClaim, PO!UpdateClaimed, PO!I128, I128
<1>6. policies \in [PO!PolicyId -> PP!PolicyRecord] BY PolicyRecords DEF IInv
<1>7. PO!PolicyId' = PO!PolicyId BY <1>5 DEF PO!PolicyId
<1>8. \A q \in PO!PolicyId : Received'[q] = IF q = p THEN I128(Received[q] + amount) ELSE Received[q]
  BY <1>2, <1>5, <1>6, <1>7 DEF Received, PP!PolicyRecord
<1>9. FilesListed BY ClaimList
<1>10. /\ CL!ClaimId' = CL!ClaimId
       /\ \A i \in CL!ClaimId : /\ claims'[i].policy = claims[i].policy
                                /\ claims'[i].amount = claims[i].amount
                                /\ claims'[i].status = IF i = id THEN "Settled" ELSE claims[i].status
  <2>1. CL!ClaimId' = CL!ClaimId BY <1>4 DEF CL!ClaimId
  <2>2. \A i \in CL!ClaimId : claims[i] \in ClaimRecord BY <1>9 DEF FilesListed
  <2> QED BY <1>4, <2>1, <2>2 DEF ClaimRecord, CL!ClaimId
<1>11. id \notin all /\ all' = all \cup {id} /\ all \subseteq CL!ClaimId
  BY <1>4, <1>10 DEF Settled
<1>12. \A q : on(q)' = (IF q = p THEN on(q) \cup {id} ELSE on(q)) /\ on(q) \subseteq all
  BY <1>4, <1>10 DEF Settled, ClaimsOn
<1>13. ASSUME NEW ids \in SUBSET all
       PROVE  SumOf(ids)' = SumOf(ids) /\ SumOf(ids) \in Int
              /\ SumOf(ids \cup {id})' = SumOf(ids) + amount
  <2> DEFINE f == [i \in ids \cup {id} |-> claims'[i].amount]
             g == [i \in ids |-> claims[i].amount]
  <2>1. IsFiniteSet(ids) BY <1>1, <1>11, FS_Subset DEF SettledIsPaid
  <2>2. [i \in ids |-> claims'[i].amount] = g BY <1>10, <1>11
  <2>3. \A i \in ids : g[i] \in Int /\ f[i] = g[i] BY <1>1, <1>10, <1>11 DEF SettledIsPaid
  <2>4. f[id] = amount /\ f[id] \in Int BY <1>2, <1>10
  <2>5. id \notin ids BY <1>11
  <2> HIDE DEF f, g
  <2>6. SumFunctionOnSet(f, ids \cup {id}) = SumFunctionOnSet(g, ids) + f[id]
    BY <2>1, <2>3, <2>4, <2>5, SumAdds
  <2>7. SumFunctionOnSet(g, ids) \in Int BY <2>1, <2>3, SumType
  <2> QED BY <2>2, <2>4, <2>6, <2>7 DEF SumOf, f, g
<1> HIDE DEF amount, p, all, on
<1>14. (SumOf(Settled(CL!ClaimId)))' = SumOf(all) + amount BY <1>11, <1>13 DEF all
<1>15. RP!PaidOut >= SumOf(all) /\ \A q \in PO!PolicyId : Received[q] = I128(SumOf(on(q)))
  BY DEF Books, all, on
<1>16. RP!PaidOut' >= SumOf(Settled(CL!ClaimId))'
  <2>1. SumOf(all) \in Int BY <1>13
  <2> DEFINE sum == SumOf(all)
             next == SumOf(Settled(CL!ClaimId))'
  <2>2. sum \in Int /\ next = sum + amount /\ RP!PaidOut >= sum BY <2>1, <1>14, <1>15
  <2> HIDE DEF sum, next
  <2>3. RP!PaidOut' >= next BY <2>2, <1>2, <1>3, <1>15
  <2> QED BY <2>3 DEF next
<1>17. ASSUME NEW q \in PO!PolicyId PROVE Received'[q] = I128(SumOf(on(q))')
  <2>1. CASE q = p
    <3>1. SumOf(on(q))' = SumOf(on(q)) + amount /\ SumOf(on(q)) \in Int BY <2>1, <1>12, <1>13
    <3>2. I128(I128(SumOf(on(q))) + amount) = I128(SumOf(on(q)) + amount)
      BY <3>1, <1>2, I128OfSum, PolicyAssumption DEF PO!PolicyAssumption
    <3>3. Received'[q] = I128(I128(SumOf(on(q))) + amount) BY <2>1, <1>8, <1>15
    <3> QED BY <3>1, <3>2, <3>3
  <2>2. CASE q # p BY <2>2, <1>8, <1>12, <1>13, <1>15
  <2> QED BY <2>1, <2>2
<1> QED BY <1>3, <1>7, <1>16, <1>17 DEF Books, on, I128

(* Nothing is insured, claimed or paid at first.                             *)
LEMMA InitEstablishes ==
  ASSUME Init
  PROVE  IInv /\ Files = <<>> /\ Received = <<>>
<1>1. /\ policies = <<>> /\ claims = <<>> /\ activeClaim = <<>> /\ now = 0
      /\ coverageCap = MaxCoverage /\ policyAdmin = TRUE
      /\ claimsContract = Claims /\ governanceContract = Governance
  BY DEF Init, PO!InitPolicies, CL!InitClaims
<1>2. PO!PolicyId = {} /\ CL!ClaimId = {} /\ PP!PolicyId = {} /\ DOMAIN activeClaim = {}
  BY <1>1 DEF PO!PolicyId, CL!ClaimId, PP!PolicyId
<1>3. PP!TypeOK
  <2>1. policies \in Seq(PP!PolicyRecord) /\ Len(policies) <= PolicyLimit
    BY <1>1, PolicyAssumption DEF PO!PolicyAssumption
  <2> QED BY <1>1, <2>1, PolicyAssumption DEF PP!TypeOK, PP!Contracts, PO!PolicyAssumption
<1>4. PP!IInv BY <1>2, <1>3 DEF PP!IInv, PP!ClaimedWithinCoverage
<1>5. ClaimsListed BY <1>1, <1>2 DEF ClaimsListed
<1>6. LocksNameClaims /\ ClaimsHoldLocks BY <1>2 DEF LocksNameClaims, ClaimsHoldLocks
<1>7. Files = <<>> /\ Received = <<>> BY <1>2 DEF Files, Received
<1> QED BY <1>4, <1>5, <1>6, <1>7 DEF IInv

-----------------------------------------------------------------------------
(* Every reachable state of the three contracts satisfies the invariant.       *)
THEOREM CoreInvariant == Spec => []IInv
<1>1. Init => IInv BY InitEstablishes
<1>2. IInv /\ [Next]_vars => IInv' BY StepPreserves
<1> QED BY <1>1, <1>2, PTL DEF Spec

(* The lock of a policy names its one open claim and nothing else, for any   *)
(* number of policies and claims and batches of any length.                  *)
THEOREM CoreLocks == Spec => []LockNamesTheOpenClaim
<1>1. IInv => LockNamesTheOpenClaim
  BY DEF IInv, LocksNameClaims, ClaimsHoldLocks, LockNamesTheOpenClaim, ClaimsOn
<1> QED BY <1>1, CoreInvariant, PTL

(* No policy's total stands above its coverage, with the claims contract     *)
(* that checks a claim against the coverage it found when it was made, for   *)
(* all amounts, those whose totals wrap as well.                             *)
THEOREM CoreCovers == Spec => []ClaimedWithinCoverage
<1>1. IInv => ClaimedWithinCoverage
  BY DEF IInv, PP!IInv, PP!ClaimedWithinCoverage, PP!PolicyId, ClaimedWithinCoverage,
         PO!ClaimedWithinCoverage, PO!PolicyId
<1> QED BY <1>1, CoreInvariant, PTL

(* Every settlement is booked by all three contracts or by none, over any    *)
(* run: a policy's total is the sum of its settled claims as the release     *)
(* build keeps it, modulo 2^128, and the capital that claims took out of the *)
(* pool is at least what all settled claims amount to.                       *)
THEOREM CoreBooks == Spec => []SettlementIsBooked
<1>1. Init => IInv /\ Books
  <2> SUFFICES ASSUME Init PROVE Books BY InitEstablishes
  <2>1. /\ stake = [p \in User |-> 0] /\ totalCapital = 0 /\ availableCapital = 0
        /\ policies = <<>> /\ claims = <<>>
    BY DEF Init, RP!InitCapital, PO!InitPolicies, CL!InitClaims
  <2>2. PO!PolicyId = {} /\ Settled(CL!ClaimId) = {}
    BY <2>1 DEF PO!PolicyId, CL!ClaimId, Settled
  <2>3. SumOf(Settled(CL!ClaimId)) = 0 BY <2>2, SumEmpty DEF SumOf
  <2>4. RP!Staked = 0
    <3>1. \A p \in User : stake[p] = 0 BY <2>1
    <3>2. SumFunctionOnSet(stake, User) = 0 BY <3>1, PoolAssumption, SumZero
    <3> QED BY <3>2, SameSum DEF RP!Staked
  <2> QED BY <2>1, <2>2, <2>3, <2>4 DEF Books, PoolTyped, RP!PaidOut, RP!Forfeited
<1>2. IInv /\ Books /\ [Next]_vars => (IInv /\ Books)'
  <2> SUFFICES ASSUME IInv, Books, [Next]_vars PROVE IInv' /\ Books' OBVIOUS
  <2>1. IInv' BY StepPreserves
  <2>2. ASSUME NEW id \in CL!ClaimId, SettleClaim(id) PROVE Books'
    BY <2>2, SettleKeepsBooks
  <2>3. CASE ~ Settle
    <3>1. Unpaid BY <2>3, StepElsewhere, StepWrites, StepFiles, StepReviews DEF Next
    <3>2. PoolStep \/ UNCHANGED poolState
      BY <2>3 DEF Next, PolicyStep, GovernanceStep, Submit, Review, vars, poolState
    <3> QED BY <2>1, <3>1, <3>2, UnpaidKeepsBooks
  <2> QED BY <2>1, <2>2, <2>3 DEF Settle
<1>3. IInv /\ Books => SettlementIsBooked
  BY DEF Books, Received, SettlementIsBooked, ClaimedIsSettled, PaidCoversSettled
<1> QED BY <1>1, <1>2, <1>3, PTL DEF Spec

(* The three contracts implement the ledger of claims: whatever they do to   *)
(* each other, a policy is never under two open claims, and exactly the      *)
(* approved claims are paid, once, and counted on their policy in a total    *)
(* that wraps.                                                               *)
THEOREM CoreImplementsLedger == Spec => ImplementsLedger
<1>1. Init => Ledger!Init BY InitEstablishes DEF Ledger!Init, Files, Received
<1>2. IInv /\ [Next]_vars => [Ledger!Next]_(Ledger!vars)
  BY StepPreserves DEF InLedger, Stutter, Ledger!vars, Files, Received
<1> QED BY <1>1, <1>2, CoreInvariant, PTL DEF Spec, ImplementsLedger, Ledger!Spec
=============================================================================
