------------------------------- MODULE ZkCompliance -------------------------------
(*****************************************************************************)
(* The contract that keeps zero-knowledge proofs of compliance (contracts/   *)
(* zk-compliance): accounts submit proofs, approved verifiers have them      *)
(* checked against the key the owner registered for their kind, and other    *)
(* contracts ask whether an account's latest proof of a kind is valid.       *)
(* Built without the feature "zk" the contract can check nothing.  A call    *)
(* that returns an error is reverted.  A proof is the key that it verifies   *)
(* under; what is proved, and to whom, is left out.                          *)
(*****************************************************************************)
EXTENDS Integers, Sequences, FiniteSets, FiniteSetsExt, SequencesExt

CONSTANTS
  Provers,           \* accounts with proofs
  ZkCallers,         \* all accounts that call, the provers among them
  ZkOwner,
  ZkKinds,             \* ZkProofType
  OneShots,      \* the kinds that have a verify_..._zk of their own
  ZkKeys,              \* verification keys
  Unreadable,        \* what a malformed proof or public input verifies under
  PrivacyLevels,     \* the u8 that callers pass
  YearOfProof,       \* how long a proof is good for, in ms
  ZkBatchLimit,      \* 20
  ZkLastTime, MaxProofs, MaxKeyChanges, MaxAuditEntries   \* bounds

ASSUME ZkAssumption ==
  /\ Provers \subseteq ZkCallers /\ ZkOwner \in ZkCallers
  /\ OneShots \subseteq ZkKinds /\ Unreadable \notin ZkKeys
  /\ PrivacyLevels \subseteq Nat /\ YearOfProof \in Nat \ {0} /\ IsFiniteSet(Provers)
  /\ ZkLastTime \in Nat

ProofStatus == {"NotSubmitted", "Pending", "Verified", "Rejected"}
NoKey       == [version |-> 0]
NoSummary   == [status |-> "NotSubmitted", at |-> -1, latest |-> <<>>]
Preferred   == 3     \* the privacy level of an account that has set none

VARIABLES
  zkTime,
  backend,       \* whether the contract was built with the feature "zk"
  zkVerifiers,   \* approved_verifiers
  keyOf,         \* verification_keys
  registered,    \* history: every key a kind has had, as the events VerificationKeySet tell
  zkProofs,      \* zk_proofs of each account; ids are positions, proof_counter the length
  summaries,     \* zk_compliance_data
  zkAudits,      \* audit_logs of each account: [status, action]
  zkStats,       \* verification_stats
  privacy        \* privacy_preferences: [level, consent], consent a time or -1 for none stored

keyVars   == <<keyOf, registered>>
proofVars == <<zkProofs, summaries, zkAudits, zkStats>>
zkVars    == <<zkTime, backend, zkVerifiers, keyVars, proofVars, privacy>>

ZkInit ==
  /\ zkTime = 0 /\ backend \in BOOLEAN /\ zkVerifiers = {}
  /\ keyOf = [k \in ZkKinds |-> NoKey] /\ registered = [k \in ZkKinds |-> {}]
  /\ zkProofs = [a \in Provers |-> <<>>] /\ summaries = [a \in Provers |-> NoSummary]
  /\ zkAudits = [a \in Provers |-> <<>>]
  /\ zkStats = [total |-> 0, successful |-> 0, failed |-> 0]
  /\ privacy = [a \in Provers |-> [level |-> Preferred, consent |-> -1]]

Submitted(kind, fits) ==
  [kind |-> kind, fits |-> fits, status |-> "Pending", expires |-> zkTime + YearOfProof]

AuditOf(status, action) == [status |-> status, action |-> action]

-----------------------------------------------------------------------------
(* submit_zk_proof and its batch, where each entry is [kind, fits].          *)
SubmitZkProofs(a, entries) ==
  /\ Len(entries) \in 1..ZkBatchLimit /\ Len(zkProofs[a]) + Len(entries) <= MaxProofs
  /\ zkProofs' = [zkProofs EXCEPT ![a] =
       @ \o [i \in DOMAIN entries |-> Submitted(entries[i].kind, entries[i].fits)]]
  /\ zkAudits' = [zkAudits EXCEPT ![a] = @ \o [i \in DOMAIN entries |-> AuditOf("Pending", 0)]]
  /\ UNCHANGED <<zkTime, backend, zkVerifiers, keyVars, summaries, zkStats, privacy>>

(* perform_zk_verification: whether a proof can be checked at all, and what  *)
(* the check says.  Without a backend it says no.                            *)
Checkable(proof) == backend => proof.fits # Unreadable /\ keyOf[proof.kind] # NoKey /\ keyOf[proof.kind].active
Verifying(proof) == backend /\ keyOf[proof.kind].key = proof.fits

(* update_compliance_data: the summary takes the status of the latest proof, *)
(* which need not be the one that was decided.                               *)
Summarized(summary, proofs) ==
  [status |-> Last(proofs).status, at |-> zkTime, latest |-> Append(summary.latest, Len(proofs))]

Decided(proof, good) == [proof EXCEPT !.status = IF good THEN "Verified" ELSE "Rejected"]

Tallied(stats, good) ==
  [total |-> stats.total + 1, successful |-> stats.successful + (IF good THEN 1 ELSE 0),
   failed |-> stats.failed + (IF good THEN 0 ELSE 1)]

(* What a verification reads and writes, as a record, so that a batch can    *)
(* apply one after the other.                                                *)
ZkBooks == [proofs |-> zkProofs, summaries |-> summaries, audits |-> zkAudits, stats |-> zkStats]

Undecided_AnyStatus(books, v) == v.id \in DOMAIN books.proofs[v.account]

Undecided(books, v) ==
  /\ v.id \in DOMAIN books.proofs[v.account]
  /\ books.proofs[v.account][v.id].status = "Pending"

Verifiable(books, v) ==
  Undecided(books, v) /\ (v.approve => Checkable(books.proofs[v.account][v.id]))

(* verify_zk_proof: [account, id, approve].                                  *)
VerifyOne(books, v) ==
  LET proof  == books.proofs[v.account][v.id]
      good   == v.approve /\ Verifying(proof)
      proofs == [books.proofs[v.account] EXCEPT ![v.id] = Decided(proof, good)]
  IN  [proofs    |-> [books.proofs EXCEPT ![v.account] = proofs],
       summaries |-> [books.summaries EXCEPT ![v.account] = Summarized(@, proofs)],
       audits    |-> [books.audits EXCEPT ![v.account] =
                        Append(@, AuditOf(proofs[v.id].status, IF v.approve THEN 1 ELSE 2))],
       stats     |-> Tallied(books.stats, good)]

SetBooks(books) ==
  /\ zkProofs' = books.proofs /\ summaries' = books.summaries
  /\ zkAudits' = books.audits /\ zkStats' = books.stats
  /\ UNCHANGED <<zkTime, backend, zkVerifiers, keyVars, privacy>>

VerifyZkProof(caller, v) ==
  /\ caller \in zkVerifiers /\ Verifiable(ZkBooks, v)
  /\ SetBooks(VerifyOne(ZkBooks, v))

(* batch_verify_zk_proofs: an entry that fails is passed over.               *)
Tried(caller, books, v) ==
  IF caller \in zkVerifiers /\ Verifiable(books, v) THEN VerifyOne(books, v) ELSE books

BatchVerifyZkProofs(caller, verifications) ==
  LET done[i \in 0..Len(verifications)] ==
        IF i = 0 THEN ZkBooks ELSE Tried(caller, done[i - 1], verifications[i])
  IN  Len(verifications) \in 1..ZkBatchLimit /\ SetBooks(done[Len(verifications)])

(* verify_and_store_proof, which seven messages call with a kind each: a     *)
(* proof that is not good makes the call fail, and nothing of it is stored.  *)
VerifyAndStoreProof(a, kind, fits) ==
  LET proof  == Decided(Submitted(kind, fits), TRUE)
      proofs == Append(zkProofs[a], proof)
  IN  /\ Len(proofs) <= MaxProofs
      /\ Checkable(proof) /\ Verifying(proof)
      /\ zkProofs' = [zkProofs EXCEPT ![a] = proofs]
      /\ zkAudits' = [zkAudits EXCEPT ![a] = @ \o <<AuditOf("Pending", 0), AuditOf("Verified", 1)>>]
      /\ zkStats' = Tallied(zkStats, TRUE)
      /\ summaries' = [summaries EXCEPT ![a] = Summarized(@, proofs)]
      /\ UNCHANGED <<zkTime, backend, zkVerifiers, keyVars, privacy>>

-----------------------------------------------------------------------------
(* set_verification_key, and rotate_verification_key, which is the same.     *)
SetVerificationKey(caller, kind, key) ==
  /\ caller = ZkOwner /\ keyOf[kind].version < MaxKeyChanges
  /\ keyOf' = [keyOf EXCEPT ![kind] = [version |-> @.version + 1, key |-> key, active |-> TRUE]]
  /\ registered' = [registered EXCEPT ![kind] = @ \cup {key}]
  /\ UNCHANGED <<zkTime, backend, zkVerifiers, proofVars, privacy>>

DeactivateVerificationKey(caller, kind) ==
  /\ caller = ZkOwner /\ keyOf[kind] # NoKey
  /\ keyOf' = [keyOf EXCEPT ![kind].active = FALSE]
  /\ UNCHANGED <<zkTime, backend, zkVerifiers, registered, proofVars, privacy>>

AddApprovedVerifier(caller, v) ==
  /\ caller = ZkOwner /\ zkVerifiers' = zkVerifiers \cup {v}
  /\ UNCHANGED <<zkTime, backend, keyVars, proofVars, privacy>>

RemoveApprovedVerifier(caller, v) ==
  /\ caller = ZkOwner /\ zkVerifiers' = zkVerifiers \ {v}
  /\ UNCHANGED <<zkTime, backend, keyVars, proofVars, privacy>>

(* create_privacy_preserving_audit: an entry of any action, without status.  *)
CreateAudit(caller, a, action) ==
  /\ caller = a \/ caller \in zkVerifiers
  /\ Len(zkAudits[a]) < MaxAuditEntries
  /\ zkAudits' = [zkAudits EXCEPT ![a] = Append(@, AuditOf("NotSubmitted", action))]
  /\ UNCHANGED <<zkTime, backend, zkVerifiers, keyVars, zkProofs, summaries, zkStats, privacy>>

SetPrivacy(a, level, consent) ==
  /\ privacy' = [privacy EXCEPT ![a] = [level |-> level, consent |-> consent]]
  /\ UNCHANGED <<zkTime, backend, zkVerifiers, keyVars, proofVars>>

(* update_privacy_preferences, and set_privacy_controls for an account that  *)
(* consents.                                                                 *)
UpdatePrivacyPreferences(a, level) == level <= 5 /\ SetPrivacy(a, level, zkTime)

(* The dashboard keeps the time of the consent, where there is one.          *)
UpdatePrivacyOnDashboard(a, level) ==
  level <= 5 /\ SetPrivacy(a, level, IF privacy[a].consent = -1 THEN zkTime ELSE privacy[a].consent)

GrantProofConsent(a)  == privacy[a].level >= 2 /\ SetPrivacy(a, privacy[a].level, zkTime)
RevokeProofConsent(a) == SetPrivacy(a, privacy[a].level, zkTime)

ZkTick ==
  /\ zkTime < ZkLastTime /\ zkTime' = zkTime + 1
  /\ UNCHANGED <<backend, zkVerifiers, keyVars, proofVars, privacy>>

-----------------------------------------------------------------------------
ZkFits          == ZkKeys \cup {Unreadable}
ZkEntries       == [kind : ZkKinds, fits : ZkFits]
Reviews == [account : Provers, id : 1..MaxProofs, approve : BOOLEAN]

Proving ==
  \E a \in Provers :
    \/ \E entries \in UNION {[1..n -> ZkEntries] : n \in 1..ZkBatchLimit} : SubmitZkProofs(a, entries)
    \/ \E kind \in OneShots, fits \in ZkFits : VerifyAndStoreProof(a, kind, fits)

(* For a caller who is no verifier every entry of a batch is passed over.     *)
Reviewing ==
  \E caller \in zkVerifiers :
    \/ \E v \in Reviews : VerifyZkProof(caller, v)
    \/ \E n \in 1..ZkBatchLimit : \E vs \in [1..n -> Reviews] : BatchVerifyZkProofs(caller, vs)

KeyKeeping ==
  \E caller \in ZkCallers :
    \/ \E kind \in ZkKinds : DeactivateVerificationKey(caller, kind) \/ \E key \in ZkKeys : SetVerificationKey(caller, kind, key)
    \/ \E v \in ZkCallers : AddApprovedVerifier(caller, v) \/ RemoveApprovedVerifier(caller, v)

Preferring ==
  \E a \in Provers :
    \/ \E caller \in ZkCallers, action \in 0..4 : CreateAudit(caller, a, action)
    \/ GrantProofConsent(a) \/ RevokeProofConsent(a)
    \/ \E level \in PrivacyLevels : UpdatePrivacyPreferences(a, level) \/ UpdatePrivacyOnDashboard(a, level)

ZkNext == Proving \/ Reviewing \/ KeyKeeping \/ Preferring \/ ZkTick

ZkSpec == ZkInit /\ [][ZkNext]_zkVars

-----------------------------------------------------------------------------
ZkTypeOK ==
  /\ zkTime \in 0..ZkLastTime /\ zkVerifiers \subseteq ZkCallers
  /\ \A a \in Provers :
       /\ zkProofs[a] \in Seq([kind : ZkKinds, fits : ZkFits, status : ProofStatus \ {"NotSubmitted"}, expires : Nat])
       /\ summaries[a].status \in ProofStatus /\ privacy[a].level \in 0..5
  /\ \A k \in ZkKinds : keyOf[k] # NoKey => keyOf[k].key \in registered[k]

(* is_zk_proof_valid, which every check for other contracts rests on: only   *)
(* the latest proof of the kind counts.                                      *)
IsZkProofValid(a, kind) ==
  LET ofKind == {i \in DOMAIN zkProofs[a] : zkProofs[a][i].kind = kind}
      latest == zkProofs[a][Max(ofKind)]
  IN  ofKind # {} /\ latest.status = "Verified" /\ latest.expires > zkTime

Count(entries, status) == Cardinality({i \in DOMAIN entries : entries[i].status = status})

ProofsInAll(status) ==
  SumFunctionOnSet([a \in Provers |-> Count(zkProofs[a], status)], Provers)

(* An account passes a check, and has a verified summary, only on a proof    *)
(* that fits a key its kind has had, in a build that can tell.               *)
PassesAreProven ==
  \A a \in Provers :
    LET proven(kind) == backend /\ \E i \in DOMAIN zkProofs[a] :
                          zkProofs[a][i].kind = kind /\ zkProofs[a][i].fits \in registered[kind]
    IN  /\ \A kind \in ZkKinds : IsZkProofValid(a, kind) => proven(kind)
        /\ summaries[a].status = "Verified" => \E kind \in ZkKinds : proven(kind)

(* Each proof is decided once: the statistics and the log count as many      *)
(* verdicts as there are proofs decided, whatever batches repeat.            *)
VerdictsAreCounted ==
  /\ zkStats.successful = ProofsInAll("Verified")
  /\ zkStats.failed     = ProofsInAll("Rejected")
  /\ zkStats.total      = zkStats.successful + zkStats.failed
  /\ \A a \in Provers :
       /\ \A status \in {"Verified", "Rejected"} : Count(zkAudits[a], status) = Count(zkProofs[a], status)
       /\ Count(zkAudits[a], "Pending") = Len(zkProofs[a])

(* Whatever is submitted again, reviewed in batches, decided twice or checked *)
(* after its key was changed or put out of use.                              *)
VerdictsAreEarned == PassesAreProven /\ VerdictsAreCounted
=============================================================================
