------------------------------ MODULE ClaimLedger ------------------------------
(*****************************************************************************)
(* What the claims contract promises, without locks, counters or a second    *)
(* contract: a policy is never under two open claims, a claim is decided     *)
(* once, and exactly the approved ones are paid and counted, once.           *)
(*****************************************************************************)
EXTENDS Integers, Sequences, FiniteSets, Int128

VARIABLES
  files,          \* the claims, in order of arrival: [policy, amount, stage]
  received        \* policy |-> what its claims have been paid so far, as an i128

vars == <<files, received>>

Open(f) == f.stage \in {"filed", "granted"}

Init == files = <<>> /\ received = <<>>

(* Policies are written; nothing has been paid on a new one.                 *)
Write ==
  /\ Len(received') > Len(received)
  /\ \A p \in DOMAIN received' :
       received'[p] = IF p \in DOMAIN received THEN received[p] ELSE 0
  /\ UNCHANGED files

(* Claims arrive, for positive amounts, on distinct policies without an open *)
(* claim.                                                                    *)
File ==
  /\ Len(files') > Len(files)
  /\ SubSeq(files', 1, Len(files)) = files
  /\ \A i \in Len(files) + 1 .. Len(files') :
       /\ files'[i].stage = "filed" /\ files'[i].amount > 0
       /\ \A j \in 1 .. i - 1 :
            Open(files'[j]) => files'[j].policy # files'[i].policy
  /\ UNCHANGED received

Decide(i, stage) ==
  /\ files[i].stage = "filed"
  /\ files' = [files EXCEPT ![i].stage = stage]
  /\ UNCHANGED received

Pay(i) ==
  /\ files[i].stage = "granted"
  /\ files' = [files EXCEPT ![i].stage = "paid"]
  /\ received' = [received EXCEPT ![files[i].policy] = I128(@ + files[i].amount)]

Next ==
  \/ Write
  \/ File
  \/ \E i \in DOMAIN files : Decide(i, "granted") \/ Decide(i, "refused") \/ Pay(i)

Spec == Init /\ [][Next]_vars
=============================================================================
