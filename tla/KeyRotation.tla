------------------------------ MODULE KeyRotation ------------------------------
(*****************************************************************************)
(* Envelope keys and their rotation (meridian-api: CryptoProvider,           *)
(* KeyRotationService, scripts/rotate-kek.ts).  Each row holds a data key    *)
(* wrapped under a master key.  Servers wrap and open rows with the master   *)
(* keys they booted with; an operator's script, a process of its own, wraps  *)
(* all rows it loaded under an incoming key, batch by batch, and may be cut  *)
(* off between two batches.  When it is through, the operator configures the *)
(* incoming key and the one before, and restarts the servers one by one.     *)
(* Assumed of the operator: one rotation at a time, none while a server has  *)
(* still to restart, and one that was cut off is run again with its key.     *)
(* Master keys are numbered as they come; cipher and user data are left out. *)
(*****************************************************************************)
EXTENDS Integers, Sequences

CONSTANTS
  Servers,
  KeyBatch,             \* batchSize
  MaxKeks, MaxRows      \* bounds

ASSUME KeyAssumption == KeyBatch \in Nat \ {0} /\ MaxKeks \in Nat \ {0} /\ MaxRows \in Nat

VARIABLES
  rows,        \* data_encryption_keys, by createdAt: the key each is wrapped under, kekVersion
  keyEnv,      \* the configured keys
  memory,      \* the keys of each server
  rotation     \* the script: its keys, the incoming one, rows loaded and rows done

keyVariables == <<rows, keyEnv, memory, rotation>>

NoKek     == 0
Keks      == 1..MaxKeks
Boot(env) == [active |-> env.active, previous |-> env.previous, version |-> 1]

KeyInit ==
  /\ rows = <<>> /\ keyEnv = [active |-> 1, previous |-> NoKek]
  /\ memory = [s \in Servers |-> Boot(keyEnv)]
  /\ rotation = [state |-> "none", keys |-> Boot(keyEnv), incoming |-> 1, loaded |-> 0, done |-> 0]

-----------------------------------------------------------------------------
(* unwrapDek tries the key of the row's version and then every key it has;   *)
(* only the one that wrapped the row opens it.                               *)
ByVersion(keys, row) ==
  CASE row.version = keys.version     -> {keys.active}
    [] row.version = keys.version - 1 -> {keys.previous}
    [] OTHER                          -> {}

Candidates_ByVersion(keys, row) == ByVersion(keys, row) \ {NoKek}
Candidates(keys, row) == (ByVersion(keys, row) \cup {keys.active, keys.previous}) \ {NoKek}

Opens(keys, row) == row.kek \in Candidates(keys, row)
Settled(s)       == memory[s] = Boot(keyEnv)

(* createDek.                                                                *)
CreateDek(s) ==
  /\ Len(rows) < MaxRows
  /\ rows' = Append(rows, [kek |-> memory[s].active, version |-> memory[s].version])
  /\ UNCHANGED <<keyEnv, memory, rotation>>

RestartServer(s) ==
  /\ memory' = [memory EXCEPT ![s] = Boot(keyEnv)]
  /\ UNCHANGED <<rows, keyEnv, rotation>>

(* rotateKek, from its first line to the read of all rows.                   *)
StartRotation ==
  /\ \/ rotation.state = "none" /\ rotation.incoming < MaxKeks
     \/ rotation.state = "cut off"
  /\ \A s \in Servers : Settled(s)
  /\ rotation' = [state    |-> "running", keys |-> Boot(keyEnv),
                  incoming |-> IF rotation.state = "none" THEN rotation.incoming + 1
                               ELSE rotation.incoming,
                  loaded   |-> Len(rows), done |-> 0]
  /\ UNCHANGED <<rows, keyEnv, memory>>

(* The rows of a batch are saved together, and none if one does not open.    *)
RewrapBatch ==
  LET end   == IF rotation.done + KeyBatch <= rotation.loaded
               THEN rotation.done + KeyBatch ELSE rotation.loaded
      batch == rotation.done + 1 .. end IN
  /\ rotation.state = "running" /\ rotation.done < rotation.loaded
  /\ \A i \in batch : Opens(rotation.keys, rows[i])
  /\ rows' = [i \in DOMAIN rows |->
                IF i \in batch THEN [kek |-> rotation.incoming, version |-> rotation.keys.version + 1]
                ELSE rows[i]]
  /\ rotation' = [rotation EXCEPT !.done = end]
  /\ UNCHANGED <<keyEnv, memory>>

(* The script ends on a row that it cannot open, or is stopped.              *)
CutOff ==
  /\ rotation.state = "running"
  /\ rotation' = [rotation EXCEPT !.state = "cut off"]
  /\ UNCHANGED <<rows, keyEnv, memory>>

(* activateKek, in the script's own memory.                                  *)
ActivateKek ==
  /\ rotation.state = "running" /\ rotation.done = rotation.loaded
  /\ rotation' = [rotation EXCEPT !.state = "through",
                    !.keys = [active   |-> rotation.incoming,
                              previous |-> rotation.keys.active,
                              version  |-> rotation.keys.version + 1]]
  /\ UNCHANGED <<rows, keyEnv, memory>>

(* What the script's usage asks for once it is through.                      *)
Configure ==
  /\ rotation.state = "through"
  /\ keyEnv' = [active |-> rotation.keys.active, previous |-> rotation.keys.previous]
  /\ rotation' = [rotation EXCEPT !.state = "none"]
  /\ UNCHANGED <<rows, memory>>

KeyNext ==
  \/ \E s \in Servers : CreateDek(s) \/ RestartServer(s)
  \/ StartRotation \/ RewrapBatch \/ CutOff \/ ActivateKek \/ Configure

KeySpec == KeyInit /\ [][KeyNext]_keyVariables

-----------------------------------------------------------------------------
KeyRow    == [kek : Keks, version : {1, 2}]
KeyMemory == [active : Keks, previous : Keks \cup {NoKek}, version : {1, 2}]

KeyTypeOK ==
  /\ rows \in Seq(KeyRow)
  /\ keyEnv \in [active : Keks, previous : Keks \cup {NoKek}]
  /\ memory \in [Servers -> KeyMemory]
  /\ rotation \in [state : {"none", "running", "cut off", "through"}, keys : KeyMemory,
                   incoming : Keks, loaded : Nat, done : Nat]

(* No data key is lost: each is wrapped under a key that is configured or    *)
(* that the rotation in progress is bringing in, wherever the script was cut *)
(* off and whatever the servers created meanwhile; and between rotations     *)
(* every server that has restarted opens all of them.                        *)
KeysAreHeld ==
  \A i \in DOMAIN rows :
    \/ rows[i].kek \in {keyEnv.active, keyEnv.previous}
    \/ rotation.state # "none" /\ rows[i].kek = rotation.incoming

KeysStayReadable ==
  /\ KeysAreHeld
  /\ rotation.state = "none" =>
       \A s \in Servers : Settled(s) => \A i \in DOMAIN rows : Opens(memory[s], rows[i])
=============================================================================
