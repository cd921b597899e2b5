------------------------------- MODULE Slashing -------------------------------
(*****************************************************************************)
(* The slashing contract (contracts/slashing): counts the violations of a    *)
(* target in a role, remembers the latest of them, and refuses a slash that  *)
(* follows the one before too soon or comes during a pause.                  *)
(*****************************************************************************)
EXTENDS Integers, Sequences, FiniteSets

CONSTANTS
  Target,          \* accounts that may be slashed
  SlashRole,       \* roles they may be slashed in
  SlashAmount,     \* amounts callers pass: any i128
  Cooldown,        \* cooldown_seconds that the admin configures
  MaxHistory,      \* MAX_HISTORY: 50 in the code
  ViolationLimit,  \* bound on the violations counted
  PauseTimelock, ResumeTimelock, MaxTime, Duration, LastTime   \* CircuitBreaker

VARIABLES
  time, scheduledAt, activatesAt, until, rescheduled, resumeAt, emergency, announced,
  slashable,       \* SlashableRoles
  cooldown,        \* PenaltyParams(role).cooldown_seconds, for the roles configured
  violations,      \* ViolationCount(target, role)
  history,         \* History(target, role): records of amount and timestamp
  ownRoles         \* roles granted to the contract's own address

CB == INSTANCE CircuitBreaker

breakerState == <<scheduledAt, activatesAt, until, rescheduled, resumeAt, emergency,
                  announced>>

records == <<violations, history>>
setup   == <<slashable, cooldown, ownRoles>>
vars    == <<time, breakerState, records, setup>>

Case == Target \X SlashRole

InitRecords ==
  /\ violations = [c \in Case |-> 0]
  /\ history = [c \in Case |-> <<>>]

Init ==
  /\ CB!Init /\ InitRecords
  /\ slashable = {} /\ cooldown = <<>> /\ ownRoles = {}

(* set_role, for the contract's own address: the caller that every entry     *)
(* point looks up.  The admin signs.                                         *)
SetRole(role) ==
  /\ ownRoles' = ownRoles \cup {role}
  /\ UNCHANGED <<time, breakerState, records, slashable, cooldown>>

ConfigurePenaltyParameters(role, seconds) ==
  /\ "Admin" \in ownRoles
  /\ cooldown' = [r \in DOMAIN cooldown \cup {role} |->
                    IF r = role THEN seconds ELSE cooldown[r]]
  /\ UNCHANGED <<time, breakerState, records, slashable, ownRoles>>

AddSlashableRole(role) ==
  /\ "Admin" \in ownRoles
  /\ slashable' = slashable \cup {role}
  /\ UNCHANGED <<time, breakerState, records, cooldown, ownRoles>>

(* remove_slashable_role: the records and the cooldown of the role stay.     *)
RemoveSlashableRole(role) ==
  /\ "Admin" \in ownRoles
  /\ slashable' = slashable \ {role}
  /\ UNCHANGED <<time, breakerState, records, cooldown, ownRoles>>

Last(seq) == seq[Len(seq)]

CanBeSlashed_OldestRecord(target, role) ==
  /\ role \in slashable
  /\ role \in DOMAIN cooldown /\ history[<<target, role>>] # <<>> =>
       time >= (Head(history[<<target, role>>]).at + cooldown[role]) % (MaxTime + 1)

(* can_be_slashed: the end of the cooldown is a u64 and wraps.               *)
CanBeSlashed(target, role) ==
  /\ role \in slashable
  /\ role \in DOMAIN cooldown /\ history[<<target, role>>] # <<>> =>
       time >= (Last(history[<<target, role>>]).at + cooldown[role]) % (MaxTime + 1)

(* The history after one more record: a full one loses its oldest.           *)
Recorded(past, record) ==
  Append(IF Len(past) >= MaxHistory THEN Tail(past) ELSE past, record)

(* slash_funds: any amount is recorded, none is moved.                       *)
SlashFunds(target, role, amount) ==
  /\ "Governance" \in ownRoles
  /\ CB!Pass
  /\ CanBeSlashed(target, role)
  /\ violations[<<target, role>>] < ViolationLimit
  /\ violations' = [violations EXCEPT ![<<target, role>>] = @ + 1]
  /\ history' = [history EXCEPT ![<<target, role>>] =
                   Recorded(@, [amount |-> amount, at |-> time])]
  /\ UNCHANGED setup

(* pause, resume, emergency_pause, and is_paused, which saves what it syncs. *)
BreakerStep ==
  /\ \/ CB!EmergencyPause \/ CB!RequestResume \/ CB!Resume \/ CB!Sync
     \/ \E length \in Duration : CB!Pause(length)
  /\ UNCHANGED <<records, setup>>

AdminStep ==
  \/ \E role \in {"Admin", "Governance"} : SetRole(role)
  \/ \E role \in SlashRole :
       AddSlashableRole(role) \/ RemoveSlashableRole(role)
  \/ \E role \in SlashRole, seconds \in Cooldown : ConfigurePenaltyParameters(role, seconds)

Advance == CB!Advance /\ UNCHANGED <<records, setup>>

Next ==
  \/ Advance \/ BreakerStep \/ AdminStep
  \/ \E c \in Case, amount \in SlashAmount : SlashFunds(c[1], c[2], amount)

Spec == Init /\ [][Next]_vars

-----------------------------------------------------------------------------
TypeOK ==
  /\ CB!TypeOK
  /\ slashable \subseteq SlashRole
  /\ DOMAIN cooldown \subseteq SlashRole /\ cooldown \in [DOMAIN cooldown -> 0..MaxTime]
  /\ violations \in [Case -> Nat]
  /\ history \in [Case -> Seq([amount : Int, at : Nat])]
  /\ ownRoles \subseteq {"Admin", "Governance"}

(* The count and the history tell the same story: every violation is in the  *)
(* history until it is full, and a full one stays full.                      *)
HistoryMatchesCount ==
  \A c \in Case :
    Len(history[c]) = IF violations[c] < MaxHistory THEN violations[c] ELSE MaxHistory

(* The cooldown separates a new slash from every one before, whatever was    *)
(* paused, reconfigured, removed or added again in between: no old record is *)
(* taken for the latest.  Cooldowns that end after the end of time wrap.     *)
SlashesAreSpaced ==
  [][\A c \in Case : violations'[c] > violations[c] /\ c[2] \in DOMAIN cooldown =>
       \A i \in DOMAIN history[c] :
         Last(history[c]).at + cooldown[c[2]] <= MaxTime =>
           time >= history[c][i].at + cooldown[c[2]]]_vars

(* What the contract knows of past slashes suffices for its cooldowns.       *)
SlashesAreOrderly == []HistoryMatchesCount /\ SlashesAreSpaced
=============================================================================
