---------------------------- MODULE CircuitBreaker ----------------------------
(*****************************************************************************)
(* The pause protocol that the contracts share (contracts/lib,               *)
(* circuit_breaker.rs): governance schedules a timed pause or pauses at once *)
(* in an emergency; the admin resumes in two calls.  Nothing happens when a  *)
(* window opens or closes until sync, the first call of every protected      *)
(* entry point, notices it.                                                  *)
(*****************************************************************************)
EXTENDS Integers

CONSTANTS
  PauseTimelock,   \* PAUSE_TIMELOCK_SECONDS
  ResumeTimelock,  \* RESUME_TIMELOCK_SECONDS
  MaxTime,         \* u64::MAX: later times do not exist
  Duration,        \* durations governance passes
  LastTime         \* bound on the ledger's timestamp

NoTime == -1

ASSUME BreakerAssumption ==
  /\ PauseTimelock \in Nat \ {0} /\ ResumeTimelock \in Nat \ {0}
  /\ MaxTime \in Nat /\ LastTime \in 0..MaxTime /\ Duration \subseteq Nat

VARIABLES
  time,            \* ledger timestamp
  scheduledAt,     \* pause_scheduled_at
  activatesAt,     \* pause_activates_at
  until,           \* pause_until
  rescheduled,     \* whether rescheduled_by is set
  resumeAt,        \* resume_scheduled_at
  emergency,       \* emergency_paused
  announced        \* activation_announced

breaker == <<scheduledAt, activatesAt, until, rescheduled, resumeAt, emergency, announced>>
vars    == <<time, breaker>>

(* is_paused, the pure function: the window is closed at its end.            *)
Paused ==
  \/ emergency
  \/ activatesAt # NoTime /\ until # NoTime /\ activatesAt <= time /\ time < until

Init ==
  /\ time = 0
  /\ scheduledAt = NoTime /\ activatesAt = NoTime /\ until = NoTime /\ resumeAt = NoTime
  /\ rescheduled = FALSE /\ emergency = FALSE /\ announced = FALSE

Later(a, b) == IF a > b THEN a ELSE b

(* The window that a call of pause asks for: from now if the pause is on,    *)
(* and then never shorter than it was, or else after the timelock.           *)
Activation        == IF Paused THEN time ELSE time + PauseTimelock
WindowEnd(length) == IF Paused THEN Later(until, time + length)
                     ELSE time + PauseTimelock + length

(* A new window has to be announced, a prolonged one has been.               *)
StillAnnounced == announced /\ Paused

Pause_KeepsResume(length) ==
  /\ length > 0 /\ ~ emergency
  /\ Activation + length <= MaxTime
  /\ scheduledAt' = time
  /\ activatesAt' = Activation
  /\ until'       = WindowEnd(length)
  /\ rescheduled' = (scheduledAt # NoTime)
  /\ announced'   = StillAnnounced
  /\ UNCHANGED <<time, emergency, resumeAt>>

(* pause, asked by governance: a new schedule drops a pending resume.        *)
Pause(length) ==
  /\ length > 0 /\ ~ emergency
  /\ Activation + length <= MaxTime
  /\ scheduledAt' = time
  /\ activatesAt' = Activation
  /\ until'       = WindowEnd(length)
  /\ rescheduled' = (scheduledAt # NoTime)
  /\ resumeAt'    = NoTime
  /\ announced'   = StillAnnounced
  /\ UNCHANGED <<time, emergency>>

(* emergency_pause, asked by governance: at once and without an end.         *)
EmergencyPause ==
  /\ scheduledAt' = time
  /\ activatesAt' = time
  /\ until'       = NoTime
  /\ rescheduled' = (scheduledAt # NoTime)
  /\ resumeAt'    = NoTime
  /\ emergency'   = TRUE
  /\ announced'   = TRUE
  /\ UNCHANGED time

Clear ==
  /\ scheduledAt' = NoTime /\ activatesAt' = NoTime /\ until' = NoTime /\ resumeAt' = NoTime
  /\ rescheduled' = FALSE /\ emergency' = FALSE /\ announced' = FALSE
  /\ UNCHANGED time

RequestResume_StoresDeadline ==
  /\ scheduledAt # NoTime
  /\ resumeAt = NoTime
  /\ time + ResumeTimelock <= MaxTime
  /\ resumeAt' = time + ResumeTimelock
  /\ UNCHANGED <<time, scheduledAt, activatesAt, until, rescheduled, emergency, announced>>

(* resume, asked by the admin: the first call starts the resume timelock.    *)
RequestResume ==
  /\ scheduledAt # NoTime
  /\ resumeAt = NoTime
  /\ time + ResumeTimelock <= MaxTime
  /\ resumeAt' = time
  /\ UNCHANGED <<time, scheduledAt, activatesAt, until, rescheduled, emergency, announced>>

(* The second call, once the timelock has passed, ends the pause.            *)
Resume ==
  /\ resumeAt # NoTime
  /\ time >= resumeAt + ResumeTimelock
  /\ Clear

Expired == ~ emergency /\ until # NoTime /\ time >= until

(* sync: clear a window that is over, or else announce the one that is on.   *)
SyncExpiry == Expired /\ Clear

SyncActivation ==
  /\ Paused /\ ~ announced
  /\ announced' = TRUE
  /\ UNCHANGED <<time, scheduledAt, activatesAt, until, rescheduled, resumeAt, emergency>>

Sync == SyncExpiry \/ SyncActivation

(* require_not_paused, at the head of a protected call that goes through: a   *)
(* window that is over is cleared.  Under a pause the call fails, and with it *)
(* the announcement that sync made.                                           *)
Pass ==
  /\ ~ Paused
  /\ IF Expired THEN Clear ELSE UNCHANGED <<time, breaker>>

(* The ledger's timestamp jumps; nothing is called on the way.               *)
Advance ==
  /\ \E t \in time + 1 .. LastTime : time' = t
  /\ UNCHANGED breaker

Next ==
  \/ Advance \/ EmergencyPause \/ RequestResume \/ Resume \/ Sync
  \/ \E length \in Duration : Pause(length)

Spec == Init /\ [][Next]_vars

-----------------------------------------------------------------------------
Time == 0..LastTime

TypeOK ==
  /\ time \in Time
  /\ scheduledAt \in Time \cup {NoTime} /\ resumeAt \in Time \cup {NoTime}
  /\ activatesAt \in Nat \cup {NoTime} /\ until \in Nat \cup {NoTime}
  /\ rescheduled \in BOOLEAN /\ emergency \in BOOLEAN /\ announced \in BOOLEAN

(* Whatever is scheduled and rescheduled, resumed and expired, a contract    *)
(* comes under a pause only by an emergency or when the latest call of pause *)
(* is a full timelock old.                                                   *)
PauseWaitsForTimelock ==
  [][~ Paused /\ Paused' => emergency' \/ time' - scheduledAt' >= PauseTimelock]_vars

(* A pause ends only when its own time is up or a full timelock after an     *)
(* admin asked, and that request is never older than the latest schedule:    *)
(* one made for an earlier pause does not end a later one.                   *)
PauseEndsInTime ==
  [][Paused /\ ~ Paused' =>
       \/ ~ emergency /\ time' >= until
       \/ /\ resumeAt >= scheduledAt
          /\ time - resumeAt >= ResumeTimelock]_vars

(* Neither timelock can be gone around, in any order of calls.               *)
PausesKeepTime == PauseWaitsForTimelock /\ PauseEndsInTime

(* While a pause is on, governance can prolong it but not shorten it, and an *)
(* emergency, which has no end, stays one until it is over.                  *)
PauseNeverShortens ==
  [][Paused /\ Paused' => emergency' \/ (~ emergency /\ until' >= until)]_vars

(* An activation that was announced is on or was: no window is announced     *)
(* before it opens.                                                          *)
AnnouncedIsOpen == announced => emergency \/ activatesAt \in 0..time
=============================================================================
