------------------------------- MODULE OfflineQueue -------------------------------
(*****************************************************************************)
(* How the client keeps focus sessions it could not record (meridian-web,    *)
(* FocusContext): a page holds a queue and copies it to localStorage at once *)
(* and to an IndexedDB mirror later.  A drain records a copy of the queue,   *)
(* session by session, when the browser comes online, when the service       *)
(* worker or the user asks, and after a page has read the mirror.  The page  *)
(* is one thread: a step is what runs between two awaits.  Recording is      *)
(* external: it takes a while, and succeeds if the browser is online at its  *)
(* end.  One page is open at a time; experience points and the timer are     *)
(* left out.  Sessions are numbered in the order of their timestamps.        *)
(*****************************************************************************)
EXTENDS Integers, Sequences, FiniteSets, SequencesExt

CONSTANTS MaxSessions, MaxVisits, MaxOutages      \* bounds

ASSUME QueueAssumption == {MaxSessions, MaxVisits, MaxOutages} \subseteq Nat

Sessions == 1..MaxSessions

VARIABLES
  online, outages,
  completed,      \* sessions completed so far
  open,           \* whether a page is open
  pending,        \* offlineQueueRef of the page
  recording,      \* sessions whose first attempt at recording is under way
  drains,         \* drains under way: what is left of their copies, and whether that was stored
  requests,       \* what the page asked of IndexedDB, in order
  stored, mirror, \* the queue in localStorage and in IndexedDB
  recorded,       \* how often each session was recorded
  visits,         \* history: pages opened,
  overtaken,      \*          sessions queued during a drain,
  cutOff          \*          sessions whose first attempt ended with its page

pageVars  == <<open, pending, recording, drains, requests>>
queueVars == <<online, outages, completed, pageVars, stored, mirror, recorded, visits, overtaken, cutOff>>

Read               == [kind |-> "read"]
Write(queue, then) == [kind |-> "write", queue |-> queue, then |-> then]

QueueInit ==
  /\ online = TRUE /\ outages = 0 /\ completed = 0
  /\ open = TRUE /\ pending = <<>> /\ recording = {} /\ drains = {} /\ requests = <<Read>>
  /\ stored = <<>> /\ mirror = <<>>
  /\ recorded = [s \in Sessions |-> 0] /\ visits = 1 /\ overtaken = {} /\ cutOff = {}

Record(s) == recorded' = [recorded EXCEPT ![s] = @ + 1]

(* persistQueue, up to its first await; then is what its caller does when    *)
(* the mirror is written.                                                    *)
Persist(queue, then) ==
  /\ pending' = queue /\ stored' = queue
  /\ requests' = Append(requests, Write(queue, then))

(* A drain that has not yet stored what is left will forget what is queued   *)
(* meanwhile.                                                                *)
Overtake(added) == overtaken' = IF \E d \in drains : ~ d.saving
                                THEN overtaken \cup added ELSE overtaken

-----------------------------------------------------------------------------
(* handleCompleteSession: the first attempt starts at once.                  *)
CompleteSession ==
  /\ open /\ completed < MaxSessions
  /\ completed' = completed + 1 /\ recording' = recording \cup {completed'}
  /\ UNCHANGED <<online, outages, open, pending, drains, requests, stored, mirror, recorded, visits, overtaken, cutOff>>

EndAttempt(s) ==
  /\ s \in recording /\ recording' = recording \ {s}
  /\ \/ /\ online /\ Record(s)
        /\ UNCHANGED <<pending, requests, stored, overtaken>>
     \/ /\ ~ online /\ Persist(Append(pending, s), "none") /\ Overtake({s})
        /\ UNCHANGED recorded
  /\ UNCHANGED <<online, outages, completed, open, drains, mirror, visits, cutOff>>

(* drainQueue, up to its first await: one drain at a time.                   *)
CanDrain_Again == open /\ pending # <<>>
CanDrain       == open /\ pending # <<>> /\ drains = {}

Drained == IF CanDrain THEN drains \cup {[left |-> pending, saving |-> FALSE]} ELSE drains

(* syncOfflineQueue, and SYNC_FOCUS_QUEUE, which the worker sends while its  *)
(* mirror of the queue is not empty.                                         *)
StartDrain ==
  /\ online /\ CanDrain /\ drains' = Drained
  /\ UNCHANGED <<online, outages, completed, open, pending, recording, requests, stored, mirror, recorded, visits, overtaken, cutOff>>

(* One session of a drain: the first failure or the last session ends it.    *)
DrainNext(d) ==
  LET left == IF online THEN Tail(d.left) ELSE d.left
      done == ~ online \/ left = <<>>
  IN  /\ ~ d.saving
      /\ IF online THEN Record(Head(d.left)) ELSE UNCHANGED recorded
      /\ drains' = (drains \ {d}) \cup {[left |-> left, saving |-> done]}
      /\ IF done THEN Persist(left, "ended") ELSE UNCHANGED <<pending, stored, requests>>
      /\ UNCHANGED <<online, outages, completed, open, recording, mirror, visits, overtaken, cutOff>>

(* What readSyncQueue found is merged into the queue, in order of time.      *)
InOrder(all) ==
  CHOOSE queue \in [1..Cardinality(all) -> all] :
    ToSet(queue) = all /\ \A i, j \in DOMAIN queue : i < j => queue[i] < queue[j]

Merged(found) == InOrder(ToSet(pending) \cup ToSet(found))

ReadMirror(found) ==
  IF Merged(found) = <<>>
  THEN requests' = Tail(requests) /\ UNCHANGED <<pending, stored, overtaken>>
  ELSE /\ pending' = Merged(found) /\ stored' = Merged(found)
       /\ requests' = Append(Tail(requests), Write(Merged(found), "drain"))
       /\ Overtake(ToSet(found) \ ToSet(pending))

(* IndexedDB serves requests in order; one that fails is passed over.  After *)
(* a write the caller goes on: the drain ends, or the first one starts.      *)
Serve(ok) ==
  LET request == Head(requests) IN
  /\ requests # <<>>
  /\ \/ /\ request.kind = "read" /\ ReadMirror(IF ok THEN mirror ELSE <<>>)
        /\ UNCHANGED <<drains, mirror>>
     \/ /\ request.kind = "write" /\ requests' = Tail(requests)
        /\ mirror' = IF ok THEN request.queue ELSE mirror
        /\ drains' = CASE request.then = "none"  -> drains
                       [] request.then = "drain" -> IF online THEN Drained ELSE drains
                       [] request.then = "ended" -> {d \in drains : ~ d.saving}
        /\ UNCHANGED <<pending, stored, overtaken>>
  /\ UNCHANGED <<online, outages, completed, open, recording, recorded, visits, cutOff>>

-----------------------------------------------------------------------------
GoOffline ==
  /\ online /\ outages < MaxOutages /\ online' = FALSE /\ outages' = outages + 1
  /\ UNCHANGED <<completed, pageVars, stored, mirror, recorded, visits, overtaken, cutOff>>

(* The event "online" drains the queue of the page that is open.             *)
GoOnline ==
  /\ ~ online /\ online' = TRUE /\ drains' = Drained
  /\ UNCHANGED <<outages, completed, open, pending, recording, requests, stored, mirror, recorded, visits, overtaken, cutOff>>

(* With the page goes all that it awaits.                                    *)
ClosePage ==
  /\ open /\ open' = FALSE
  /\ pending' = <<>> /\ recording' = {} /\ drains' = {} /\ requests' = <<>>
  /\ cutOff' = cutOff \cup recording
  /\ UNCHANGED <<online, outages, completed, stored, mirror, recorded, visits, overtaken>>

OpenPage ==
  /\ ~ open /\ visits < MaxVisits
  /\ open' = TRUE /\ visits' = visits + 1
  /\ pending' = stored /\ requests' = <<Read>>
  /\ UNCHANGED <<online, outages, completed, recording, drains, stored, mirror, recorded, overtaken, cutOff>>

QueueNext ==
  \/ CompleteSession \/ StartDrain \/ GoOffline \/ GoOnline \/ ClosePage \/ OpenPage
  \/ \E s \in Sessions : EndAttempt(s)
  \/ \E d \in drains : DrainNext(d)
  \/ \E ok \in BOOLEAN : Serve(ok)

QueueSpec == QueueInit /\ [][QueueNext]_queueVars

-----------------------------------------------------------------------------
QueueTypeOK ==
  /\ {online, open} \subseteq BOOLEAN /\ completed \in 0..MaxSessions
  /\ {pending, stored, mirror} \subseteq Seq(Sessions) /\ recording \subseteq Sessions
  /\ \A d \in drains : d.left \in Seq(Sessions) /\ d.saving \in BOOLEAN
  /\ \A s \in Sessions : recorded[s] \in Nat

(* FocusContext.tsx: "so the session settles even if the tab is closed       *)
(* before connectivity returns".  A session whose first attempt failed is    *)
(* queued, and is recorded or somewhere in localStorage, in the mirror or on *)
(* its way there.  One whose page closed during the attempt was not queued.  *)
QueuedSessionsAreKept ==
  \A s \in (1..completed) \ (recording \cup cutOff) :
    \/ recorded[s] > 0
    \/ s \in ToSet(stored) \cup ToSet(mirror)
    \/ \E i \in DOMAIN requests : requests[i].kind = "write" /\ s \in ToSet(requests[i].queue)

(* The two ways to lose a session, and no other: its page is closed before   *)
(* its first attempt ended, or it is queued during a drain, which then       *)
(* stores what is left of an older copy of the queue.                        *)
LostSessionsWereOvertaken ==
  \A s \in 1..completed \ (overtaken \cup cutOff) :
    recorded[s] > 0 \/ s \in recording \/ s \in ToSet(stored)

(* However many triggers fire together, the first visit records no session   *)
(* twice, and a later visit none more than twice: once from the queue that   *)
(* an earlier one had no time to store and once from a mirror that is older. *)
RepeatsTakeVisits == \A s \in Sessions : recorded[s] <= 2 * visits - 1
=============================================================================
