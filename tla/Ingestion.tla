------------------------------- MODULE Ingestion -------------------------------
(*****************************************************************************)
(* How the backend follows the contracts (meridian-api): a timer starts a    *)
(* poll every 30 seconds whether or not the last one has ended; a poll reads *)
(* the new blocks, appends their events to a hash chain in the database and  *)
(* hands them to a queue in memory, from which one worker sends them to the  *)
(* webhooks.  A failed delivery is tried again later and given up after some *)
(* attempts.  The process is one thread: a step is what runs between two     *)
(* awaits.  A hash is the sequence of events it commits to.                  *)
(*****************************************************************************)
EXTENDS Integers, Sequences, SequencesExt

CONSTANTS
  Blocks,        \* the events of each block: a sequence of sequences of [tx, name]
  Polls,         \* polls that may run at a time
  Hooks,         \* webhooks, each for every event
  RetryMax,      \* WEBHOOK_RETRY_MAX
  MaxRestarts    \* bound

ASSUME IngestionAssumption ==
  /\ Blocks \in Seq(Seq([tx : STRING, name : STRING]))
  /\ RetryMax \in Nat \ {0} /\ MaxRestarts \in Nat

NoJob    == [attempt |-> -1]
IdlePoll == [at |-> "idle"]

VARIABLES
  chainHead,         \* the latest block the RPC provider knows
  lastPolledBlock,
  polls,             \* where each running poll awaits, and with what
  auditLog,          \* the CONTRACT_EVENT rows, by id
  webhooks,          \* status of each: "none", "active", "dead" or "purged"
  queue, sending,    \* the queue, and the job the worker awaits an answer to
  retries,           \* jobs whose timer runs
  failed, accepted,  \* history: events passed over for an error; acceptances recorded
  restarts

pollVars   == <<lastPolledBlock, polls>>
jobVars    == <<queue, sending, retries>>
ingestVars == <<chainHead, pollVars, auditLog, webhooks, jobVars, failed, accepted, restarts>>

IngestInit ==
  /\ chainHead = 0 /\ lastPolledBlock = 0 /\ polls = [p \in Polls |-> IdlePoll]
  /\ auditLog = <<>> /\ webhooks = [h \in Hooks |-> "none"]
  /\ queue = <<>> /\ sending = NoJob /\ retries = {}
  /\ failed = {} /\ accepted = {} /\ restarts = 0

EventsIn(first, last) == FlattenSeq(SubSeq(Blocks, first, last))

At(p, place) == polls[p].at = place
Await(p, state) == polls' = [polls EXCEPT ![p] = state]

NewBlock ==
  /\ chainHead < Len(Blocks) /\ chainHead' = chainHead + 1
  /\ UNCHANGED <<pollVars, auditLog, webhooks, jobVars, failed, accepted, restarts>>

-----------------------------------------------------------------------------
(* pollContractEvents, from one await to the next.                           *)
AskLatest(p) ==
  /\ At(p, "idle") /\ Await(p, [at |-> "checking", to |-> chainHead])
  /\ UNCHANGED <<chainHead, lastPolledBlock, auditLog, webhooks, jobVars, failed, accepted, restarts>>

CheckLatest(p) ==
  /\ At(p, "checking")
  /\ Await(p, IF polls[p].to <= lastPolledBlock THEN IdlePoll
              ELSE [at |-> "fetching", from |-> lastPolledBlock + 1, to |-> polls[p].to])
  /\ UNCHANGED <<chainHead, lastPolledBlock, auditLog, webhooks, jobVars, failed, accepted, restarts>>

(* The provider may refuse either call: the poll ends and nothing is polled. *)
PollFails(p) ==
  /\ At(p, "checking") \/ At(p, "fetching")
  /\ Await(p, IdlePoll)
  /\ UNCHANGED <<chainHead, lastPolledBlock, auditLog, webhooks, jobVars, failed, accepted, restarts>>

Continue_ToTheHead(p, rest) ==
  IF rest = <<>> THEN Await(p, IdlePoll) /\ lastPolledBlock' = chainHead
  ELSE Await(p, [at |-> "reading", to |-> polls[p].to, rest |-> rest])
       /\ UNCHANGED lastPolledBlock

(* The loop's next round, or its end: the last to end sets lastPolledBlock,  *)
(* to an earlier block if it started earlier.                                *)
Continue(p, rest) ==
  IF rest = <<>> THEN Await(p, IdlePoll) /\ lastPolledBlock' = polls[p].to
  ELSE Await(p, [at |-> "reading", to |-> polls[p].to, rest |-> rest])
       /\ UNCHANGED lastPolledBlock

FetchEvents(p) ==
  /\ At(p, "fetching") /\ Continue(p, EventsIn(polls[p].from, polls[p].to))
  /\ UNCHANGED <<chainHead, auditLog, webhooks, jobVars, failed, accepted, restarts>>

TailHash == IF auditLog = <<>> THEN <<>> ELSE Last(auditLog).chainHash

ReadTail(p) ==
  /\ At(p, "reading")
  /\ Await(p, [at |-> "saving", to |-> polls[p].to, rest |-> polls[p].rest, previousHash |-> TailHash])
  /\ UNCHANGED <<chainHead, lastPolledBlock, auditLog, webhooks, jobVars, failed, accepted, restarts>>

(* The column txHash is unique: a second event of a transaction is refused   *)
(* as the first is when it is read again.                                    *)
IsLogged(e) == \E i \in DOMAIN auditLog : auditLog[i].event.tx = e.tx

SaveEntry(p) ==
  LET e == Head(polls[p].rest) IN
  /\ At(p, "saving") /\ ~ IsLogged(e)
  /\ auditLog' = Append(auditLog, [event |-> e, previousHash |-> polls[p].previousHash,
                                   chainHash |-> Append(polls[p].previousHash, e)])
  /\ Await(p, [at |-> "resolving", to |-> polls[p].to, rest |-> polls[p].rest])
  /\ UNCHANGED <<chainHead, lastPolledBlock, webhooks, jobVars, failed, accepted, restarts>>

(* A query fails: the event is passed over, and so are its deliveries.       *)
EventFails(p) ==
  /\ polls[p].at \in {"reading", "saving", "resolving", "enqueuing"}
  /\ failed' = failed \cup {Head(polls[p].rest)}
  /\ Continue(p, Tail(polls[p].rest))
  /\ UNCHANGED <<chainHead, auditLog, webhooks, jobVars, accepted, restarts>>

(* enqueueForEvent: the webhooks are found first; the secret of each is      *)
(* decrypted, which awaits, before its job is queued.                        *)
Enqueuing(p, hooks) ==
  IF hooks = {} THEN Continue(p, Tail(polls[p].rest))
  ELSE Await(p, [at |-> "enqueuing", to |-> polls[p].to, rest |-> polls[p].rest, hooks |-> hooks])
       /\ UNCHANGED lastPolledBlock

ResolveWebhooks(p) ==
  /\ At(p, "resolving") /\ Enqueuing(p, {h \in Hooks : webhooks[h] = "active"})
  /\ UNCHANGED <<chainHead, auditLog, webhooks, jobVars, failed, accepted, restarts>>

EnqueueJob(p, h) ==
  /\ At(p, "enqueuing") /\ h \in polls[p].hooks
  /\ queue' = Append(queue, [hook |-> h, event |-> Head(polls[p].rest), attempt |-> 0])
  /\ Enqueuing(p, polls[p].hooks \ {h})
  /\ UNCHANGED <<chainHead, auditLog, webhooks, sending, retries, failed, accepted, restarts>>

-----------------------------------------------------------------------------
SendNext_Peeks ==
  /\ sending = NoJob /\ queue # <<>>
  /\ sending' = Head(queue) /\ UNCHANGED queue
  /\ UNCHANGED <<chainHead, pollVars, auditLog, webhooks, retries, failed, accepted, restarts>>

(* The worker: drain sends one job at a time.                                *)
SendNext ==
  /\ sending = NoJob /\ queue # <<>>
  /\ sending' = Head(queue) /\ queue' = Tail(queue)
  /\ UNCHANGED <<chainHead, pollVars, auditLog, webhooks, retries, failed, accepted, restarts>>

Accepted ==
  /\ sending # NoJob /\ sending' = NoJob
  /\ accepted' = accepted \cup {<<sending.hook, sending.event>>}
  /\ UNCHANGED <<chainHead, pollVars, auditLog, webhooks, queue, retries, failed, restarts>>

(* handleFailure: the answer was not ok, none came in five seconds, or it    *)
(* could not be recorded.  The webhook is dead-lettered with the last attempt*)
(* of a job; its other jobs go on, and no retry asks what became of it.  If  *)
(* the database fails here as well the job is gone, and the process is about *)
(* to end: main.ts shuts it down when a rejection is not handled.            *)
Refused ==
  LET next == sending.attempt + 1 IN
  /\ sending # NoJob /\ sending' = NoJob
  /\ \/ /\ next >= RetryMax
        /\ webhooks' = [webhooks EXCEPT ![sending.hook] = IF @ = "purged" THEN @ ELSE "dead"]
        /\ UNCHANGED retries
     \/ /\ next < RetryMax
        /\ retries' = retries \cup {[sending EXCEPT !.attempt = next]}
        /\ UNCHANGED webhooks
     \/ restarts < MaxRestarts /\ UNCHANGED <<webhooks, retries>>
  /\ UNCHANGED <<chainHead, pollVars, auditLog, queue, failed, accepted, restarts>>

RetryTimer ==
  /\ \E job \in retries : queue' = Append(queue, job) /\ retries' = retries \ {job}
  /\ UNCHANGED <<chainHead, pollVars, auditLog, webhooks, sending, failed, accepted, restarts>>

-----------------------------------------------------------------------------
SetWebhook(h, old, new) ==
  /\ webhooks[h] = old /\ webhooks' = [webhooks EXCEPT ![h] = new]
  /\ UNCHANGED <<chainHead, pollVars, auditLog, jobVars, failed, accepted, restarts>>

RegisterWebhook(h) == SetWebhook(h, "none", "active")
Replay(h)          == SetWebhook(h, "dead", "active")
PurgeDlq(h)        == SetWebhook(h, "dead", "purged")

(* The process ends and starts again: what is not in the database is lost,   *)
(* the block polled last too.                                                *)
Restart ==
  /\ restarts < MaxRestarts /\ restarts' = restarts + 1
  /\ lastPolledBlock' = 0 /\ polls' = [p \in Polls |-> IdlePoll]
  /\ queue' = <<>> /\ sending' = NoJob /\ retries' = {}
  /\ UNCHANGED <<chainHead, auditLog, webhooks, failed, accepted>>

IngestNext ==
  \/ NewBlock \/ Restart
  \/ \E p \in Polls :
       \/ AskLatest(p) \/ CheckLatest(p) \/ FetchEvents(p) \/ PollFails(p)
       \/ ReadTail(p) \/ SaveEntry(p) \/ ResolveWebhooks(p) \/ EventFails(p)
       \/ \E h \in Hooks : EnqueueJob(p, h)
  \/ SendNext \/ Accepted \/ Refused \/ RetryTimer
  \/ \E h \in Hooks : RegisterWebhook(h) \/ Replay(h) \/ PurgeDlq(h)

IngestSpec == IngestInit /\ [][IngestNext]_ingestVars

-----------------------------------------------------------------------------
Jobs == ToSet(queue) \cup retries \cup (IF sending = NoJob THEN {} ELSE {sending})

IngestTypeOK ==
  /\ chainHead \in 0..Len(Blocks) /\ lastPolledBlock \in 0..chainHead
  /\ \A p \in Polls : polls[p].at \in
       {"idle", "checking", "fetching", "reading", "saving", "resolving", "enqueuing"}
  /\ \A h \in Hooks : webhooks[h] \in {"none", "active", "dead", "purged"}
  /\ \A job \in Jobs : job.attempt \in 0..RetryMax - 1

(* Overlapping polls and polls that fail half way leave no gap: every event  *)
(* of the blocks that count as polled is in the log, with the other events   *)
(* of its transaction or not, or its ingestion failed and said so.           *)
PolledIsIngested ==
  \A i \in 1..Len(EventsIn(1, lastPolledBlock)) :
    LET e == EventsIn(1, lastPolledBlock)[i] IN IsLogged(e) \/ e \in failed

(* However many polls read an event, and after any restart, a webhook has    *)
(* one job for it at a time, and none once its acceptance is recorded.       *)
EventsAreSentOnce ==
  /\ Cardinality({<<job.hook, job.event>> : job \in Jobs})
       = Len(queue) + Cardinality(retries) + (IF sending = NoJob THEN 0 ELSE 1)
  /\ \A job \in Jobs : <<job.hook, job.event>> \notin accepted

(* verifyHashChain: every entry commits to the one before it, so that a      *)
(* broken chain tells that somebody tampered with the log.                   *)
HashChainIsWhole ==
  \A i \in DOMAIN auditLog :
    auditLog[i].previousHash = IF i = 1 THEN <<>> ELSE auditLog[i - 1].chainHash
=============================================================================
