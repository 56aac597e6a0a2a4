--------------------------- MODULE DurableOutbox ---------------------------
(***************************************************************************)
(* The durable transport of the gateway: DurableOutboxSink                 *)
(* (gateway/core/durable_outbox_sink.py) over SQLiteOutbox                 *)
(* (gateway/core/durable_outbox.py), publishing through                    *)
(* JetStreamOutboxPublisher (gateway/core/jetstream.py) to a broker that   *)
(* deduplicates on the message id.                                         *)
(*                                                                         *)
(* Concurrency.  The sink is a set of asyncio tasks.  One step of this     *)
(* module is what runs between two awaits of a task, or one SQLite         *)
(* transaction of a worker thread.  `txn' is the admission that holds      *)
(* _storage_lock; the settlement and the read of a drain also need the     *)
(* lock but hold it for one step only.  A crash may fall between any two   *)
(* steps; only `rows', `lastSeq' and the broker's `stream' survive it.     *)
(*                                                                         *)
(* Left out: payload bytes (an event is a topic, an id and a body value),  *)
(* the attempts and last_error columns, metrics, and time (the coalesce    *)
(* window, retry delay and drain timeout may elapse at any moment).        *)
(***************************************************************************)
EXTENDS Integers, Sequences, FiniteSets

CONSTANTS
  Topics, EventIds, Bodies,  \* the components of an event
  Singles,       \* events given to publish
  Batches,       \* sequences of events given to publish_batch_results
  FlowBatches,   \* sequences given to publish_flow_with_watch_batch
  QueueLimit,    \* admission_queue_max_events
  GroupLimit,    \* _MAX_ADMISSION_TRANSACTION_EVENTS, also the drain's read limit
  MaxRows,       \* outbox max_bytes, in rows
  PubackLimit,   \* _MAX_CONCURRENT_PUBACKS
  MaxCalls,      \* bound: admission calls of one behaviour
  MaxFaults,     \* bound: faults of one behaviour
  FaultKinds     \* the faults a behaviour may contain

Lanes == {"live", "backfill", "watch"}

AllFaults == {"crash", "close", "disk", "publish", "settle", "read", "cancel"}

Message == [topic: Topics, id: EventIds, body: Bodies]

ASSUME ConstantsAssumption ==
  /\ "heber:watch" \in Topics
  /\ Singles \subseteq Message
  /\ Batches \subseteq Seq(Message)
  /\ FlowBatches \subseteq Seq(Message)
  /\ QueueLimit \in Nat /\ GroupLimit \in Nat \ {0} /\ MaxRows \in Nat
  /\ PubackLimit \in Nat \ {0} /\ MaxCalls \in Nat /\ MaxFaults \in Nat
  /\ FaultKinds \subseteq AllFaults

VARIABLES
  rows,          \* durable: the outbox table, a set of [seq, msg]
  lastSeq,       \* durable: the AUTOINCREMENT counter
  stream,        \* durable, at the broker: what each lane's stream stored, in order
  process,       \* "running", "closing", "closed", "timedout", "down"
  queue,         \* _admission_requests
  txn,           \* the admission holding _storage_lock, and how far it is
  orphan,        \* admission thread whose caller was cancelled
  poisoned,      \* _admission_error is not None
  drain,         \* where each lane's drain task is
  wake,          \* _wake
  settleSafe,    \* _settle_safe
  failedSeqs,    \* _failed_delivery_sequences
  degraded,      \* lane in _delivery_errors
  batch,         \* the rows each lane's drain has read and not yet settled
  sent,          \* rows of a batch handed to the broker
  stored,        \* rows the broker has answered for, the answer still on its way
  acked,         \* rows of a batch whose PubAck arrived
  failed,        \* rows of a batch whose publication failed
  told,          \* history: events some caller was told are admitted
  waiting,       \* how many callers of publish await their result
  calls, faults  \* how much of MaxCalls and MaxFaults is used

durable  == <<rows, lastSeq, stream>>
admitting == <<process, queue, txn, orphan, poisoned>>
draining == <<drain, wake, settleSafe, failedSeqs, degraded, batch>>
publishing == <<sent, stored, acked, failed>>
history  == <<told, waiting, calls, faults>>
vars == <<durable, admitting, draining, publishing, history>>

-----------------------------------------------------------------------------
(* Events, rows and lanes *)

LaneOf(topic) ==
  CASE topic = "heber:events:backfill" -> "backfill"
    [] topic = "heber:watch" -> "watch"
    [] OTHER -> "live"

Lane(r) == LaneOf(r.msg.topic)

Row == [seq: Nat, msg: Message]

(* The table's UNIQUE (topic, event_id). *)
SameKey(m, n) == m.topic = n.topic /\ m.id = n.id

(* What the broker deduplicates on: Nats-Msg-Id within the lane's stream. *)
Identity(m) == <<LaneOf(m.topic), m.id>>

Identities == Lanes \X EventIds

WatchCopy(m) == [m EXCEPT !.topic = "heber:watch"]

WithWatchCopies(b) == b \o [i \in 1..Len(b) |-> WatchCopy(b[i])]

ElementsOf(s) == {s[i] : i \in DOMAIN s}

Delivered == UNION {{Identity(r.msg) : r \in ElementsOf(stream[l])} : l \in Lanes}

Accepted == {Identity(r.msg) : r \in rows} \union Delivered

Promised == {Identity(m) : m \in told}

LaneRows(S, l) == {r \in S : Lane(r) = l}

SeqsOf(S) == {r.seq : r \in S}

(* pending(limit, lane): the oldest rows by admission order. *)
Pending(l) ==
  {r \in LaneRows(rows, l) :
     Cardinality({q \in LaneRows(rows, l) : q.seq < r.seq}) < GroupLimit}

Waiting(l) == batch[l] \ (sent \union stored \union acked \union failed)

Running == process = "running"

Alive == process \in {"running", "closing"}

LockFree == txn.phase = "none"

NoTxn == [phase |-> "none", kind |-> "none", msgs |-> <<>>]

Fault(kind) ==
  /\ kind \in FaultKinds
  /\ faults < MaxFaults
  /\ faults' = faults + 1

Call ==
  /\ calls < MaxCalls
  /\ calls' = calls + 1

-----------------------------------------------------------------------------
(* SQLiteOutbox._admit_prepared *)

(* The same key with other content, in the table or earlier in the batch. *)
Conflict(ms) ==
  \E i \in DOMAIN ms :
    \/ \E r \in rows : SameKey(r.msg, ms[i]) /\ r.msg # ms[i]
    \/ \E j \in 1..(i - 1) : SameKey(ms[j], ms[i]) /\ ms[j] # ms[i]

Unmatched(ms) == {i \in DOMAIN ms : ~ \E r \in rows : SameKey(r.msg, ms[i])}

(* A key repeated in the batch is counted each time and inserted once. *)
OverCapacity(ms) == Cardinality(rows) + Cardinality(Unmatched(ms)) > MaxRows

Inserted(ms) ==
  {i \in Unmatched(ms) : ~ \E j \in 1..(i - 1) : SameKey(ms[j], ms[i])}

Admissible(ms) == ~Conflict(ms) /\ ~OverCapacity(ms)

(* The callers of publish whose requests the transaction carries. *)
GroupCallers == IF txn.kind = "group" THEN Len(txn.msgs) ELSE 0

(* Variant: rows committed one by one, and only the first before a failure. *)
AdmitFirstOnly(ms) ==
  /\ rows' = rows \union {[seq |-> lastSeq + i, msg |-> ms[i]] : i \in Inserted(ms) \intersect {1}}
  /\ lastSeq' = lastSeq + Len(ms)

(* One transaction.  Sequence numbers only matter through their order. *)
Admit(ms) ==
  /\ rows' = rows \union {[seq |-> lastSeq + i, msg |-> ms[i]] : i \in Inserted(ms)}
  /\ lastSeq' = lastSeq + Len(ms)

-----------------------------------------------------------------------------
(* Drain tasks *)

(* _start_drain: (re)create the tasks of these lanes and wake them. *)
StartDrain(lanes) ==
  /\ drain' = [l \in Lanes |->
       IF l \in lanes /\ drain[l] \in {"off", "died"} THEN "top" ELSE drain[l]]
  /\ wake' = [l \in Lanes |-> l \in lanes \/ wake[l]]

(* The volatile state of a sink whose start() has run. *)
Fresh ==
  /\ queue' = <<>> /\ txn' = NoTxn /\ orphan' = <<>> /\ poisoned' = FALSE
  /\ wake' = [l \in Lanes |-> TRUE]
  /\ settleSafe' = [l \in Lanes |-> TRUE]
  /\ failedSeqs' = [l \in Lanes |-> {}]
  /\ degraded' = [l \in Lanes |-> FALSE]
  /\ batch' = [l \in Lanes |-> {}]
  /\ sent' = {} /\ stored' = {} /\ acked' = {} /\ failed' = {}

Init ==
  /\ rows = {} /\ lastSeq = 0 /\ stream = [l \in Lanes |-> <<>>]
  /\ process = "running"
  /\ queue = <<>> /\ txn = NoTxn /\ orphan = <<>> /\ poisoned = FALSE
  /\ drain = [l \in Lanes |-> "top"] /\ wake = [l \in Lanes |-> TRUE]
  /\ settleSafe = [l \in Lanes |-> TRUE]
  /\ failedSeqs = [l \in Lanes |-> {}] /\ degraded = [l \in Lanes |-> FALSE]
  /\ batch = [l \in Lanes |-> {}]
  /\ sent = {} /\ stored = {} /\ acked = {} /\ failed = {}
  /\ told = {} /\ waiting = 0 /\ calls = 0 /\ faults = 0

-----------------------------------------------------------------------------
(* Admission *)

(* publish: queue one event for the group commit, unless closed, poisoned  *)
(* or full.  A refused call raises and changes nothing.                    *)
Publish(m) ==
  /\ Running /\ LockFree /\ ~poisoned
  /\ Len(queue) < QueueLimit
  /\ Call
  /\ queue' = Append(queue, m)
  /\ waiting' = waiting + 1
  /\ UNCHANGED <<durable, process, txn, orphan, poisoned, draining, publishing, told, faults>>

(* Variant: callers are told True when their request is taken from the queue. *)
BeginGroupTold ==
  /\ Running /\ LockFree /\ queue # <<>>
  /\ txn' = [phase |-> "running", kind |-> "group", msgs |-> <<queue[1]>>]
  /\ queue' = Tail(queue)
  /\ told' = told \union {queue[1]}
  /\ UNCHANGED <<durable, process, orphan, poisoned, draining, publishing, waiting, calls, faults>>

(* _commit_admission_groups takes the oldest requests and starts admit_many. *)
BeginGroup ==
  /\ Running /\ LockFree /\ queue # <<>>
  /\ LET n == IF Len(queue) < GroupLimit THEN Len(queue) ELSE GroupLimit
     IN  /\ txn' = [phase |-> "running", kind |-> "group", msgs |-> SubSeq(queue, 1, n)]
         /\ queue' = SubSeq(queue, n + 1, Len(queue))
  /\ UNCHANGED <<durable, process, orphan, poisoned, draining, publishing, history>>

(* publish_batch_results and publish_flow_with_watch_batch. *)
BeginBatch(ms) ==
  /\ Running /\ LockFree /\ ~poisoned
  /\ ms # <<>> /\ Len(ms) <= GroupLimit
  /\ Call
  /\ txn' = [phase |-> "running", kind |-> "batch", msgs |-> ms]
  /\ UNCHANGED <<durable, process, queue, orphan, poisoned, draining, publishing, told, waiting,
                 faults>>

(* The worker thread commits the transaction; its caller has not resumed. *)
CommitTxn ==
  /\ txn.phase = "running" /\ Admissible(txn.msgs)
  /\ Admit(txn.msgs)
  /\ txn' = [txn EXCEPT !.phase = "committed"]
  /\ UNCHANGED <<stream, process, queue, orphan, poisoned, draining, publishing, history>>

(* The caller resumes: drains are started and callers are told True. *)
ReportCommitted ==
  /\ txn.phase = "committed"
  /\ StartDrain({LaneOf(m.topic) : m \in ElementsOf(txn.msgs)})
  /\ told' = told \union ElementsOf(txn.msgs)
  /\ waiting' = waiting - GroupCallers
  /\ txn' = NoTxn
  /\ UNCHANGED <<durable, process, queue, orphan, poisoned, settleSafe, failedSeqs,
                 degraded, batch, publishing, calls, faults>>

(* Variant: the queued callers are refused, those of the group are not. *)
RejectTxnSilently ==
  /\ txn.phase = "running"
  /\ \/ ~Admissible(txn.msgs) /\ UNCHANGED faults
     \/ Admissible(txn.msgs) /\ Fault("disk")
  /\ poisoned' = TRUE
  /\ queue' = <<>>
  /\ waiting' = waiting - Len(queue)
  /\ txn' = NoTxn
  /\ UNCHANGED <<durable, process, orphan, draining, publishing, told, calls>>

(* An integrity, capacity or disk error rolls the transaction back and     *)
(* poisons admission: the callers of the group and every queued one are    *)
(* refused, and every later one until a restart.                           *)
RejectTxn ==
  /\ txn.phase = "running"
  /\ \/ ~Admissible(txn.msgs) /\ UNCHANGED faults
     \/ Admissible(txn.msgs) /\ Fault("disk")
  /\ poisoned' = TRUE
  /\ queue' = <<>>
  /\ waiting' = waiting - Len(queue) - GroupCallers
  /\ txn' = NoTxn
  /\ UNCHANGED <<durable, process, orphan, draining, publishing, told, calls>>

(* The task of a batch caller is cancelled while it awaits the worker      *)
(* thread.  The lock is released, no drain is started, and the thread may  *)
(* still be running.                                                       *)
CancelBatch ==
  /\ txn.phase \in {"running", "committed"} /\ txn.kind = "batch"
  /\ orphan = <<>>
  /\ Fault("cancel")
  /\ orphan' = IF txn.phase = "running" THEN txn.msgs ELSE <<>>
  /\ txn' = NoTxn
  /\ UNCHANGED <<durable, process, queue, poisoned, draining, publishing, told, waiting, calls>>

(* The abandoned thread finishes: it commits, or it never ran or failed. *)
OrphanEnds ==
  /\ Alive /\ orphan # <<>>
  /\ \/ Admissible(orphan) /\ Admit(orphan)
     \/ UNCHANGED <<rows, lastSeq>>
  /\ orphan' = <<>>
  /\ UNCHANGED <<stream, process, queue, txn, poisoned, draining, publishing, history>>

-----------------------------------------------------------------------------
(* One iteration of _drain(lane) *)

(* The wake flag is cleared before the table is read: an admission that    *)
(* commits after the read sets it again.                                   *)
ClearWake(l) ==
  /\ Alive /\ drain[l] = "top"
  /\ wake' = [wake EXCEPT ![l] = FALSE]
  /\ drain' = [drain EXCEPT ![l] = "reading"]
  /\ UNCHANGED <<durable, admitting, settleSafe, failedSeqs, degraded, batch, publishing, history>>

ReadPending(l) ==
  /\ Alive /\ drain[l] = "reading" /\ LockFree
  /\ batch' = [batch EXCEPT ![l] = Pending(l)]
  /\ drain' = [drain EXCEPT ![l] =
       CASE Pending(l) # {} -> "publishing"
         [] Pending(l) = {} /\ process = "closing" -> "off"
         [] OTHER -> "parked"]
  /\ UNCHANGED <<durable, admitting, wake, settleSafe, failedSeqs, degraded, publishing, history>>

(* The read raises: nothing catches it, and the task ends. *)
ReadRaises(l) ==
  /\ Alive /\ drain[l] = "reading" /\ LockFree
  /\ Fault("read")
  /\ drain' = [drain EXCEPT ![l] = "died"]
  /\ UNCHANGED <<durable, admitting, wake, settleSafe, failedSeqs, degraded, batch,
                 publishing, told, waiting, calls>>

WakeUp(l) ==
  /\ Alive /\ drain[l] = "parked" /\ wake[l]
  /\ drain' = [drain EXCEPT ![l] = "top"]
  /\ UNCHANGED <<durable, admitting, wake, settleSafe, failedSeqs, degraded, batch,
                 publishing, history>>

(* _publish_with_puback takes a permit of the semaphore all lanes share, in *)
(* the order of the batch, and hands the row to the broker.                *)
Send(r) ==
  /\ Alive /\ r \in Waiting(Lane(r))
  /\ \A q \in Waiting(Lane(r)) : r.seq <= q.seq
  /\ Cardinality(sent \union stored) < PubackLimit
  /\ sent' = sent \union {r}
  /\ UNCHANGED <<durable, admitting, draining, stored, acked, failed, history>>

(* The broker stores a row, or recognises its message id and stores nothing; *)
(* in both cases it will answer with a PubAck.  One connection keeps order. *)
BrokerStore(r) ==
  /\ r \in sent
  /\ \A q \in LaneRows(sent, Lane(r)) : r.seq <= q.seq
  /\ sent' = sent \ {r}
  /\ stored' = stored \union {r}
  /\ stream' = IF Identity(r.msg) \in Delivered THEN stream
               ELSE [stream EXCEPT ![Lane(r)] = Append(@, r)]
  /\ UNCHANGED <<rows, lastSeq, admitting, draining, acked, failed, history>>

(* The PubAck arrives: until the row is settled a shutdown has to wait. *)
Ack(r) ==
  /\ Alive /\ r \in stored
  /\ stored' = stored \ {r}
  /\ acked' = acked \union {r}
  /\ settleSafe' = [settleSafe EXCEPT ![Lane(r)] = FALSE]
  /\ UNCHANGED <<durable, admitting, drain, wake, failedSeqs, degraded, batch, sent,
                 failed, history>>

(* The publisher raises or returns False: the row may or may not have been *)
(* stored.  The lane is marked degraded at once.                           *)
PublishFails(r) ==
  /\ Alive /\ r \in sent \union stored
  /\ Fault("publish")
  /\ sent' = sent \ {r}
  /\ stored' = stored \ {r}
  /\ failed' = failed \union {r}
  /\ failedSeqs' = [failedSeqs EXCEPT ![Lane(r)] = @ \union {r.seq}]
  /\ degraded' = [degraded EXCEPT ![Lane(r)] = TRUE]
  /\ UNCHANGED <<durable, admitting, drain, wake, settleSafe, batch, acked, told,
                 waiting, calls>>

(* Every row of the batch has an outcome. *)
Answered(l) == drain[l] = "publishing" /\ batch[l] \subseteq acked \union failed

(* Variant: the outcomes of the batch are not discarded. *)
EndBatchKeepingOutcomes(l) ==
  /\ batch' = [batch EXCEPT ![l] = {}]
  /\ settleSafe' = [settleSafe EXCEPT ![l] = TRUE]
  /\ drain' = [drain EXCEPT ![l] = "top"]
  /\ UNCHANGED <<lastSeq, stream, admitting, wake, sent, stored, acked, failed, told, waiting,
                 calls>>

EndBatch(l) ==
  /\ batch' = [batch EXCEPT ![l] = {}]
  /\ acked' = acked \ batch[l]
  /\ failed' = failed \ batch[l]
  /\ settleSafe' = [settleSafe EXCEPT ![l] = TRUE]
  /\ drain' = [drain EXCEPT ![l] = "top"]
  /\ UNCHANGED <<lastSeq, stream, admitting, wake, sent, stored, told, waiting, calls>>

SettleWith(l, deleted, recovered) ==
  /\ Alive /\ LockFree /\ Answered(l)
  /\ rows' = rows \ deleted
  /\ failedSeqs' = [failedSeqs EXCEPT ![l] = @ \ SeqsOf(recovered)]
  /\ degraded' = [degraded EXCEPT ![l] = @ /\ failedSeqs'[l] # {}]
  /\ EndBatch(l)
  /\ UNCHANGED faults

(* Variant: the whole batch is deleted, whatever its outcomes. *)
SettleWholeBatch(l) == SettleWith(l, batch[l], batch[l])

(* settle_publications deletes the acknowledged rows in one transaction,   *)
(* and the lane is healthy again once no failed row is left.               *)
Settle(l) == SettleWith(l, batch[l] \intersect acked, batch[l] \intersect acked)

(* The settlement transaction fails: every row of the batch is kept. *)
SettleRaises(l) ==
  /\ Alive /\ LockFree /\ Answered(l)
  /\ Fault("settle")
  /\ failedSeqs' = [failedSeqs EXCEPT ![l] = @ \union SeqsOf(batch[l])]
  /\ degraded' = [degraded EXCEPT ![l] = TRUE]
  /\ EndBatch(l)
  /\ UNCHANGED rows

-----------------------------------------------------------------------------
(* Shutdown, crash and restart *)

(* close(): refuse queued callers, then wake parked drains. *)
BeginClose ==
  /\ Running /\ LockFree
  /\ Fault("close")
  /\ process' = "closing"
  /\ queue' = <<>>
  /\ waiting' = waiting - Len(queue)
  /\ wake' = [l \in Lanes |-> TRUE]
  /\ UNCHANGED <<durable, txn, orphan, poisoned, drain, settleSafe, failedSeqs, degraded,
                 batch, publishing, told, calls>>

StopDrains ==
  /\ drain' = [l \in Lanes |-> "off"]
  /\ batch' = [l \in Lanes |-> {}]
  /\ sent' = {} /\ stored' = {} /\ acked' = {} /\ failed' = {}
  /\ orphan' = <<>>

(* Variant: the drains are cancelled without looking at the lanes. *)
CancelDrainsAtOnce ==
  /\ process = "closing"
  /\ process' = "closed"
  /\ StopDrains
  /\ UNCHANGED <<durable, queue, txn, poisoned, wake, settleSafe, failedSeqs, degraded, history>>

(* Every lane is seen safe and, with no await in between, cancelled. *)
CancelDrains ==
  /\ process = "closing" /\ \A l \in Lanes : settleSafe[l]
  /\ process' = "closed"
  /\ StopDrains
  /\ UNCHANGED <<durable, queue, txn, poisoned, wake, settleSafe, failedSeqs, degraded, history>>

(* drain_shutdown_timeout_seconds runs out with a lane still unsafe. *)
CloseTimesOut ==
  /\ process = "closing" /\ \E l \in Lanes : ~settleSafe[l]
  /\ process' = "timedout"
  /\ StopDrains
  /\ UNCHANGED <<durable, queue, txn, poisoned, wake, settleSafe, failedSeqs, degraded, history>>

(* The process dies: whatever is not in SQLite or at the broker is gone. *)
Crash ==
  /\ Alive
  /\ Fault("crash")
  /\ process' = "down"
  /\ drain' = [l \in Lanes |-> "off"]
  /\ Fresh
  /\ waiting' = 0
  /\ UNCHANGED <<durable, told, calls>>

(* Variant: the new process waits for an admission before it drains. *)
RestartIdle ==
  /\ ~Alive
  /\ process' = "running"
  /\ drain' = [l \in Lanes |-> "off"]
  /\ Fresh
  /\ UNCHANGED <<durable, history>>

(* A new process opens the same file and start() drains what it finds. *)
Restart ==
  /\ ~Alive
  /\ process' = "running"
  /\ drain' = [l \in Lanes |-> "top"]
  /\ Fresh
  /\ UNCHANGED <<durable, history>>

-----------------------------------------------------------------------------

AdmissionStep ==
  \/ \E m \in Singles : Publish(m)
  \/ \E b \in Batches : BeginBatch(b)
  \/ \E b \in FlowBatches : BeginBatch(WithWatchCopies(b))
  \/ BeginGroup \/ CommitTxn \/ ReportCommitted \/ RejectTxn
  \/ CancelBatch \/ OrphanEnds

LaneStep(l) ==
  \/ ClearWake(l) \/ ReadPending(l) \/ ReadRaises(l) \/ WakeUp(l)
  \/ Settle(l) \/ SettleRaises(l)

RowStep(r) == Send(r) \/ BrokerStore(r) \/ Ack(r) \/ PublishFails(r)

ProcessStep == BeginClose \/ CancelDrains \/ CloseTimesOut \/ Crash \/ Restart

Next ==
  \/ AdmissionStep
  \/ \E l \in Lanes : LaneStep(l)
  \/ \E r \in rows : RowStep(r)
  \/ ProcessStep

Spec == Init /\ [][Next]_vars

(* Scheduling the event loop, SQLite and the container's restart policy     *)
(* provide: every enabled task step is eventually run, and every publish   *)
(* is eventually answered.                                                 *)
SinkFairness ==
  /\ WF_vars(BeginGroup) /\ WF_vars(CommitTxn) /\ WF_vars(ReportCommitted)
  /\ WF_vars(RejectTxn /\ UNCHANGED faults) /\ WF_vars(OrphanEnds)
  /\ \A l \in Lanes :
       /\ WF_vars(ClearWake(l)) /\ WF_vars(ReadPending(l)) /\ WF_vars(WakeUp(l))
       /\ WF_vars(Settle(l))
       /\ WF_vars(\E r \in rows : Lane(r) = l /\ Send(r))
  /\ WF_vars(CancelDrains) /\ WF_vars(CloseTimesOut) /\ WF_vars(Restart)

(* The broker answers every publish of this lane. *)
LaneAnswered(l) ==
  /\ WF_vars(\E r \in rows : Lane(r) = l /\ BrokerStore(r))
  /\ WF_vars(\E r \in rows : Lane(r) = l /\ Ack(r))

FairSpec == Spec /\ SinkFairness /\ \A l \in Lanes : LaneAnswered(l)

-----------------------------------------------------------------------------
(* Properties *)

TypeOK ==
  /\ rows \subseteq Row
  /\ lastSeq \in Nat
  /\ stream \in [Lanes -> Seq(Row)]
  /\ process \in {"running", "closing", "closed", "timedout", "down"}
  /\ queue \in Seq(Message)
  /\ txn \in [phase: {"none", "running", "committed"}, kind: {"none", "group", "batch"},
              msgs: Seq(Message)]
  /\ orphan \in Seq(Message)
  /\ poisoned \in BOOLEAN
  /\ drain \in [Lanes -> {"off", "died", "top", "reading", "parked", "publishing"}]
  /\ wake \in [Lanes -> BOOLEAN]
  /\ settleSafe \in [Lanes -> BOOLEAN]
  /\ failedSeqs \in [Lanes -> SUBSET Nat]
  /\ degraded \in [Lanes -> BOOLEAN]
  /\ batch \in [Lanes -> SUBSET rows]
  /\ sent \subseteq rows /\ stored \subseteq rows
  /\ acked \subseteq rows /\ failed \subseteq rows
  /\ told \subseteq Message
  /\ waiting \in Nat
  /\ calls \in 0..MaxCalls /\ faults \in 0..MaxFaults

(* An event whose producer was told True is still in SQLite or has its      *)
(* identity at the broker, whatever crashed, closed, timed out or failed    *)
(* in between: publish and the batch calls return only after the commit,    *)
(* and settle_publications deletes only acknowledged rows.                  *)
NothingLost == Promised \subseteq Accepted

(* publish_flow_with_watch_batch admits the writer copy and the watch copy  *)
(* in one transaction: at no moment, a crash or a cancelled caller           *)
(* included, is one of them durable without the other.  It is said of flow  *)
(* records whose message ids are published under in flow batches only, and  *)
(* to one writer lane; an event that is also published alone is accepted    *)
(* alone.                                                                   *)
Unpaired == Singles \union UNION {ElementsOf(b) : b \in Batches}

FlowEvents == UNION {ElementsOf(b) : b \in FlowBatches}

FlowOnly ==
  {m \in FlowEvents :
     /\ \A n \in Unpaired : Identity(n) \notin {Identity(m), Identity(WatchCopy(m))}
     /\ \A n \in FlowEvents : n.id = m.id => LaneOf(n.topic) = LaneOf(m.topic)}

FlowPairAtomic ==
  \A m \in FlowOnly : Identity(m) \in Accepted <=> Identity(WatchCopy(m)) \in Accepted

(* A row is deleted only after the broker stored its identity: the drain    *)
(* never settles a row it did not publish, nor one whose publication failed *)
(* without being stored.                                                    *)
DeletedOnlyWhenDelivered ==
  [][\A r \in rows : r \notin rows' => Identity(r.msg) \in Delivered]_vars

(* close() that saw every lane safe abandons no acknowledgement: the drains *)
(* it cancels hold no row that was acknowledged and not settled.            *)
CloseKeepsAcks == [][process = "closing" /\ process' = "closed" => acked = {}]_vars

(* A lane has a delivery error exactly while rows whose publication or      *)
(* settlement failed since the start of the process are in the table, so    *)
(* the error goes when the last of them is delivered.  transport_status     *)
(* also reports a lane degraded while the broker is disconnected, and       *)
(* forgets at a restart which rows had failed; neither is meant here.       *)
ErrorHasFailedRows ==
  \A l \in Lanes :
    /\ degraded[l] <=> failedSeqs[l] # {}
    /\ failedSeqs[l] \subseteq SeqsOf(LaneRows(rows, l))

(* No caller of publish is forgotten: its request is in the queue or in the *)
(* transaction, or it has its result.                                       *)
CallersCounted == waiting = Len(queue) + GroupCallers

(* The abstract promise, kept by the real state: what is in the table or at *)
(* the broker is accepted.                                                  *)
Abstract == INSTANCE OutboxPromise WITH
  accepted <- Accepted, promised <- Promised, delivered <- Delivered

ImplementsPromise == Abstract!Spec

(* Every event a producer was told is admitted reaches the broker, also     *)
(* after publication and settlement failures, crashes and cancelled calls.  *)
EventuallyDelivered == Abstract!PromiseKept

(* Every caller of publish is answered, with True or an exception: the     *)
(* queue is refused when admission is poisoned or the sink closed, and the *)
(* callers of a group when their transaction has ended.  (A moment without *)
(* waiting callers is one at which each earlier one has been answered, or  *)
(* has ended with the process in a crash.)                                 *)
CallersAnswered == waiting # 0 ~> waiting = 0

=============================================================================
