---------------------------- MODULE SinkDispatch ----------------------------
(***************************************************************************)
(* The dispatch of events to the volatile sink: DataSinkRegistry           *)
(* (gateway/core/data_sink.py) with its bounded queue and worker pool, the *)
(* circuit breaker of the sink (module CircuitBreaker), and                *)
(* RedisStreamsSink (gateway/core/redis_sink.py) with its client, retries  *)
(* and buffer of failed events.                                            *)
(*                                                                         *)
(* A step is what a task does between two awaits.  The queue, the breaker  *)
(* and the buffer never suspend, so taking an item and passing the breaker *)
(* is one step, and so is a failure with the reset, the buffering and the  *)
(* breaker's outcome.  A Redis command and its reply are one step; a       *)
(* command that fails may have been carried out.                           *)
(*                                                                         *)
(* A client that is replaced drops its connections: commands under way on  *)
(* it fail.  `onClient' is the set of tasks whose command uses the client  *)
(* of the moment, which is all the code asks when it compares clients.     *)
(*                                                                         *)
(* Left out: sinks that admit durably (module DurableOutbox), the chunks   *)
(* of a batch and of a drain (a drain sends one event at a time), reset of *)
(* the breaker, health checks, backoff times, metrics.                     *)
(***************************************************************************)
EXTENDS Integers, Sequences, FiniteSets

CONSTANTS
  Events,
  Singles,            \* events given to publish_all
  Batches,            \* sequences of events publish_all_batch_results may be given
  Workers,            \* the sink's worker tasks
  Poller,             \* the task that publishes batches
  Sentinel,           \* _SHUTDOWN_SENTINEL, also no event
  QueueSize,          \* data_sink_queue_size
  BufferSize,         \* data_sink_failed_buffer_capacity
  Attempts,           \* PUBLISH_RETRY_ATTEMPTS
  FailureThreshold, SuccessThreshold,
  MaxFailures,        \* bound: calls of the breaker that fail or are cancelled
  MaxCalls,           \* bound: calls of the registry
  MaxFaults,          \* bound: faults of one behaviour
  FaultKinds          \* the faults a behaviour may contain

AllFaults == {"outage", "timeout", "item", "cancel", "close"}

ASSUME DispatchAssumption ==
  /\ Singles \subseteq Events /\ Batches \subseteq Seq(Events)
  /\ Sentinel \notin Events /\ Poller \notin Workers
  /\ Workers # {} /\ IsFiniteSet(Workers)
  /\ QueueSize \in Nat \ {0} /\ BufferSize \in Nat \ {0} /\ Attempts \in Nat \ {0}
  /\ MaxCalls \in Nat /\ MaxFaults \in Nat /\ FaultKinds \subseteq AllFaults
  /\ FailureThreshold \in Nat \ {0} /\ SuccessThreshold \in Nat \ {0}
  /\ MaxFailures \in Nat /\ MaxFailures >= MaxCalls   \* every call may fail

VARIABLES
  state, failureCount, successCount, windowOver, slot, caller,
  failures,      \* the breaker, and how much of MaxFailures is used
  phase,         \* "running", and the stages of shutdown: see Shutdown
  stops,         \* sentinels drain_queues has still to put
  cancelled,     \* drain_queues has cancelled the workers
  keys,          \* Redis: event ids taken in the dedup cache
  waiting,       \* events whose producer is blocked in queue.put
  queue,         \* the sink's asyncio.Queue
  worker,        \* where each worker is
  poller,        \* where the batch of the poller is
  up,            \* Redis answers
  written,       \* Redis: events in the stream
  connected,     \* _redis is not None
  everReset,     \* _reconnect_cooldown_until > 0
  onClient,      \* tasks whose command runs on the present client
  buffer,        \* _failed_buffer
  drainTasks,    \* drain tasks created that have not begun
  drains,        \* the running drain, and the one close() runs itself
  accepted,      \* history: events publish_all or a failed batch took charge of
  again,         \* history: events accepted more than once
  confirmed,     \* history: events a batch caller was told are published
  evicted,       \* history: events pushed out of the full buffer
  cut,           \* history: events of a drain that close() cancelled
  calls, faults  \* how much of MaxCalls and MaxFaults is used

breaker  == <<state, failureCount, successCount, windowOver, slot, caller, failures>>
shutdown == <<phase, stops, cancelled>>
registry == <<keys, waiting, queue, worker, poller>>
redis    == <<up, written>>
client   == <<connected, everReset, onClient>>
spilled  == <<buffer, evicted>>
draining == <<drainTasks, drains, cut>>
promises == <<accepted, again, confirmed>>
vars == <<breaker, shutdown, registry, redis, client, spilled, draining, promises, calls, faults>>

Callers == Workers \union {Poller}

B == INSTANCE CircuitBreaker WITH MaxFaults <- MaxFailures, faults <- failures

ElementsOf(s) == {s[i] : i \in DOMAIN s}

Occurrences(e, s) == Cardinality({i \in DOMAIN s : s[i] = e})

Repeated(s) == {e \in ElementsOf(s) : Occurrences(e, s) > 1}

Resting == [at |-> "get", event |-> Sentinel, attempts |-> 0]

Stopped == [Resting EXCEPT !.at = "stopped"]

NoBatch == [at |-> "idle", batch |-> <<>>, retried |-> FALSE]

NoDrain == [active |-> FALSE, left |-> <<>>, failed |-> <<>>]

DrainHolds(d) == ElementsOf(drains[d].left) \union ElementsOf(drains[d].failed)

Init ==
  /\ B!Init
  /\ phase = "running" /\ stops = 0 /\ cancelled = FALSE
  /\ keys = {} /\ waiting = {} /\ queue = <<>>
  /\ worker = [w \in Workers |-> Resting] /\ poller = NoBatch
  /\ up = TRUE /\ written = {}
  /\ connected = FALSE /\ everReset = FALSE /\ onClient = {}
  /\ buffer = <<>> /\ drainTasks = 0
  /\ drains = [d \in {"background", "final"} |-> NoDrain]
  /\ accepted = {} /\ again = {} /\ confirmed = {} /\ evicted = {} /\ cut = {}
  /\ calls = 0 /\ faults = 0

Fault(kind) ==
  /\ kind \in FaultKinds
  /\ faults < MaxFaults
  /\ faults' = faults + 1

Call ==
  /\ calls < MaxCalls
  /\ calls' = calls + 1

Accept(es) ==
  /\ accepted' = accepted \union ElementsOf(es)
  /\ again' = again \union (accepted \intersect ElementsOf(es)) \union Repeated(es)

-----------------------------------------------------------------------------
(* RedisStreamsSink: client and buffer *)

(* _buffer_failed_event for each of es: a full buffer evicts its oldest. *)
Spill(es) ==
  LET all == buffer \o es
      over == IF Len(all) > BufferSize THEN Len(all) - BufferSize ELSE 0
  IN  /\ buffer' = SubSeq(all, over + 1, Len(all))
      /\ evicted' = evicted \union ElementsOf(SubSeq(all, 1, over))

(* _ensure_connected: a new client is made without asking Redis; one that   *)
(* replaces a client that was reset creates a drain task.                   *)
Connect(t) ==
  /\ connected' = TRUE
  /\ onClient' = onClient \union {t}
  /\ drainTasks' = IF ~connected /\ everReset /\ buffer # <<>> THEN drainTasks + 1 ELSE drainTasks
  /\ UNCHANGED <<everReset, drains, cut>>

(* _reset_connection, unless the client of the failed command is already   *)
(* replaced.                                                               *)
ResetFor(t) ==
  IF t \in onClient
  THEN connected' = FALSE /\ onClient' = {} /\ everReset' = TRUE
  ELSE UNCHANGED client

Release(t) ==
  /\ onClient' = onClient \ {t}
  /\ UNCHANGED <<connected, everReset>>

(* schedule_drain, from a registry whose queue is full. *)
ScheduleDrain ==
  drainTasks' = IF connected THEN drainTasks + 1 ELSE drainTasks

(* A command of t fails: Redis is out, the client was replaced, or it      *)
(* times out.                                                              *)
CommandFails(t) ==
  \/ (~up \/ t \notin onClient) /\ UNCHANGED faults
  \/ up /\ t \in onClient /\ Fault("timeout")

(* What a failed or abandoned command may have written. *)
MayWrite(es) == \E some \in SUBSET es :
  /\ up \/ some = {}
  /\ written' = written \union some

-----------------------------------------------------------------------------
(* Producers: publish_all *)

(* The circuit is open and no probe is due: the event goes to the buffer. *)
Held == state = "open" /\ ~B!ProbeDue

(* An event whose id is taken in the dedup cache is skipped; a cache that   *)
(* cannot tell lets it pass.                                                *)
Produce(e) ==
  /\ phase = "running" /\ e \notin waiting
  /\ Call
  /\ up => e \notin keys
  /\ keys' = IF up THEN keys \union {e} ELSE keys
  /\ Accept(<<e>>)
  /\ \/ Held /\ Spill(<<e>>) /\ UNCHANGED <<queue, waiting>>
     \/ ~Held /\ Len(queue) < QueueSize /\ queue' = Append(queue, e) /\ UNCHANGED <<waiting, spilled>>
     \/ ~Held /\ Len(queue) >= QueueSize /\ waiting' = waiting \union {e} /\ UNCHANGED <<queue, spilled>>
  /\ UNCHANGED <<breaker, shutdown, worker, poller, redis, client, draining, confirmed, faults>>

(* Variant: a blocked producer puts its event although the queue is full. *)
UnblockAnyway(e) ==
  /\ e \in waiting
  /\ queue' = Append(queue, e)
  /\ waiting' = waiting \ {e}
  /\ UNCHANGED <<breaker, shutdown, keys, worker, poller, redis, client, spilled, draining,
                 promises, calls, faults>>

Unblock(e) ==
  /\ e \in waiting /\ Len(queue) < QueueSize
  /\ queue' = Append(queue, e)
  /\ waiting' = waiting \ {e}
  /\ UNCHANGED <<breaker, shutdown, keys, worker, poller, redis, client, spilled, draining,
                 promises, calls, faults>>

(* The producer has waited producer_block_timeout_seconds. *)
BlockTimesOut(e) ==
  /\ e \in waiting
  /\ waiting' = waiting \ {e}
  /\ Spill(<<e>>)
  /\ ScheduleDrain
  /\ UNCHANGED <<breaker, shutdown, keys, queue, worker, poller, redis, client, drains, cut,
                 promises, calls, faults>>

(* The producer is cancelled while it is blocked: publish_all raises. *)
CancelProducer(e) ==
  /\ e \in waiting
  /\ Fault("cancel")
  /\ waiting' = waiting \ {e}
  /\ accepted' = IF e \in again THEN accepted ELSE accepted \ {e}
  /\ UNCHANGED <<breaker, shutdown, keys, queue, worker, poller, redis, client, spilled,
                 draining, again, confirmed, calls>>

-----------------------------------------------------------------------------
(* Workers: _sink_worker_loop, _safe_publish, RedisStreamsSink.publish *)

At(w, step) == worker[w].at = step /\ ~cancelled

Go(w, step) == worker' = [worker EXCEPT ![w].at = step]

Rest(w) == worker' = [worker EXCEPT ![w] = Resting]

Publish(w) ==
  /\ B!Call(w)
  /\ worker' = [worker EXCEPT ![w] = [at |-> "connect", event |-> Head(queue), attempts |-> 0]]

(* Variant: a worker holds an event back until the circuit lets it pass. *)
TakeWhenAdmitted(w) ==
  /\ At(w, "get") /\ queue # <<>> /\ Head(queue) # Sentinel
  /\ queue' = Tail(queue)
  /\ Publish(w)
  /\ UNCHANGED <<shutdown, keys, waiting, poller, redis, client, spilled, draining, promises,
                 calls, faults>>

(* The breaker admits the event, or refuses it and the event is buffered. *)
Take(w) ==
  /\ At(w, "get") /\ queue # <<>> /\ Head(queue) # Sentinel
  /\ queue' = Tail(queue)
  /\ \/ Publish(w) /\ UNCHANGED spilled
     \/ B!Refuses /\ Spill(<<Head(queue)>>) /\ UNCHANGED <<worker, breaker>>
  /\ UNCHANGED <<shutdown, keys, waiting, poller, redis, client, draining, promises, calls, faults>>

StopWorker(w) ==
  /\ At(w, "get") /\ queue # <<>> /\ Head(queue) = Sentinel
  /\ queue' = Tail(queue)
  /\ worker' = [worker EXCEPT ![w] = Stopped]
  /\ UNCHANGED <<breaker, shutdown, keys, waiting, poller, redis, client, spilled, draining,
                 promises, calls, faults>>

SendEvent(w) ==
  /\ At(w, "connect")
  /\ Connect(w)
  /\ Go(w, "xadd")
  /\ UNCHANGED <<breaker, shutdown, keys, waiting, queue, poller, redis, spilled, promises,
                 calls, faults>>

XaddSucceeds(w) ==
  /\ At(w, "xadd") /\ up
  /\ written' = written \union {worker[w].event}
  /\ B!Succeed(w)
  /\ Release(w)
  /\ Rest(w)
  /\ UNCHANGED <<shutdown, keys, waiting, queue, poller, up, spilled, draining, promises,
                 calls, faults>>

LastAttempt(w) == worker[w].attempts + 1 >= Attempts

RetryXadd(w) ==
  /\ At(w, "xadd") /\ ~LastAttempt(w)
  /\ CommandFails(w)
  /\ MayWrite({worker[w].event})
  /\ ResetFor(w)
  /\ worker' = [worker EXCEPT ![w].at = "connect", ![w].attempts = @ + 1]
  /\ UNCHANGED <<breaker, shutdown, keys, waiting, queue, poller, up, spilled, draining,
                 promises, calls>>

XaddGivesUp(w, rescued) ==
  /\ At(w, "xadd") /\ LastAttempt(w)
  /\ CommandFails(w)
  /\ MayWrite({worker[w].event})
  /\ ResetFor(w)
  /\ Spill(rescued)
  /\ B!Fail(w)
  /\ Rest(w)
  /\ UNCHANGED <<shutdown, keys, waiting, queue, poller, up, draining, promises, calls>>

(* Variant: the worker buffers the event the sink has buffered. *)
BufferTwice(w) == XaddGivesUp(w, <<worker[w].event, worker[w].event>>)

(* Every attempt failed: publish buffers the event and returns False, which *)
(* the breaker counts as a failure and the worker does not buffer again.    *)
GiveUp(w) == XaddGivesUp(w, <<worker[w].event>>)

-----------------------------------------------------------------------------
(* The poller: publish_all_batch_results, _batch_publish_flags *)

(* Pollers publish what they have not been told is published. *)
Unseen(b) == b # <<>> /\ ElementsOf(b) \intersect confirmed = {}

(* A batch the circuit refuses is buffered and reported as failed. *)
BatchStart(b) ==
  /\ phase = "running" /\ poller.at = "idle" /\ Unseen(b)
  /\ Call
  /\ \/ /\ B!Call(Poller)
        /\ poller' = [at |-> "connect", batch |-> b, retried |-> FALSE]
        /\ UNCHANGED <<spilled, accepted, again>>
     \/ /\ B!Refuses
        /\ Spill(b) /\ Accept(b)
        /\ UNCHANGED <<poller, breaker>>
  /\ UNCHANGED <<shutdown, keys, waiting, queue, worker, redis, client, draining, confirmed, faults>>

SendBatch ==
  /\ poller.at = "connect"
  /\ Connect(Poller)
  /\ poller' = [poller EXCEPT !.at = "send"]
  /\ UNCHANGED <<breaker, shutdown, keys, waiting, queue, worker, redis, spilled, promises,
                 calls, faults>>

(* The pipeline's reply says of each event whether it is in the stream, and *)
(* the poller is told so; one event is enough for a success of the breaker. *)
BatchReplies(ok) ==
  /\ poller.at = "send" /\ up
  /\ ok # {}
  /\ IF ok = ElementsOf(poller.batch) THEN UNCHANGED faults ELSE Fault("item")
  /\ written' = written \union ok
  /\ confirmed' = confirmed \union ok
  /\ B!Succeed(Poller)
  /\ Release(Poller)
  /\ poller' = NoBatch
  /\ UNCHANGED <<shutdown, keys, waiting, queue, worker, up, spilled, draining, accepted, again, calls>>

(* No event of the batch is reported written, by an exception or item by    *)
(* item: one retry, then the batch is buffered and reported as failed.      *)
BatchFails ==
  /\ poller.at = "send"
  /\ \/ CommandFails(Poller) /\ MayWrite(ElementsOf(poller.batch)) /\ ResetFor(Poller)
     \/ up /\ Fault("item") /\ UNCHANGED written /\ Release(Poller)
  /\ \/ /\ ~poller.retried
        /\ poller' = [poller EXCEPT !.at = "connect", !.retried = TRUE]
        /\ UNCHANGED <<breaker, spilled, accepted, again>>
     \/ /\ poller.retried
        /\ Spill(poller.batch) /\ Accept(poller.batch)
        /\ B!Fail(Poller)
        /\ poller' = NoBatch
  /\ UNCHANGED <<shutdown, keys, waiting, queue, worker, up, draining, confirmed, calls>>

(* The poller is stopped in the middle of a batch. *)
CancelPoller ==
  /\ poller.at # "idle"
  /\ Fault("cancel")
  /\ IF poller.at = "send" THEN MayWrite(ElementsOf(poller.batch)) ELSE UNCHANGED written
  /\ B!Cancel(Poller)
  /\ Release(Poller)
  /\ poller' = NoBatch
  /\ UNCHANGED <<shutdown, keys, waiting, queue, worker, up, spilled, draining, promises, calls>>

-----------------------------------------------------------------------------
(* Drains of the buffer: _drain_buffer, _do_drain *)

(* A drain task begins, under _drain_lock, with a snapshot of the buffer.   *)
(* It looks at the buffer before it takes the lock, and again under it: an  *)
(* empty buffer ends it in both cases.                                     *)
BeginDrain ==
  /\ drainTasks > 0
  /\ drainTasks' = drainTasks - 1
  /\ \/ /\ ~drains["background"].active /\ buffer # <<>> /\ connected
        /\ drains' = [drains EXCEPT !["background"] = [active |-> TRUE, left |-> buffer, failed |-> <<>>]]
        /\ buffer' = <<>>
        /\ onClient' = onClient \union {"background"}
     \/ /\ buffer = <<>> \/ (~drains["background"].active /\ ~connected)
        /\ UNCHANGED <<drains, buffer, onClient>>
  /\ UNCHANGED <<breaker, shutdown, registry, redis, connected, everReset, evicted, cut, promises,
                 calls, faults>>

(* An event of the snapshot is written, or kept to be buffered again.  A    *)
(* failure does not reset the client.                                      *)
DrainEvent(d) ==
  /\ drains[d].active /\ drains[d].left # <<>>
  /\ LET e == Head(drains[d].left) IN
     \/ /\ up
        /\ written' = written \union {e}
        /\ drains' = [drains EXCEPT ![d].left = Tail(@)]
        /\ UNCHANGED faults
     \/ /\ CommandFails(d)
        /\ MayWrite({e})
        /\ drains' = [drains EXCEPT ![d].left = Tail(@), ![d].failed = Append(@, e)]
  /\ UNCHANGED <<breaker, shutdown, registry, up, client, spilled, drainTasks, cut, promises, calls>>

EndDrain(d) ==
  /\ drains[d].active /\ drains[d].left = <<>>
  /\ Spill(drains[d].failed)
  /\ drains' = [drains EXCEPT ![d] = NoDrain]
  /\ Release(d)
  /\ UNCHANGED <<breaker, stops, cancelled, registry, redis, drainTasks, cut, promises, calls, faults>>

FinishDrain == EndDrain("background") /\ UNCHANGED phase

-----------------------------------------------------------------------------
(* Shutdown: close_all, drain_queues, RedisStreamsSink.close *)

(* The producers have stopped (main.py) before the registry is closed. *)
Disable ==
  /\ phase = "running" /\ poller.at = "idle" /\ waiting = {}
  /\ Fault("close")
  /\ phase' = "flushing"
  /\ UNCHANGED <<breaker, stops, cancelled, registry, redis, client, spilled, draining, promises, calls>>

(* queue.join() returns, or its timeout elapses. *)
Flush ==
  /\ phase = "flushing"
  /\ phase' = "stopping" /\ stops' = Cardinality(Workers)
  /\ UNCHANGED <<breaker, cancelled, registry, redis, client, spilled, draining, promises, calls, faults>>

PutSentinel ==
  /\ phase = "stopping" /\ stops > 0 /\ Len(queue) < QueueSize
  /\ queue' = Append(queue, Sentinel)
  /\ stops' = stops - 1
  /\ UNCHANGED <<breaker, phase, cancelled, keys, waiting, worker, poller, redis, client, spilled,
                 draining, promises, calls, faults>>

(* A sentinel does not fit in time, or a worker does not end in time. *)
CancelWorkers ==
  /\ phase = "stopping" /\ ~cancelled
  /\ stops > 0 => Len(queue) >= QueueSize
  /\ \E w \in Workers : worker[w].at # "stopped"
  /\ cancelled' = TRUE /\ stops' = 0
  /\ UNCHANGED <<breaker, phase, registry, redis, client, spilled, draining, promises, calls, faults>>

(* Variant: the event of a cancelled worker is not rescued. *)
DropInFlight(w) ==
  /\ phase = "stopping" /\ cancelled /\ worker[w].at \in {"connect", "xadd"}
  /\ B!Cancel(w)
  /\ worker' = [worker EXCEPT ![w] = Stopped]
  /\ Release(w)
  /\ UNCHANGED <<shutdown, keys, waiting, queue, poller, redis, spilled, draining, promises,
                 calls, faults>>

(* A worker cancelled in publish hands its event to the buffer. *)
CancelInFlight(w) ==
  /\ phase = "stopping" /\ cancelled /\ worker[w].at \in {"connect", "xadd"}
  /\ IF worker[w].at = "xadd" THEN MayWrite({worker[w].event}) ELSE UNCHANGED written
  /\ B!Cancel(w)
  /\ Spill(<<worker[w].event>>)
  /\ worker' = [worker EXCEPT ![w] = Stopped]
  /\ Release(w)
  /\ UNCHANGED <<shutdown, keys, waiting, queue, poller, up, draining, promises, calls, faults>>

CancelIdle(w) ==
  /\ phase = "stopping" /\ cancelled /\ worker[w].at = "get"
  /\ worker' = [worker EXCEPT ![w] = Stopped]
  /\ UNCHANGED <<breaker, shutdown, keys, waiting, queue, poller, redis, client, spilled, draining,
                 promises, calls, faults>>

(* close(): a last drain, without _drain_lock, of what is buffered by now. *)
CloseSink ==
  /\ phase = "stopping" /\ stops = 0
  /\ \A w \in Workers : worker[w].at = "stopped"
  /\ \/ /\ buffer # <<>> /\ connected
        /\ phase' = "draining"
        /\ drains' = [drains EXCEPT !["final"] = [active |-> TRUE, left |-> buffer, failed |-> <<>>]]
        /\ buffer' = <<>>
        /\ onClient' = onClient \union {"final"}
     \/ /\ buffer = <<>> \/ ~connected
        /\ phase' = "settling"
        /\ UNCHANGED <<drains, buffer, onClient>>
  /\ UNCHANGED <<breaker, stops, cancelled, registry, redis, connected, everReset, evicted,
                 drainTasks, cut, promises, calls, faults>>

FinishLastDrain == EndDrain("final") /\ phase' = "settling"

(* wait_for cancels a drain: its snapshot is gone. *)
CutDrain(d) ==
  /\ drains' = [drains EXCEPT ![d] = NoDrain]
  /\ cut' = cut \union DrainHolds(d)

LastDrainTimesOut ==
  /\ phase = "draining"
  /\ phase' = "settling"
  /\ CutDrain("final")
  /\ Release("final")
  /\ UNCHANGED <<breaker, stops, cancelled, registry, redis, spilled, drainTasks, promises,
                 calls, faults>>

(* The drain tasks have ended, or are cancelled, before the client is closed. *)
FinishClose ==
  /\ phase = "settling"
  /\ phase' = "closed"
  /\ connected' = FALSE /\ onClient' = {}
  /\ drainTasks' = 0
  /\ CutDrain("background")
  /\ UNCHANGED <<breaker, stops, cancelled, registry, redis, everReset, spilled, promises,
                 calls, faults>>

-----------------------------------------------------------------------------
(* Redis and the clock *)

RedisDown ==
  /\ up /\ Fault("outage")
  /\ up' = FALSE
  /\ UNCHANGED <<breaker, shutdown, registry, written, client, spilled, draining, promises, calls>>

RedisUp ==
  /\ ~up
  /\ up' = TRUE
  /\ UNCHANGED <<breaker, shutdown, registry, written, client, spilled, draining, promises, calls, faults>>

RecoveryWindowElapses ==
  /\ B!WindowElapses
  /\ UNCHANGED <<shutdown, registry, redis, client, spilled, draining, promises, calls, faults>>

-----------------------------------------------------------------------------

ProducerStep(e) == Produce(e) \/ Unblock(e) \/ BlockTimesOut(e) \/ CancelProducer(e)

WorkerStep(w) ==
  \/ Take(w) \/ StopWorker(w) \/ SendEvent(w) \/ XaddSucceeds(w) \/ RetryXadd(w) \/ GiveUp(w)
  \/ CancelInFlight(w) \/ CancelIdle(w)

PollerStep ==
  \/ \E b \in Batches : BatchStart(b)
  \/ SendBatch
  \/ \E ok \in SUBSET ElementsOf(poller.batch) : BatchReplies(ok)
  \/ BatchFails \/ CancelPoller

SinkStep ==
  \/ BeginDrain \/ FinishDrain \/ FinishLastDrain
  \/ \E d \in DOMAIN drains : DrainEvent(d)

ShutdownStep ==
  \/ Disable \/ Flush \/ PutSentinel \/ CancelWorkers
  \/ CloseSink \/ LastDrainTimesOut \/ FinishClose

Next ==
  \/ \E e \in Singles : ProducerStep(e)
  \/ \E w \in Workers : WorkerStep(w)
  \/ PollerStep \/ SinkStep \/ ShutdownStep
  \/ RedisDown \/ RedisUp \/ RecoveryWindowElapses

Spec == Init /\ [][Next]_vars

(* The event loop runs every ready task, a command is answered or fails by  *)
(* its timeout, and blocked producers give up by theirs.                    *)
DispatchFairness ==
  /\ \A e \in Singles : WF_vars(BlockTimesOut(e))
  /\ \A w \in Workers :
       /\ WF_vars(Take(w)) /\ WF_vars(StopWorker(w)) /\ WF_vars(SendEvent(w))
       /\ WF_vars(XaddSucceeds(w) \/ ((RetryXadd(w) \/ GiveUp(w)) /\ UNCHANGED faults))
       /\ WF_vars(CancelInFlight(w) \/ CancelIdle(w))
  /\ WF_vars(SendBatch)
  /\ WF_vars(BatchReplies(ElementsOf(poller.batch)) \/ (BatchFails /\ UNCHANGED faults))
  /\ WF_vars(BeginDrain) /\ WF_vars(FinishDrain) /\ WF_vars(FinishLastDrain)
  /\ \A d \in {"background", "final"} : WF_vars(DrainEvent(d) /\ UNCHANGED faults)
  /\ WF_vars(Flush) /\ WF_vars(PutSentinel) /\ WF_vars(CancelWorkers)
  /\ WF_vars(CloseSink) /\ WF_vars(FinishClose)

FairSpec == Spec /\ DispatchFairness

(* Redis comes back, and the recovery window of the breaker elapses. *)
RecoveringSpec == FairSpec /\ WF_vars(RedisUp) /\ WF_vars(RecoveryWindowElapses)

-----------------------------------------------------------------------------
(* Properties *)

DispatchTypes ==
  /\ phase \in {"running", "flushing", "stopping", "draining", "settling", "closed"}
  /\ stops \in 0..Cardinality(Workers) /\ cancelled \in BOOLEAN
  /\ keys \subseteq Events /\ waiting \subseteq Events
  /\ queue \in Seq(Events \union {Sentinel}) /\ Len(queue) <= QueueSize
  /\ worker \in [Workers -> [at: {"get", "connect", "xadd", "stopped"},
                             event: Events \union {Sentinel}, attempts: 0..Attempts]]
  /\ poller \in [at: {"idle", "connect", "send"}, batch: Seq(Events), retried: BOOLEAN]
  /\ up \in BOOLEAN /\ written \subseteq Events
  /\ connected \in BOOLEAN /\ everReset \in BOOLEAN
  /\ onClient \subseteq Callers \union DOMAIN drains
  /\ buffer \in Seq(Events) /\ Len(buffer) <= BufferSize
  /\ drainTasks \in Nat
  /\ drains \in [{"background", "final"} ->
                   [active: BOOLEAN, left: Seq(Events), failed: Seq(Events)]]
  /\ accepted \subseteq Events /\ again \subseteq accepted
  /\ confirmed \subseteq Events /\ evicted \subseteq Events /\ cut \subseteq Events
  /\ calls \in 0..MaxCalls /\ faults \in 0..MaxFaults

(* The queue and the buffer keep to their capacities, whoever puts into them. *)
TypeOK == B!TypeOK /\ DispatchTypes

Settled == written \union evicted \union cut \union ElementsOf(buffer)

(* Nobody looks at the queue once the sink is closed: it may hold events only *)
(* if the workers were cancelled.                                            *)
InProcess ==
  waiting \union {worker[w].event : w \in Workers}
    \union DrainHolds("background") \union DrainHolds("final")
    \union (IF phase = "closed" /\ ~cancelled THEN {} ELSE ElementsOf(queue))

(* An event the registry has taken charge of is in the stream, counted as    *)
(* evicted, cut off with a drain by close(), or held in exactly the places   *)
(* the code looks: a tripped circuit, a full queue, a failed command, a       *)
(* cancelled worker or a graceful shutdown never drops one.                  *)
EventsKept == accepted \subseteq Settled \union InProcess

Copies(e) ==
  Cardinality({w \in Workers : worker[w].event = e})
    + (IF e \in waiting THEN 1 ELSE 0)
    + Occurrences(e, queue \o buffer)
    + Occurrences(e, drains["background"].left \o drains["background"].failed)
    + Occurrences(e, drains["final"].left \o drains["final"].failed)

(* An event that was accepted once has one copy in the gateway: one buffer    *)
(* site per failure, so that no drain replays an event that is buffered twice. *)
OneCopy == \A e \in Events \ again : Copies(e) <= 1

(* Every event publish_all took charge of is dispatched in the end, by a      *)
(* worker or by the timeout of its producer, also while Redis is out.        *)
Dispatched ==
  \A e \in Singles : e \in accepted ~> e \in Settled \/ e \notin accepted \/ cancelled

-----------------------------------------------------------------------------
(* What the sources say and the code does not do *)

(* Events buffered while the circuit is open "are replayed automatically     *)
(* when Redis recovers" (CHANGELOG.md:671): if Redis, the client and the      *)
(* circuit are well for good, each is written in the end.                    *)
Recovered == up /\ connected /\ state = "closed"

ReplayedOnRecovery ==
  <>[]Recovered =>
    \A e \in Events : state = "open" /\ e \in ElementsOf(buffer) ~> e \in written \union evicted

=============================================================================
