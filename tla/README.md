# Data-Gateway in TLA+

This directory is a verification development of the gateway's concurrent core:
TLA+ modules written from the Python code under `src/gateway`, TLC
configurations that explore small instances exhaustively, and theorems that
TLAPS proves for every value of the constants. `PROJECT.json` maps each
definition to the source lines it stands for.

Contents

1. The system
2. Modules and their correspondence to the code
3. Runs, bounds and what they show
4. Fairness
5. Proofs
6. Where the code and its documentation disagree
7. Abstractions
8. What is not modelled
9. Plan

## 1. The system

The gateway is one asyncio process. Data enters from providers (REST calls,
pollers, WebSocket upstreams), is validated and wrapped in an envelope, and
leaves by three ways: the answer to the HTTP caller, WebSocket clients, and
durable storage (NATS JetStream through a SQLite outbox, or Redis streams).
Orders for one shared Alpaca account go the other way and are guarded by claims
in Redis.

```
 providers --> pollers, stream multiplexer, backfill --> validator, envelope
                                                             |
     HTTP routers, WebSocket clients <-- fan-out, replay     v
              |                                        sink registry
              | orders                                 (queue, workers)
              v                                        |           |
     order ownership (Redis) --> Alpaca      breaker + Redis sink  durable outbox
                                                                   (SQLite) --> JetStream
```

| Component | State it keeps | Operations | Interacts through | What is hard | What makes it correct |
|---|---|---|---|---|---|
| **Durable outbox** `durable_outbox_sink.py`, `durable_outbox.py`, `jetstream.py` | the SQLite table (survives), the admission queue, one lock, three drain tasks with a wake flag, in-flight PubAcks, the failed rows per lane | publish, batch and flow admission, group commit, drain, settle, close, start | called by the sink registry, backfill and pollers; publishes to the broker | threads that outlive their caller, crash between commit, PubAck and settlement, wake-ups, partial failures of a batch, close racing an answer | nothing promised is lost; deletion follows delivery; a flow record and its watch copy become durable together; what is owed is delivered in the end |
| **Circuit breaker** `circuit_breaker.py` | state, two counters, time of the last failure, the half-open slot | call, success, failure, cancellation, reset, `probe_due` | wraps provider calls and sinks | calls that outlive the state they were admitted in | the slot is never wedged; the circuit closes once failures end |
| **Order ownership** `order_ownership.py`, `api/alpaca/trading.py`, `cli.py` | per symbol in Redis: claim (owner, marker, freeze) and fence with a lease | acquire, reconcile, claim, mark, write, verify, unmark, freeze, release, thaw | HTTP tasks of several clients, broker threads, the operator | a broker call that times out while its thread runs, freeze without fence, lapsed lease, answers of the broker that lag, a thaw beside a write, crash in mid-write | one writer at a time, but for writes an operator overruled; a write on its way is visible in Redis; exposure is claimed; only an operator lifts a freeze |
| **Sink registry** `data_sink.py` | per-sink queues, worker tasks, dedup keys, breakers | publish, worker loop, pre-check, drain, close | pollers and streams in, sinks out | key taken before the event is queued, full queue, shutdown drain | an accepted event reaches each sink or its buffer once |
| **Redis sink** `redis_sink.py` | client, bounded failed buffer, reconnect state | publish, buffer, drain, close | under the registry | drain empties the buffer into a local list that a cancellation loses | a buffered event stays buffered until written |
| **Stream multiplexer** `stream.py` | per-provider upstreams, subscription index, `_running`, dormancy | subscribe, unsubscribe, reconnect, revive, dispatch | WebSocket clients and upstreams | connect, revive, stop and transport failure on different tasks; overlapping subscribe and unsubscribe; a resubscription racing both | one connect loop per upstream; the provider streams what the index says; a wanted upstream comes back, unless its transport failed for good |
| **WebSocket connections** `connections.py`, `api/websocket.py` | client table, send queues | connect, subscribe, send, disconnect | multiplexer and fan-out | leaving while a request or a roll-back is under way | a gone client leaves no subscription |
| **Flow fan-out and replay** `flow_fanout.py`, `flow_replay.py` | cursors, barriers, buffered live events, the replay store | deliver, subscribe with replay, release | connections, replay store | live events during replay; awaits between append and target look-up | a resumed client misses nothing in between, at most its last replayed event comes twice, a hole is never replayed over, a barrier falls |
| **Backfill** `backfill.py`, `backfill_manifest.py` | jobs, the durable manifest, publication evidence | submit, run, cancel, restart recovery, acknowledge | outbox, providers | saves that land out of order, restart after partial publication, cancel racing submission and end | verified means committed downstream; nothing is published outside a run; a job that awaits acknowledgements finds them, over restarts too (one exception, section 6) |
| **UW pollers, EOD state** `uw_poller.py`, `uw_eod_state.py`, `base_poller.py` | the day's run state file, ids seen in memory, dedup keys in Redis | claim, sweep, publish, complete, release, take over | file system, Redis, sink registry | a stale run returning after its takeover, a claim thread outliving its task, a publish that lands in part | no id is suppressed that was not published; a completed day covers and stays; the day is swept in the end |
| **Other pollers** `quotes_poller.py`, ... | dedup set, schedule | fetch loop | sink registry | none beyond the above | |
| **Dedup and caches** `dedup.py`, `cache.py` | in-flight futures, entries with a TTL | get or join, store, expire | HTTP routers | a cancelled leader and its followers | every waiter is answered; one fetch at a time |
| **Rate limiting** `rate_limiter.py` | sliding windows | check and record | middleware | window edges | never above the limit |
| **Bulk jobs, replay sessions, option capture** | in-memory life cycles | start, pause, resume, cancel | their routers | cancel against running fetches | states follow the life cycle |
| **Providers, routers, middleware, audit, life cycle, pure transformations** | none that outlives a request, or configuration | | | | covered by the repository's tests |

The complete list with sources is `components` in `PROJECT.json`; the places
where a test would hardly reach are its `hazards`.

## 2. Modules and their correspondence to the code

| Module | Role |
|---|---|
| `OutboxPromise` | abstract specification of the durable transport: events become accepted, then promised to their producer, and delivered; nothing accepted is forgotten, a promised event is delivered in the end |
| `DurableOutbox` | the transport itself: tasks, lock, SQLite transactions, broker, faults. Contains the refinement mapping `Abstract` |
| `MCDurableOutbox` | small sets of events for TLC |
| `DurableOutboxProofs` | inductive invariant, safety theorems, refinement |
| `CircuitBreaker` | one breaker and its concurrent callers |
| `CircuitBreakerProofs` | inductive invariant and safety theorems |
| `SinkDispatch` | registry queue, workers and batch poller, the Redis sink's client, retries and failed buffer, shutdown; instantiates `CircuitBreaker` as the sink's breaker |
| `MCSinkDispatch` | small sets of events and batches |
| `SinkDispatchProofs` | the composition uses the breaker as specified; no accepted event is dropped or held twice |
| `OrderOwnership` | claim, fence and marker of one symbol, the fenced routes, the broker |
| `MCOrderOwnership` | symmetry of tasks and clients |
| `OrderOwnershipProofs` | inductive invariant of the protocol, safety theorems |
| `StreamMultiplexer` | connect loops, subscription index, supervisor, and the WebSocket handlers that use them |
| `MCStreamMultiplexer` | upstreams, channels and requests for TLC |
| `StreamMultiplexerProofs` | inductive invariant, safety theorems |
| `FlowHandoff` | the flow poller's append and delivery, subscriptions that resume from a cursor, the replay log |
| `MCFlowHandoff` | underlyings of the events, requests |
| `FlowHandoffProofs` | inductive invariants of the log and what is read from it, of the queues of a connection, and of the order of what is sent; safety theorems |
| `BackfillJobs` | one backfill job, its manifest and Heber's acknowledgements |
| `MCBackfillJobs` | the instance for TLC |
| `BackfillJobsProofs` | inductive invariant, safety theorems |
| `UwPoller` | poll loops and EOD runs of several processes with one run state file and one Redis |
| `MCUwPoller` | processes and ids for TLC |
| `UwPollerProofs` | inductive invariant, safety theorems |

**DurableOutbox.** The sink is asyncio tasks plus one worker thread under
`_storage_lock`. A step is what runs between two awaits, or one SQLite transaction.
`txn` is the admission that holds the lock: `Publish` queues one event, `BeginGroup`
(`_commit_admission_groups`) or `BeginBatch` (`publish_batch_results`,
`publish_flow_with_watch_batch`) starts a transaction, `CommitTxn` is its commit in
the thread, `ReportCommitted` the caller's resumption (drains woken, producers told
True), `RejectTxn` the rollback that poisons admission and refuses the group and the
whole queue. `waiting` counts the calls of `publish` that have no result yet; the
group under commit answers for as many as it has requests (`GroupCallers`).
`CancelBatch` cancels the waiting caller: the lock is released while the thread goes
on as `orphan`, and no drain is woken. A lane's drain is `ClearWake`, `ReadPending`,
`Send` and `Ack` or `PublishFails` per row, `Settle` or `SettleRaises`, `WakeUp`.
`BrokerStore` is the broker, which deduplicates on the message id. `BeginClose`,
`CancelDrains`, `CloseTimesOut`, `Crash`, `Restart` are the life cycle; `rows`,
`lastSeq` and `stream` survive. `Crash` empties everything else.

**CircuitBreaker.** `Call` is the admission decision of `call` with the lazy
transition from open to half open; `Succeed`, `Fail`, `Cancel` are the three
ways a call returns, in whatever state the breaker is by then; `Reset` is the
admin route; `WindowElapses` is `recovery_timeout`. A caller remembers whether
it was admitted as a probe, as the code's local variable does.

**OrderOwnership.** A task is one request or one thaw command. `task[t].at` is
the await it is at. `Acquire` takes the fence (SET NX), `ReadBroker` is one of
the two account reads before, and after, the write, `Load`, `Release`,
`Reload`, `TakeClaim` and `AuthorizeClose` the claim scripts,
`BeginMutation` sets the marker. `Dispatch` hands the write to its thread:
`flight[t] = "out"` until `Apply` or `ThreadEnds`, whether the task still waits
or not. `Succeeds`, `Refused`, `Unanswered` are what the task learns; `Verify`
and `CompleteMutation` close the protocol; `ClearMarker`, `DropClaim`,
`FreezeGet`, `FreezeSet`, `Unfence`, `LateFreezeGet`, `LateFreezeSet` are the
error paths, of which the last two run after the fence is free. `Fill` is the
broker filling an order; `Review` and `Thaw` are `thaw-claim` in `cli.py`, which
asks only for the fence: it may run beside the thread of a request that gave up,
and then lifts the marker or freeze of a write that is still going out. Such a
write has `flight[t] = "overruled"` from there on. `StoreFails`, `ReadFails`,
`ReadLags` (the broker lists an order or a fill late), `Crash` and `Lapse` are the
faults.

**SinkDispatch.** Three layers share the events. *Registry*: `Produce` is
`publish_all` (dedup key, pre-check of the breaker, queue), `Unblock`,
`BlockTimesOut` and `CancelProducer` the three ends of a `queue.put` that
blocked. *Worker and sink*: `Take` removes an item and passes the breaker or
buffers the refused event, `SendEvent` is `_ensure_connected` and the XADD,
`XaddSucceeds`, `RetryXadd` and `GiveUp` its outcomes. The poller's batch goes
the same way in `BatchStart`, `SendBatch`, `BatchReplies`, `BatchFails`,
`CancelPoller`. *Buffer*: `Spill` appends and evicts, `BeginDrain`, `DrainEvent`
and `FinishDrain` are a drain task. `Disable`, `Flush`, `PutSentinel`,
`CancelWorkers`, `CancelInFlight`, `CancelIdle`, `CloseSink`, `FinishLastDrain`,
`LastDrainTimesOut` and `FinishClose` follow `close_all`. A step that asks or
tells the breaker conjoins the action of `CircuitBreaker` (`B!Call(w)`,
`B!Fail(w)`, ...), whose `MaxFaults` is `MaxFailures` here. `onClient` is the set
of tasks whose command runs on the client of the moment; `_reset_connection`
empties it, which is the code's comparison of the failed client with the
present one.

**StreamMultiplexer.** `loop[s][t]` is the place of a task running
`UpstreamConnection.start()` for upstream `s`; the dial, the authentication and
the resubscription are its awaits (`DialSucceeds`, `AuthSucceeds`,
`Resubscribed`), `AttemptFails` and `AttemptRefused` their failures,
`ConnectionEnds` the end of the receive loop, `BackoffEnds` the sleep before the
next attempt, `GiveUpOrRetry` the count of attempts. `Lose` is a socket that
breaks unnoticed; `FailTransport` an admission that fails for good. A client's
handler walks its message feed by feed: `Register` changes the index and sends
the first frame, `EnsureConnected` with `WaitSucceeds` and `WaitTimesOut` starts
a dormant upstream, `Refuse` begins the roll-back, `Unregister`,
`AncillaryFrame`, `FrameSent` and `SendFailed` are the rest; `Disconnect` and
`LeaveUpstreams` are the end of a connection. `Supervise` is the supervisor's
round, `Stop` and `Stopped` the multiplexer's end. `main` and `ancillary` are what
the provider was told on the present socket.

**FlowHandoff.** `Unavailable`, `MarkGap`, `AppendEvent`, `AppendFails` and
`AnswerLost` are `RedisFlowReplayStore.append` with its gap marker, `Deliver` the
part of `FlowFanout.deliver` after that await. `SubscribeResuming` raises the
barrier, `HighWatermark` or `ResumeRefused` answers it, `StartReplay` is the
acknowledgement, `ReadRange` or `ReplayFails` the read, `SendReplayed`,
`NextBatch` and `SendHeld` the replay task. `SendLive` and `LiveTimesOut` end a
live send. `NextBatch` ends a flush with the barrier
that stands then, whoever raised it, as `_flush_replay_buffer` pops it without
another look (`flow_fanout.py:353`). `Restart` loses everything but the log and the
sentinel of the gap.

**BackfillJobs.** `job` is the object in memory, `store` the manifest, and
`saving[w]` the dump that writer `w` (the run, a chunk, the submission, the
cancellation) has on its way: `Save` takes it, `Lands` or `Raises` ends it.
`SubmitBegins`, `SubmitLoads`, `SubmitSaved` are `submit`; `RunStarts`, `RunSaved`,
`ProcessChunk`, `ChunkSaved`, `PublishAll`, `PublishSome`, `PublishRefused`,
`FetchFails`, `ChunkRaises`, `RunEnds` are the run; `VerifyBegins`, `ReadAck`,
`ReadAckFails`, `RoundEnds` poll for acknowledgements; `Cancel`, `CancelEnds`,
`Crash`, `Shutdown`, `Start` are the rest. `HeberCommits` is the consumer
downstream, external to the repository.

**UwPoller.** `Spawn`, `AskClaim`, `Claim` (on its thread), `Claimed`, `FetchFails`,
`Complete` and `RunFails` are the EOD task; `Offer`, `Lookup`, `Publish` and
`Store` are `_publish_envelopes` with its look-up in Redis, its publish and its
note in Redis, of either lane; `Evict` is the trimming of the seen ids, `GoesStale`
the age at which a claim may be taken over. `Start`, `Stop`, `Exit` and `Crash` are
the process; the file, Redis and the sink survive.

Definitions under a comment starting "Variant:" are alternative forms of an action,
with a bug a careless change could introduce (a dropped guard, a missing
reset, a swapped order). No specification uses them. `PROJECT.json` pairs them
with the property each of them breaks, which is how the properties are shown to
be sensitive to the code.

## 3. Runs, bounds and what they show

| Run | Expectation | Shows |
|---|---|---|
| `outbox_safety` | pass | two admissions chosen from an event, the same key with other content, and a flow record; two faults of any of seven kinds, in any interleaving. Nothing promised is lost, flow pairs are atomic, a clean close abandons no PubAck, and the outbox implements `OutboxPromise` |
| `outbox_liveness` | pass | a single event and a batch that repeats it, one permit, one fault of any kind but `read`: every promised event is delivered, and every caller of `publish`, queued or in the group under commit, is told of its result |
| `breaker_recovery` | pass | three callers, thresholds of two, five failures or cancellations: the slot always belongs to a live probe, and the circuit closes for good |
| `ownership_safety` | pass | three tasks of two clients on any of four routes or thaw, two faults, a lagging answer of the broker among them, and thaws also beside a thread that outlived its request: writes never overlap and each is covered by a marker or a freeze, unless a thaw overruled it; exposure is claimed; freezes stand until thawed |
| `ownership_freeze` | violation | see section 6 |
| `sink_dispatch` | pass | two producers, two workers, a poller with a batch of two or of one of them, a queue of one, a buffer of two, two attempts, two calls and two faults of any of five kinds: every event the registry took charge of is written, evicted, buffered or in process (in the queue of a closed sink only if workers were cancelled); an event accepted once is held once; every event leaves the queue, also while Redis is out |
| `sink_stranded` | violation | see section 6 |
| `stream_multiplexer` | pass | two clients, a stock upstream that is started eagerly and a crypto upstream that is not, three channels, requests for one feed and for two of different upstreams, one retry, two requests, two faults: one connect loop per upstream, the provider streams what the index says, ancillary channels are on, a failed transport stays down, a wanted upstream comes back |
| `stream_rollback` | violation | see section 6 |
| `flow_handoff` | pass | four events of two underlyings, a log of three entries, replays of two, one connection with two requests of which one resumes, one fault: nothing is skipped, what was asked for is sent in the order of the log, at most the last event of a range comes twice, no range with a hole is sent, every barrier falls |
| `backfill_jobs` | pass | a job of two chunks, the records of one of which may differ between two fetches, two submissions, one cancellation, one trouble of any kind (crash, shutdown, a fetch, save or read that raises, a short publication): verified means committed, nothing is published for a job that is not running, acknowledgements are noticed |
| `uw_poller` | pass | two processes, one with live feeds, two live ids and one EOD id, one failed run, stop or crash, any number of partial publishes, failed look-ups, evictions and stale claims: no id is suppressed unpublished, a completed day covers and stays, the day is swept |

*Bounds.* `MaxCalls` and `MaxFaults` bound the admissions and faults of a
behaviour, `Tasks` the requests. Two admissions are enough for every
interaction of admissions the code has: they meet only through the lock, the
unique key and the table. Two faults let a failure strike during the recovery
from another (a crash in a close, a failed settlement after a failed publish).
`QueueLimit`, `GroupLimit`, `MaxRows` and `PubackLimit` are two, so that each
limit is met and overrun. The breaker needs a caller from before the circuit
opened, a probe, and one more. For the ownership protocol three tasks let two
requests race while a third (or a thaw) changes the claim under them; tasks and
clients are interchangeable, so symmetry is sound for the safety properties
checked there.

In `sink_dispatch` the
queue is full with one event, the buffer overflows with a batch and an event,
and two calls let one event fail while another is queued, in flight or in a
drain; thresholds of one let each failure trip the breaker. `MaxFailures` is at
least `MaxCalls`, so that it never hides a failure.

In `stream_multiplexer` two clients overlap on a feed and on an upstream, one of
them can leave while the other's request is under way, and the second fault strikes
while the loop recovers from the first. Two connect tasks are what the property
excludes, so a third is not needed. In `flow_handoff` the log is trimmed by the
fourth entry, a range can be too long or too old, and a second request can lift or
widen what the first asked for. `MaxResumes` is one: two resumptions of a connection
at a time are more than TLC explores here, so `BarrierLifted` is checked of a
connection that resumes once. The theorems on `TypeOK`, `NothingSkipped`,
`SentInOrder` and `GapFailsClosed` hold for any number of resumptions. In
`backfill_jobs` the second submission meets every state the first left, the two
chunks run together, and one trouble between any two steps includes the orders in
which their saves land. The cancellation is counted apart (`MaxCancels`), so that a
cancellation and a crash meet in one behaviour. The records of one of the two
symbols may change between two fetches (`Unstable`), which is enough for an
acknowledgement of other records than those on record. In `uw_poller` a third
process would only repeat the takeover of the second, and several EOD ids are left
to the theorem `CompletionCovers`.

Deadlock is not checked where behaviours are finite by their bounds and the
system may stop: when the calls of a behaviour are used up the outbox is idle,
when every request has ended the account is quiet, a closed sink and a stopped
multiplexer stay so, the events of a feed run out and a verified job is over. The
breaker and the pollers never stop.

*Reading the properties.* `NothingLost`: whoever was told True has the event in
SQLite or at the broker. `CallersAnswered`: while someone waits for an answer of
`publish`, there comes a moment at which nobody does; a crash ends the callers too.

`SingleWriter` and `MarkerCoversWrite` speak of the writes whose lock no operator
lifted while they were out (`"out"`, not `"overruled"`). The other ones are the known
limit of `CHANGELOG.md:124`: the gateway cannot revoke a call it dispatched, and
neither `thaw` nor the command asks whether one is out. The two hold with lapsed
leases and lagging answers. `ClaimCoversExposure` is stated of behaviours that were
not `misled`: no lease lapsed under a task that relied on it (the plain release
compares the owner and not the fence, so it could delete a claim another task
works under), no answer of the broker lagged (`CHANGELOG.md:105`: an order that is
not listed yet lets its claim be released), and no thaw began while a write was
out (it may find the symbol flat and delete the claim the write needs).

`EventsKept` names two losses instead of excluding them (section 6), so it is no
evidence against them. `UpstreamMatchesIndex` speaks of authenticated sockets, and
holds while frames are under way, because index and first frame change together.
`AncillaryCovers` is stated while nobody is about to send the second frame; after a
stop a cancelled resubscription may have left it out. `FailedStaysDown` says that
no connect task is made after the transport failed; a task made before, or one that
is dialing, still connects, since `_fail_transport` closes the sockets there are.

`NothingSkipped` is about a connection whose first request resumes; a second
resumption replaces the barrier of the first (section 6). It
leaves out two kinds of events silently: those whose append failed, which are not in
the log (they are the business of `GapFailsClosed`), and those in `excused`, whose
append was answered too late to deliver them, whose live send was given up, or which
a later request gave up. `SentInOrder` allows the
one event whose append was answered late to come twice, when it ends the range,
and after later ones, when the client resumed from that very event or a later one
and so did not ask for it.

`PublishedWhileRunning` is about `cancel()`, which takes no lock: a chunk whose save
is under way when it strikes must not be published afterwards. `Reconciled` ends
where a save raised, which ends the task that polls, and does not count a restart of
a job whose cancellation its run had overtaken (section 6).

`CompletedCovers` is about what the run that completed the day did not miss. `missed`
is a record the model keeps: `totals["errors"]` counts the tickers whose fetch
raised, while a failed or partial publish is only logged (`uw_poller.py:363-370`), so
that a completed day may lack ids no total mentions. `DaySwept` needs processes
that are started again: one whose claim is refused keeps its guard for the day.

## 4. Fairness

* `SinkFairness`: every enabled step of a sink task is taken in the end. asyncio
  is fair to ready tasks and SQLite transactions end; `Restart` is the
  container's restart policy. A crash, a close and the failures are not
  fair, they may never happen.
* `LaneAnswered(l)`: the broker answers the publishes of lane `l`, assumed of
  all lanes. The code has no timeout of its own there, and the lanes share one
  semaphore: without the answers of one lane the others stand still too.
* The breaker: calls end (failover and sinks bound them), the recovery window
  elapses, and producers that ask `probe_due` before they call keep coming.
  Nothing is assumed of callers that do not ask, nor of reset.
* `DispatchFairness`: asyncio runs ready tasks; each Redis command is answered
  or ends by its operation timeout (`UNCHANGED faults`: a timeout without an
  outage is a fault and need not happen); a blocked producer gives up
  by its timeout; the stages of a shutdown are bounded by theirs. Nothing is
  assumed of Redis, which may stay out, nor of the recovery window.
  `sink_stranded` assumes both (`RecoveringSpec`).
* `OrderOwnership` has no fairness; only safety is checked.
* `StreamMultiplexer`: connect tasks go on (dials and authentication have
  timeouts, a failure is a fault and need not happen), so do handlers and the
  supervisor. No client need ask, no socket need break.
* `FlowHandoff`: requests that resume are answered or refused and their replay
  tasks go on; Redis calls have timeouts. The poller need not publish.
* `BackfillJobs`: `RequestStep`, `RunStep` and `ChunkStep` are the event loop with
  Redis and providers that answer or time out, `Start` the container's restart
  policy. Heber need not commit and nobody need submit. `RunStarts` is not fair: a
  run waits for the semaphore of its feed (`backfill.py:969`), which other jobs
  hold while they poll for acknowledgements, without end if none come. So nothing
  is said of a job in `waiting`, and it may stay there.
* `UwPoller`: `Runs` and `Sweeps` of each process (started again under
  `restart: always` of `docker-compose.yml`), and `GoesStale`, the passage of
  time. The live lanes need not publish.

`EventuallyDelivered` excludes the `read` fault: a read of the table that
raises ends the lane's drain task silently, until the next admission to the
lane restarts it.

## 5. Proofs

Everything below holds for all events, batches, lanes' contents, limits,
callers, workers, thresholds and numbers of faults, from the assumptions named
`ConstantsAssumption`, `ThresholdsAssumption`, `DispatchAssumption`,
`OwnershipAssumption`, `StreamAssumption`, `PollerAssumption`, `FlowAssumption`,
`BackfillAssumption` and `NoJobAssumption` only.

**Outbox.** The checked invariants are not inductive. That a settlement deletes
only delivered rows depends on what `acked` means in the state before, and
`acked` on the whole path of a row through a drain. `IInv` therefore adds:
the rows a drain works on are rows of its own lane still in the table
(`BatchInLane`, `OutcomesInBatch`, and `batch`'s type), a row has at most one
outcome (`OutcomesDisjoint`), an answered row is at the broker
(`AnsweredAtBroker`), an acknowledged row keeps its lane unsafe
(`AckHoldsShutdown`), sequence numbers identify rows (`SeqsIdentify`), a drain
publishes exactly while it holds rows (`PublishersHoldRows`), and a committed
transaction left its events accepted (`CommittedIsAccepted`). The last rests on
the lemma `AdmitInserts` about `_admit_prepared`: each key of a batch is in
the table afterwards, which needs the first occurrence of a repeated key
(`LeastNatural`). The step proof has a lemma for each group of actions
(`AdmissionIInv`, `LaneIInv`, `RowIInv`, `ProcessIInv`).

`NobodyForgotten` is the safety behind `CallersAnswered`: the calls without a result
are exactly the queue's and those of the group under commit. It needs that nothing
is admitted without the lock, nor once close has begun (`AdmissionHolds`).
`ErrorsEnd` is about the delivery error of a lane, the part of its health that
`_publish_with_puback` and the drain keep. `transport_status` also reports a lane
degraded while the broker is disconnected (`durable_outbox_sink.py:329`), and after a
restart rows that had failed are pending without an error; the theorem covers
neither.

`FlowPairAtomic` says nothing of how rows come and go, so it is proved from an
action property. `AdmissionIsAtomic`: whatever step runs, what becomes accepted is
nothing or all of one transaction. It needs that what waits for the lock, the
transaction under way and the one an abandoned thread still commits are
transactions callers asked for (`OnlyTransactions`), and from `IInv` that a settled
row is at the broker. A transaction then holds both copies of a flow record or
neither (`TransactionsPair`). The property is stated of the records for which the
code can promise it (`FlowOnly`): one whose message id is also published
alone, or in a plain batch, is accepted alone there.

| Theorem | Statement |
|---|---|
| `TypeCorrect` | `Spec => []TypeOK` |
| `PromisesAreKept` | `Spec => []NothingLost` |
| `NobodyForgotten` | `Spec => []CallersCounted` |
| `ErrorsEnd` | `Spec => []ErrorHasFailedRows` |
| `DeletesDelivered` | `Spec => DeletedOnlyWhenDelivered` |
| `CloseIsClean` | `Spec => CloseKeepsAcks` |
| `AdmissionIsAtomic` | `Spec => [][AdmitsWhole]_vars` |
| `FlowPairsTogether` | `Spec => []FlowPairAtomic` |
| `Refinement` | `Spec => ImplementsPromise` |

**Breaker.** `IInv` relates slot, state and the counters; `TypeCorrect`,
`NeverWedged` (`SlotIsHeld`) and `CountersCorrect` (`CountersBelowThresholds`)
follow.

**Dispatch.** `BreakerAsSpecified` (`Spec => B!Spec`): each step of the dispatch is
a step of `CircuitBreaker` or leaves the breaker alone. `SinkNeverWedged` then
carries `NeverWedged` over to the composition. `NothingDropped` (`EventsKept`) rests
on `NothingForgotten`: each step may move an event between queue, worker, buffer,
drain and stream but not out of all of them, which needs that a task that rests
holds none (`Idle`). Once the sink is closed the queue counts no more, and
`SentinelsLast` says why it is empty of events after a graceful shutdown: sentinels
come last, and a worker that was not cancelled stops only when nothing else is left.
This is where at least one worker is assumed (`data_sink_worker_count` is at least
1). `Kept` adds that an event accepted twice has another copy when one of its
producers is cancelled. `TypeCorrect` bounds queue and buffer.

`BufferedOnce` (`OneCopy`) adds up the copies of an event in the hands of the
workers, of waiting producers, in queue and buffer, and in the two drains. The
lemmas about `Occurrences` say how concatenation, appending, taking a head and
splitting a sequence change the count, and each step is shown to move copies and
make none, except where it accepts an event (`Accept`). The property leaves out events
that producers give to the registry twice (`again`, the two places of one batch
included): two copies are then right. It holds of single events and batches alike.

**Ownership.** The properties are not inductive: `begin_mutation` looks at
neither freeze nor owner, leases lapse, and a freeze is written from an old copy of
the claim. What carries `SingleWriter` and `MarkerCoversWrite` is the fence:
`FencedDispatch` (who is about to send without another look at its lease holds
it), `HolderIsAlone` (who holds the fence and has passed its checks has nobody
else's write beside it) and `WritersCovered` (the claim locks for each writer by
itself, by its own marker or by a freeze), over the shapes of the tasks
(`Shapes`). All three speak of the writes no operator has overruled: a thaw turns
every write that is out into an overruled one, so no guard of the thaw is needed.
`ClaimCoversExposure` needs what the reads of a task are worth by the time
it acts on them: unless `misled`, nobody is inside but the holder of the fence
(`InsideIsFenced`), an operator has no write beside it (`OperatorIsAlone`), and a
request that found the symbol flat meets a lock or is
still right (`ReadsHold`). Every action changes one task; the lemmas about what a
step may do to Redis and to its own task (`ClaimStep`, `FenceStep`,
`FlightStep`, `PathStep`, `ReadStep`) are proved first, and the invariant from
them.

| Theorem | Statement |
|---|---|
| `TypeCorrect` | `Spec => []TypeOK` |
| `OneWriter` | `Spec => []SingleWriter` |
| `WritesAreVisible` | `Spec => []MarkerCoversWrite` |
| `ExposureIsClaimed` | `Spec => []ClaimCoversExposure` |
| `FreezesStand` | `Spec => OnlyThawLiftsFreeze` |

**Stream.** `TypesOK` says of each handler what its place implies about its
work. `OneLoop` (theorem `OneConnection`) needs that `_running` is cleared only
with its task (`DormantIsQuiet`) and that a task about to dial has no socket
(`DialsWithout`); `FailureIsFinal` (`FailedStaysDown`) follows from the phases.
`StreamsTheIndex` (`UpstreamMatchesIndex`) and `AncillaryKeepsUp`
(`AncillaryCovers`) come from `MainMatches`, which ties what the provider was told
to the index channel by channel, and `AncillaryKept`, by which a missing
ancillary frame has a sender. The supervisor asks the first dormant upstream of a
sequence; that there is a first one rests on the well-foundedness of the natural
numbers.

**Pollers.** `NeverSuppressed` (theorem `NothingSuppressed`) is inductive with
what a batch holds when it is about to be noted in Redis (`StoredWasPublished`).
`CompletedCovers` (`CompletionCovers`) needs the account of a sweep
(`SweepAccounts`): each id of the day is still to be asked for, in the batch
under way, missed, or published, by whichever run. `CompletionStays` is
`CompletedStays`.

**Backfill.** `VerificationIsSound` (`VerifiedIsCommitted`), `TypeCorrect` and
`NothingPublishedOutsideARun` (`PublishedWhileRunning`), which needs that chunks are
under way only while the job says RUNNING.
A manifest is written from dumps that were taken earlier and land in any order, so
the invariant speaks of every dump on its way (`AllTruthful`). A round of
acknowledgements reads one chunk after the other and Heber's answers may grow
meanwhile: `RoundHolds` says what the round under way has found. `Unverified`
says that nothing runs, or is about to, under the name of a verified job, since
it could replace the identities the verdict is about. `Counted` bounds
publications by submissions, which makes the identity of each one fresh, and
`Turns` says which task, submission and chunk may be at work at a time.

**Flow.** There are two invariants. `IInv`, of the log and what is read from it,
carries `NoHoleIsSent` (`GapFailsClosed`). An event the log misses leaves no
trace in it; `MissedAreMarked` says that the next entry after the hole, if there
is one, is a marker. A range over the hole then contains the marker, or the
marker has been trimmed, and `LogOK` (nothing is trimmed from a log shorter than
its limit) makes the start of the range too old. `LogIsShort` bounds the log so
that the position standing for `$` is never in it. What a step may make of a
replay is one relation, `Evolves`, proved of every action and used once.

`QInv` (theorem `QueuesInOrder`) adds the queues to it: the live sends of a
connection, what a barrier holds back, and what a replay task is sending. Three
parts speak of one connection at a time. `Arranged`: each queue is ascending and
ends with what the poller has handed over (`Handed`), and whatever is being flushed
comes before what is still held back. `NoneSkipped`: what an only resumption is owed
and was not sent is in one of the queues or still with the poller, and later than
everything that was sent; while the range is read, that holds of the events after
the range. This is where the moment of the high watermark matters: the barrier is up
before it is read, so an event is in the range, behind the barrier, or both.
`NoneRepeated`: what is queued was not sent, except for the end of the range, which
may be appended and not yet handed over when the watermark is read. `NoneRepeated`
needs `NoneSkipped`'s facts about the barrier in a form of its own (`Once`), because
a connection that is owed nothing any more must still not be sent an event twice.
The steps of the poller, of a request and of a connection are proved apart
(`DeliverKeeps`, `NextBatchEnds` and their like); steps that leave a connection
alone are dealt with once. `TypeCorrect` and `HandOffLosesNothing`
(`NothingSkipped`) follow.

The order of what is sent needs a second layer, `SInv` (theorem
`SentAndWaitingInOrder`), proved inductive relative to `QInv`. An event the barrier
held back may be older than the end of the range, because its append was answered
late; then it is in the range as well and the flush leaves it out, provided that
the range leaves out nothing of what was asked for (`RangeIsRead`: it is not
trimmed, or it is refused) and that the barrier holds back nothing else
(`HeldIsAsked`). So what is left after the range is later than all that was sent,
and stays so while it waits (`WaitingIsLater`). What the poller hands over is the
last event of the log, which was sent before only as the end of a range: that is a
part of `Once`. With the fact of `Once` about repetitions, `HandOffKeepsOrder`
(`SentInOrder`) follows. TLC checked `SInv` as an invariant on the instance of
`flow_handoff` before it was proved.

The order of a finite set of cursors (`InOrder`) exists by an induction on
the greatest position, written out over the set of positions for which it fails and
the least of them, since no induction theorem with an operator can be used.

`NobodyForgotten`, `ErrorsEnd`, `DeletesDelivered` and `CountersCorrect` are proved
and not part of a run.

Every invariant and action property that a passing run checks is stated by a
theorem. Only model-checked are the liveness properties `EventuallyDelivered`,
`CallersAnswered`, `Recovers`, `Dispatched`, `Revived`, `BarrierLifted`,
`Reconciled` and `DaySwept`: liveness under fairness is out of the prover's reach.

## 6. Where the code and its documentation disagree

Three runs are expected to find a violation; the line quoted is in
`PROJECT.json`.

* `ownership_freeze`: the freeze at route level is written after the fence is
  free, and `begin_mutation` does not look at it, so a request past its checks
  writes on a frozen symbol. `SingleWriter` and `MarkerCoversWrite` hold all the
  same.
* `sink_stranded`: events buffered while the circuit is open are replayed by a
  drain that the reconnecting probe starts. If that drain fails and the probe
  succeeds, they are buffered again on a connected client, and no drain starts
  until the next reset or producer timeout, where the changelog says that they
  are replayed when Redis recovers.
* `stream_rollback`: a request for several feeds of which one is refused
  unsubscribes all it had passed (`api/websocket.py:645-647`), also a feed
  that an earlier request had subscribed; the connection still lists it.

Others are seen in reading the code against its text, and are part of the models
(the properties are stated around them):

* the drain publishes a batch concurrently and retains failed rows, so a lane can be
  stored out of admission order (`durable_outbox_sink.py:42` promises FIFO, `:382`
  does otherwise);
* the duplicate check sees pending rows only, so a settled key is admitted with
  other bytes (`durable_outbox.py:138` says this fails closed, `:168` looks at
  pending rows);
* all lanes share one PubAck semaphore without a timeout
  (`durable_outbox_sink.py:437`, `CHANGELOG.md:109`);
* a call admitted before the circuit opened frees the slot of the probe in flight,
  and a second probe starts (`circuit_breaker.py:266`, comment at `:241`);
* a thaw lifts the marker of a write whose thread outlived its request
  (`cli.py:223-251`, the known limit at `CHANGELOG.md:124`), and an order the broker
  does not list yet lets its claim go (`CHANGELOG.md:105`);
* the plain release compares the owner and not the fence (`order_ownership.py:400`,
  comment at `:134-135`);
* a second resumption of a connection replaces the barrier of the first
  (`flow_fanout.py:255`, `CHANGELOG.md:176`), and the flush of the first pops
  whatever barrier stands when it ends (`:353`), so that one raised during its last
  send falls with what it held and its request is never replayed; and the last event
  of a replay can arrive once more live when the answer to its append was late;
* a cancellation while a submission is being saved is undone in the manifest by that
  save (`backfill.py:867-871`, docstring at `:931`). If it strikes before the save
  at `:867` is done, the run goes on all the same (`:989`) and ends in AWAITING_ACK
  with the reason `cancelled` (`:936`, `:1037-1039`). Its task polls as any other,
  but a restart neither reopens nor resumes such a manifest (`:615-629`), where
  `CHANGELOG.md:114` says that late acknowledgements are reconciled after a restart;
  `Reconciled` leaves out exactly this case. Chunk saves that land out of order can
  lose an identity at a crash (`CHANGELOG.md:114`);
* a day can be completed without ids whose fetch or publish failed
  (`CHANGELOG.md:321`, `:241`).

Two losses that `EventsKept` names instead of excluding: a drain that `close()`
cancels loses its snapshot (`cut`), which the log line about lost events does
not count; and a full buffer evicts (`evicted`), which it does count.

A related remark in `docs/FOLLOW_UPS.md:20-29` says that a freeze that cannot be
recorded leaves the claim reusable. The marker set before the write is still
there then, and `MarkerCoversWrite`, which holds over these behaviours, shows
that it closes the symbol for as long as the write may arrive.

## 7. Abstractions

*Outbox.* An event is a topic, an id and one of two bodies. The `attempts` and
`last_error` columns, metrics and sizes are left out; capacity is counted in rows.
Time is left out: the coalesce window, the retry delay and the drain timeout may
elapse at any moment. A failed publish was stored before the failure or never; what
is in flight at a crash likewise. One abandoned admission thread exists at a time.
Sequence numbers matter through their order only, so a rejected duplicate may use
one up. Cancelling the caller of a single `publish` only weakens the promise (its
event stays queued, nobody is told) and is left out. A crash ends the callers with
the process, so `waiting` is 0 after it.

*Breaker.* Excluded exceptions and the metrics are left out; the clock is the
flag `windowOver`.

*Ownership.* One symbol. The renewal of the fence is taken together with the
step it protects, and the look-up of the winner of a claim with its SET NX. A
reconciliation that finds too little is a failed read. The lease does not lapse
while a write is out, because the HTTP timeout of the thread is capped below it
(`config.py:10-19`). PATCH follows the protocol of cancel and is left out.

*Dispatch.* One volatile sink; sinks that admit durably are `DurableOutbox`. The
dedup look-up and the pre-check of the breaker are one step, as only the breaker
and Redis can change in between and both orders are explored. A command and its
reply are one step; one that fails may have been carried out. The connection
lock is held over a reset, so that the reset, the buffering and the breaker's
failure that follow it are one step. Cooldown and backoff are left out: a task
may be slow to connect. A drain sends event by event and a batch is one chunk.
By the time the registry closes, main.py has stopped the producers. Reset of the
breaker and health checks are left out.

*Stream.* Operations on different symbols do not meet, so a channel is an upstream
and a feed of one symbol. Index change and first frame are one step, as there is no
await between them and frames keep their order on a socket. Backoff times are left
out. The task of a refused attempt ends with the step in which `_running` is
cleared; in the code it still waits for the close of its socket
(`stream.py:873-875`), which nobody refers to any more, and then only logs, so that
a new task may start beside it for that time. The lazy mode of the default
configuration is modelled. The server closes the clients before it stops the
multiplexer.

*Flow.* The poller publishes one event after another, as `deliver` is called
from one task. A cursor is a position in the log. Both commands of a read are one
step: with the default limits what is trimmed in between is out of its range.
An empty log is acknowledged with `0-0`, and a later resumption from it may be
refused as trimmed though nothing was; the model does so too. Republishing after a
crash repeats only the event that was under way.

*Backfill.* A chunk's count and digests are one value and a time is the
number of the publication. No entry of the production capability table is
date-bounded at this commit, which the modelled run requires (the tests patch
one in). A raising save in verification ends the polling until a restart; a job
submitted again while it polls stays as it is. The other jobs of a feed are present
as a semaphore that may never be free. A wait for acknowledgements of length 0,
which polls once and ends, is left out.

*Pollers.* The day is one trading day after the configured hour. Release does
not ask who owns the claim, and a cancelled task's thread may take it
afterwards, so that it is an orphan until it goes stale; both are steps of the
model. A failed publish of a sweep is not retried that day.

## 8. What is not modelled

Components with status `not_modelled` in `PROJECT.json`, and why:

* *Dedup and caches*: the followers of a shared request wait for the leader's
  future and nothing outlives the request. That a cancelled leader takes its
  followers with it is the code's choice; the hazard is listed without a property.
* *Rate limiting*: check and record have no await between them.
* *Bulk jobs, market replay sessions, option capture*: in memory, forgotten at a
  restart. Their handlers are atomic between the awaits of one task, so that
  little interleaves. (A replay session's place under the concurrency limit is
  freed by the first of two WebSocket connections to end; that is read off
  `api/replay.py`, not checked.)
* *Other pollers*: fetch loops whose duplicate filter is that of `UwPoller`
  without Redis, and whose events enter `SinkDispatch`.
* *Providers, HTTP routers, middleware, audit, life cycle, configuration and pure
  transformations*: no shared state changes while a request runs; they are most of
  the repository's lines, and its unit tests are their proper check.

Of the modelled components: `LaneRoutedSink`, the splitting of large admission
batches and `verify_startup` of the outbox; the registry of breakers and the
failover order; PATCH, the owner index, the read routes and the other commands of
`cli.py`; the indexed and counted batch calls of the registry, its metrics and
shedding, and the chunks of the Redis sink; the data messages of the streams with
their validation and fan-out, permissions, quotas and send queues of
connections; `close()` of the flow fan-out; the estimates and list routes of the
backfill engine; market hours, the dynamic universe and the contents of the UW feeds.

## 9. Plan

*Done*: the eight models of section 2, with the proofs of section 5.

Left, in order of importance:

1. `FlowHandoff`: two connections whose live sends share the semaphore.
2. PATCH, the remainder of the outbox (`LaneRoutedSink`, batch splitting) and the
   failover over several breakers.
3. `SharedFetch` (leader and followers, two cache layers) and the replay
   sessions.
