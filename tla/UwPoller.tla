------------------------------- MODULE UwPoller -------------------------------
(***************************************************************************)
(* The Unusual Whales poller (gateway/core/uw_poller.py, base_poller.py)   *)
(* of several gateway processes that share one end-of-day (EOD) run state  *)
(* file (gateway/core/uw_eod_state.py) and one Redis, over one trading day *)
(* after the configured hour.  A process has two lanes that publish: its   *)
(* poll loop ("live") and its EOD task ("eod").  The feeds of the lanes    *)
(* are different, so are their event ids.                                  *)
(*                                                                         *)
(* A step is what a lane does between two awaits.  The file is read and    *)
(* written under an exclusive flock: a transition of it is one step.  The  *)
(* claim runs on a thread, so the task that asked for it may be cancelled  *)
(* while the thread goes on.                                               *)
(*                                                                         *)
(* An EOD sweep asks for the data of a ticker at a time; some tickers are  *)
(* under way together, which is the choice of a set of ids here.  A        *)
(* ticker's event has one id.  Left out: envelopes without an id (never    *)
(* deduplicated), market hours, the dynamic universe, the fan-out to       *)
(* WebSocket clients (module FlowHandoff), metrics.                        *)
(***************************************************************************)
EXTENDS FiniteSets, Naturals

CONSTANTS
  Procs,       \* the gateway processes
  LiveProcs,   \* those whose live feeds are enabled
  LiveIds,     \* event ids the live feeds offer
  EodIds,      \* event ids of the day's EOD feeds, all tickers
  MaxFaults    \* bound: failed runs, stops and crashes of one behaviour

ASSUME PollerAssumption ==
  /\ LiveProcs \subseteq Procs
  /\ LiveIds \intersect EodIds = {}
  /\ MaxFaults \in Nat

Lanes == {"live", "eod"}

Ids == LiveIds \union EodIds

IdsOf == [live |-> LiveIds, eod |-> EodIds]

VARIABLES
  file,       \* status of the day's run, "stale" for a running claim past its time
  absent,     \* history: ids missed by the run that marked the day completed
  running,    \* process -> its poll loop runs
  guard,      \* process -> _last_eod_date is today
  task,       \* process -> its EOD task: "none", "created", "claiming", "sweeping"
  thread,     \* process -> the claim's thread: "none", "asked", "won", "lost"
  todo,       \* process -> ids of tickers the sweep has not begun
  missed,     \* history: process -> ids this sweep will not have at the sink
  batch,      \* process, lane -> the batch under way in _publish_envelopes
  seen,       \* process -> _seen_ids
  keys,       \* Redis: the dedup keys of published ids
  published,  \* ids that reached the sink
  faults      \* how much of MaxFaults is used

(* In missed are the ids whose fetch raised, counted in totals["errors"],  *)
(* and those a failed or partial publish left out, counted nowhere: the    *)
(* failure is logged, and the sweep goes on (_publish_envelopes).          *)

day   == <<file, absent>>
runs  == <<guard, task, thread, todo>>
dedup == <<seen, keys>>
vars  == <<day, running, runs, missed, batch, dedup, published, faults>>

(* Where a batch is: to be looked up in Redis, to be published, or landed  *)
(* and to be noted in Redis.                                               *)
Stages == {"lookup", "publish", "store"}

NoBatch == [at |-> "idle", ids |-> {}]

At(stage, ids) == IF ids = {} THEN NoBatch ELSE [at |-> stage, ids |-> ids]

Idle(p) == [batch EXCEPT ![p] = [l \in Lanes |-> NoBatch]]

Init ==
  /\ file = "none" /\ absent = {}
  /\ running = [p \in Procs |-> FALSE]
  /\ guard = [p \in Procs |-> FALSE]
  /\ task = [p \in Procs |-> "none"]
  /\ thread = [p \in Procs |-> "none"]
  /\ todo = [p \in Procs |-> {}]
  /\ missed = [p \in Procs |-> {}]
  /\ batch = [p \in Procs |-> [l \in Lanes |-> NoBatch]]
  /\ seen = [p \in Procs |-> {}]
  /\ keys = {} /\ published = {}
  /\ faults = 0

Fault ==
  /\ faults < MaxFaults
  /\ faults' = faults + 1

-----------------------------------------------------------------------------
(* The run state of the day *)

(* should_defer *)
Deferred == file \in {"running", "completed"}

(* claim, on its thread; a lock that cannot be had is a claim refused. *)
Claim(p) ==
  /\ thread[p] = "asked"
  /\ IF Deferred
     THEN thread' = [thread EXCEPT ![p] = "lost"] /\ UNCHANGED file
     ELSE thread' = [thread EXCEPT ![p] = "won"] /\ file' = "running"
  /\ UNCHANGED <<absent, running, guard, task, todo, missed, batch, dedup, published, faults>>

(* _is_running_stale: stale_after_seconds have passed since the claim. *)
GoesStale ==
  /\ file = "running"
  /\ file' = "stale"
  /\ UNCHANGED <<absent, running, runs, missed, batch, dedup, published, faults>>

(* Variant: the claim is removed whatever its status is. *)
ReleaseAny == file' = "none"

(* release: no owner is asked for, only the status of the day's claim. *)
Release == file' = IF file \in {"running", "stale"} THEN "none" ELSE file

-----------------------------------------------------------------------------
(* The EOD task *)

(* Variant: the guard is left to the task. *)
SpawnUnguarded(p) ==
  /\ running[p] /\ ~guard[p] /\ ~Deferred
  /\ task[p] = "none"
  /\ task' = [task EXCEPT ![p] = "created"]
  /\ UNCHANGED <<day, running, guard, thread, todo, missed, batch, dedup, published, faults>>

(* _poll_loop and _should_poll_eod: the guard is set before the task runs. *)
Spawn(p) ==
  /\ running[p] /\ ~guard[p] /\ ~Deferred
  /\ task[p] = "none"
  /\ guard' = [guard EXCEPT ![p] = TRUE]
  /\ task' = [task EXCEPT ![p] = "created"]
  /\ UNCHANGED <<day, running, thread, todo, missed, batch, dedup, published, faults>>

(* The task begins: it has the claim taken on a thread. *)
AskClaim(p) ==
  /\ task[p] = "created"
  /\ task' = [task EXCEPT ![p] = "claiming"]
  /\ thread' = [thread EXCEPT ![p] = "asked"]
  /\ UNCHANGED <<day, running, guard, todo, missed, batch, dedup, published, faults>>

(* The answer: a refused claim ends the task, and the guard stays. *)
Claimed(p) ==
  /\ task[p] = "claiming" /\ thread[p] \in {"won", "lost"}
  /\ thread' = [thread EXCEPT ![p] = "none"]
  /\ IF thread[p] = "won"
     THEN /\ task' = [task EXCEPT ![p] = "sweeping"]
          /\ todo' = [todo EXCEPT ![p] = EodIds]
          /\ missed' = [missed EXCEPT ![p] = {}]
     ELSE /\ task' = [task EXCEPT ![p] = "none"]
          /\ UNCHANGED <<todo, missed>>
  /\ UNCHANGED <<day, running, guard, batch, dedup, published, faults>>

(* Tickers whose fetch raises are counted as errors, and not asked again. *)
FetchFails(p) ==
  /\ task[p] = "sweeping" /\ batch[p].eod = NoBatch
  /\ \E ids \in SUBSET todo[p] \ {{}} :
       /\ todo' = [todo EXCEPT ![p] = @ \ ids]
       /\ missed' = [missed EXCEPT ![p] = @ \union ids]
  /\ UNCHANGED <<day, running, guard, task, thread, batch, dedup, published, faults>>

(* Variant: the day is marked while tickers are still being published. *)
CompleteAhead(p) ==
  /\ task[p] = "sweeping" /\ todo[p] = {}
  /\ file' = "completed"
  /\ absent' = missed[p]
  /\ guard' = [guard EXCEPT ![p] = TRUE]
  /\ task' = [task EXCEPT ![p] = "none"]
  /\ UNCHANGED <<running, thread, todo, missed, batch, dedup, published, faults>>

(* mark_completed, whoever holds the claim by now, when every ticker was   *)
(* swept; what was not published does not keep it from being marked.       *)
Complete(p) ==
  /\ task[p] = "sweeping" /\ batch[p].eod = NoBatch /\ todo[p] = {}
  /\ file' = "completed"
  /\ absent' = missed[p]
  /\ guard' = [guard EXCEPT ![p] = TRUE]
  /\ task' = [task EXCEPT ![p] = "none"]
  /\ UNCHANGED <<running, thread, todo, missed, batch, dedup, published, faults>>

(* Variant: the guard of the day stays set when the run fails. *)
RunFailsGuarded(p) ==
  /\ Fault
  /\ \/ task[p] = "claiming" /\ thread[p] = "asked"
     \/ task[p] = "sweeping"
  /\ task' = [task EXCEPT ![p] = "none"]
  /\ thread' = [thread EXCEPT ![p] = "none"]
  /\ batch' = [batch EXCEPT ![p].eod = NoBatch]
  /\ Release
  /\ UNCHANGED <<absent, running, guard, todo, missed, dedup, published>>

(* An exception out of the claim, the universe or mark_completed: the      *)
(* guard is rolled back and the claim released.                            *)
RunFails(p) ==
  /\ Fault
  /\ \/ task[p] = "claiming" /\ thread[p] = "asked"
     \/ task[p] = "sweeping"
  /\ guard' = [guard EXCEPT ![p] = FALSE]
  /\ task' = [task EXCEPT ![p] = "none"]
  /\ thread' = [thread EXCEPT ![p] = "none"]
  /\ batch' = [batch EXCEPT ![p].eod = NoBatch]
  /\ Release
  /\ UNCHANGED <<absent, running, todo, missed, dedup, published>>

-----------------------------------------------------------------------------
(* _publish_envelopes *)

(* What a lane offers next: what the feeds hold, or tickers of the sweep. *)
Offered(p, l) == IF l = "live" THEN LiveIds ELSE todo[p]

Polls(p, l) == IF l = "live" THEN running[p] /\ p \in LiveProcs ELSE task[p] = "sweeping"

(* Ids in _seen_ids are duplicates. *)
Offer(p, l) ==
  /\ Polls(p, l) /\ batch[p][l] = NoBatch
  /\ \E ids \in SUBSET Offered(p, l) \ {{}} :
       /\ batch' = [batch EXCEPT ![p][l] = At("lookup", ids \ seen[p])]
       /\ todo' = IF l = "eod" THEN [todo EXCEPT ![p] = @ \ ids] ELSE todo
  /\ UNCHANGED <<day, running, guard, task, thread, missed, dedup, published, faults>>

(* _load_redis_duplicate_ids: a lookup that fails finds no duplicate. *)
Lookup(p, l) ==
  /\ batch[p][l].at = "lookup"
  /\ \E found \in {keys, {}} :
       batch' = [batch EXCEPT ![p][l] = At("publish", batch[p][l].ids \ found)]
  /\ UNCHANGED <<day, running, runs, missed, dedup, published, faults>>

(* Variant: the whole batch is marked once it was sent. *)
PublishAssumed(p, l) ==
  /\ batch[p][l].at = "publish"
  /\ LET ids == batch[p][l].ids IN
     \E written \in SUBSET ids :
       /\ published' = published \union written
       /\ seen' = [seen EXCEPT ![p] = @ \union ids]
       /\ batch' = [batch EXCEPT ![p][l] = At("store", ids)]
       /\ UNCHANGED missed
  /\ UNCHANGED <<day, running, runs, keys, faults>>

(* Some of the batch reaches the sink, some of that is reported, and that  *)
(* is marked.  In a sweep the rest is not tried again today.               *)
Publish(p, l) ==
  /\ batch[p][l].at = "publish"
  /\ LET ids == batch[p][l].ids IN
     \E written \in SUBSET ids : \E landed \in SUBSET written :
       /\ published' = published \union written
       /\ seen' = [seen EXCEPT ![p] = @ \union landed]
       /\ batch' = [batch EXCEPT ![p][l] = At("store", landed)]
       /\ missed' = IF l = "eod" THEN [missed EXCEPT ![p] = @ \union (ids \ landed)] ELSE missed
  /\ UNCHANGED <<day, running, runs, keys, faults>>

(* set_many; an error of Redis is logged and no more. *)
Store(p, l) ==
  /\ batch[p][l].at = "store"
  /\ \/ keys' = keys \union batch[p][l].ids
     \/ UNCHANGED keys
  /\ batch' = [batch EXCEPT ![p][l] = NoBatch]
  /\ UNCHANGED <<day, running, runs, missed, seen, published, faults>>

(* _mark_seen over its cap and _cleanup_cache evict the oldest id. *)
Evict(p) ==
  /\ running[p]
  /\ \E id \in seen[p] : seen' = [seen EXCEPT ![p] = @ \ {id}]
  /\ UNCHANGED <<day, running, runs, missed, batch, keys, published, faults>>

-----------------------------------------------------------------------------
(* Processes *)

(* start: nothing of the process's memory survives. *)
Start(p) ==
  /\ ~running[p] /\ thread[p] = "none"
  /\ running' = [running EXCEPT ![p] = TRUE]
  /\ UNCHANGED <<day, runs, missed, batch, dedup, published, faults>>

(* What is left of process p. *)
Ends(p) ==
  /\ running' = [running EXCEPT ![p] = FALSE]
  /\ guard' = [guard EXCEPT ![p] = FALSE]
  /\ task' = [task EXCEPT ![p] = "none"]
  /\ todo' = [todo EXCEPT ![p] = {}]
  /\ missed' = [missed EXCEPT ![p] = {}]
  /\ batch' = Idle(p)
  /\ seen' = [seen EXCEPT ![p] = {}]
  /\ UNCHANGED <<absent, keys, published>>

(* stop: a task that has begun is cancelled, and releases the claim; a     *)
(* thread asked for it takes it all the same before the process exits.     *)
Stop(p) ==
  /\ running[p] /\ Fault
  /\ Ends(p)
  /\ IF task[p] \in {"claiming", "sweeping"} THEN Release ELSE UNCHANGED file
  /\ thread' = [thread EXCEPT ![p] = IF @ = "asked" THEN "asked" ELSE "none"]

(* The thread of a stopped process ends, and with it the process. *)
Exit(p) ==
  /\ ~running[p] /\ thread[p] \in {"won", "lost"}
  /\ thread' = [thread EXCEPT ![p] = "none"]
  /\ UNCHANGED <<day, running, guard, task, todo, missed, batch, dedup, published, faults>>

Crash(p) ==
  /\ running[p] /\ Fault
  /\ Ends(p)
  /\ thread' = [thread EXCEPT ![p] = "none"]
  /\ UNCHANGED file

(* What a process and its tasks do when nothing interferes. *)
Runs(p) ==
  \/ Start(p) \/ Exit(p) \/ Spawn(p) \/ AskClaim(p) \/ Claim(p) \/ Claimed(p) \/ Complete(p)
  \/ Lookup(p, "eod") \/ Publish(p, "eod") \/ Store(p, "eod")

Sweeps(p) == Offer(p, "eod") \/ FetchFails(p)

Next ==
  \/ GoesStale
  \/ \E p \in Procs :
       \/ Runs(p) \/ Sweeps(p) \/ Evict(p)
       \/ Offer(p, "live") \/ Lookup(p, "live") \/ Publish(p, "live") \/ Store(p, "live")
       \/ RunFails(p) \/ Stop(p) \/ Crash(p)

Spec == Init /\ [][Next]_vars

(* The tasks of a process are scheduled, it is started again when it ends, *)
(* and time passes for a claim.                                            *)
FairSpec ==
  /\ Spec
  /\ WF_vars(GoesStale)
  /\ \A p \in Procs : WF_vars(Runs(p)) /\ WF_vars(Sweeps(p))

-----------------------------------------------------------------------------
(* Properties *)

(* Type invariant; the guard of the day is set while the process has an    *)
(* EOD task, and a claim under way has the task that asked for it.         *)
TypeOK ==
  /\ file \in {"none", "running", "stale", "completed"}
  /\ absent \subseteq EodIds
  /\ running \in [Procs -> BOOLEAN]
  /\ guard \in [Procs -> BOOLEAN]
  /\ task \in [Procs -> {"none", "created", "claiming", "sweeping"}]
  /\ thread \in [Procs -> {"none", "asked", "won", "lost"}]
  /\ \A p \in Procs : running[p] =>
       /\ task[p] # "none" => guard[p]
       /\ thread[p] # "none" <=> task[p] = "claiming"
  /\ \A p \in Procs : ~running[p] => task[p] = "none"
  /\ todo \in [Procs -> SUBSET EodIds]
  /\ missed \in [Procs -> SUBSET EodIds]
  /\ batch \in [Procs -> [Lanes -> [at : Stages \union {"idle"}, ids : SUBSET Ids]]]
  /\ seen \in [Procs -> SUBSET Ids]
  /\ keys \subseteq Ids /\ published \subseteq Ids
  /\ faults \in 0..MaxFaults

(* An id that a process or Redis takes for a duplicate reached the sink:   *)
(* no failed or half-failed publish keeps a later cycle, a later run or    *)
(* another process from publishing it (_publish_envelopes).                *)
NeverSuppressed == \A p \in Procs : seen[p] \union keys \subseteq published

(* A day marked completed lacks in the sink only ids whose fetch or whose  *)
(* publish failed in the run that marked it, although parts of it were     *)
(* published by runs of other processes that failed, crashed or lost their *)
(* claim, and whatever duplicates the run passed over (mark_completed).    *)
CompletedCovers == file = "completed" => EodIds \ absent \subseteq published

(* A completed day stays completed: neither a failed run that lost its     *)
(* claim, nor a late claim, makes the gateway sweep it again (release).    *)
CompletedStays == [][file = "completed" => file' = "completed"]_vars

(* The day's sweep completes in the end, however the processes that try    *)
(* fail, stop, crash or take the claim from one another.                   *)
DaySwept == <>(file = "completed")

=============================================================================
