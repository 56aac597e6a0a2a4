--------------------------- MODULE OrderOwnership ---------------------------
(***************************************************************************)
(* Who may write one symbol of the shared Alpaca account: the claim, fence *)
(* and mutation marker of OrderOwnershipGuard (gateway/core/               *)
(* order_ownership.py) as the fenced routes of gateway/api/alpaca/         *)
(* trading.py and the thaw-claim command of gateway/cli.py use them.       *)
(*                                                                         *)
(* A task is one request (or one thaw command).  A step is one Redis       *)
(* command or script, or one broker call, with the local decisions up to   *)
(* the next await.  The broker write runs on a thread: it is dispatched,   *)
(* may be applied at any later moment, and may outlive the call and the    *)
(* fence, which a single route frees when its call gives up.  Nothing      *)
(* keeps an operator from thawing the claim of such a write: it is on its  *)
(* way "overruled" from then on, the limit that CHANGELOG.md:124 carries   *)
(* forward, and the properties say what holds of the other writes.         *)
(*                                                                         *)
(* A renewal of the fence is taken together with the step it protects; the *)
(* lease cannot lapse in between, nor while the write is out, because the  *)
(* HTTP timeout of the thread is capped below the lease (config.py:10-19). *)
(*                                                                         *)
(* Left out: other symbols, the owner index (nothing reads it), PATCH      *)
(* (whose protocol is the one of cancel), and broker writes that do not    *)
(* pass through the gateway.                                               *)
(***************************************************************************)
EXTENDS Integers, FiniteSets

CONSTANTS
  Tasks,         \* requests of one behaviour, each made once
  Clients,       \* gateway clients sharing the account
  Kinds,         \* the routes and commands a behaviour may contain
  MaxFaults,     \* bound: faults of one behaviour
  FaultKinds,    \* the faults a behaviour may contain
  None           \* no client, no task, no claim

AllKinds == {"create", "cancel", "close", "bulk", "thaw"}

AllFaults == {"store", "read", "lag", "answer", "reject", "crash", "lapse"}

Claim == [owner: Clients, pending: Tasks \union {None}, frozen: BOOLEAN]

ASSUME OwnershipAssumption ==
  /\ Kinds \subseteq AllKinds
  /\ MaxFaults \in Nat /\ FaultKinds \subseteq AllFaults
  /\ None \notin Tasks \union Clients \union Claim

VARIABLES
  claim,         \* Redis: the claim on the symbol, which never expires
  fence,         \* Redis: whose token the lease holds
  book,          \* broker: owners of open orders, None for an order without one
  holders,       \* broker: clients whose fills make up the position
  task,          \* per task: route, client, where it is and what it has read
  flight,        \* per task: its broker write, see Flights
  misled,        \* history: a lease lapsed under a task that relied on it, a read
                 \* of the broker lagged, or a thaw began beside a write
  faults         \* how much of MaxFaults is used

vars == <<claim, fence, book, holders, task, flight, misled, faults>>

Steps == {"idle", "orders", "positions", "load", "release", "reload", "claim", "close",
          "begin", "dispatch", "write", "clear", "drop", "verify", "complete",
          "review", "thaw", "freezeGet", "freezeSet", "unfence", "lateGet", "lateSet", "done"}

(* On its way to the broker; on its way though a thaw has lifted what locked *)
(* the claim for it; applied; its thread has ended.                        *)
Flights == {"none", "out", "overruled", "applied", "over"}

OnTheWay == {"out", "overruled"}

(* stage: reading "before" the write, "after" it, or after a "refused" one. *)
(* code: what the route raises, "kept" when it must not free the fence.    *)
Idle == [kind |-> "create", client |-> None, at |-> "idle", stage |-> "before",
         claim |-> None, book |-> {}, held |-> FALSE, code |-> "4xx"]

Init ==
  /\ claim = None /\ fence = None
  /\ book = {} /\ holders = {}
  /\ task = [t \in Tasks |-> Idle]
  /\ flight = [t \in Tasks |-> "none"]
  /\ misled = FALSE /\ faults = 0

-----------------------------------------------------------------------------

At(t, step) == task[t].at = step

Go(t, step) == task' = [task EXCEPT ![t].at = step]

Kind(t) == task[t].kind

(* What a task has read is forgotten when it stops using it. *)
Forget(t) == [Idle EXCEPT !.kind = Kind(t), !.client = task[t].client]

(* A task whose write is still out keeps what the write is. *)
Ended(t) == [(IF flight[t] \in OnTheWay THEN Forget(t) ELSE Idle) EXCEPT !.at = "done"]

Done(t) == task' = [task EXCEPT ![t] = Ended(t)]

(* Raise: the finally block frees the fence first. *)
Leave(t, code) ==
  task' = [task EXCEPT ![t] = [Forget(t) EXCEPT !.at = "unfence", !.code = code]]

Freeze(t, code) ==
  task' = [task EXCEPT ![t] = [Forget(t) EXCEPT !.at = "freezeGet", !.code = code]]

Fault(kind) ==
  /\ kind \in FaultKinds
  /\ faults < MaxFaults
  /\ faults' = faults + 1
  /\ misled' = (misled \/ kind \in {"lag", "lapse"})

redis == <<claim, fence>>
broker == <<book, holders>>
counters == <<misled, faults>>
quiet == <<fence, broker, flight, counters>>

Locked(c) == c.frozen \/ c.pending # None

(* _assert_broker_state_is_unambiguous, of a complete reconciliation. *)
Ambiguous(c, t, pendingAllowed) ==
  LET owners == task[t].book IN
  \/ c # None /\ (c.frozen \/ (c.pending # None /\ ~pendingAllowed))
  \/ None \in owners \/ Cardinality(owners) > 1
  \/ c = None /\ (task[t].held \/ owners # {})
  \/ c # None /\ owners # {} /\ c.owner \notin owners

Flat(t) == ~task[t].held /\ task[t].book = {}

-----------------------------------------------------------------------------
(* The fence and the two broker reads *)

Acquire(t) ==
  \E k \in Kinds, c \in Clients \union {None} :
    /\ At(t, "idle") /\ fence = None
    /\ k = "thaw" <=> c = None
    /\ fence' = t
    /\ task' = [task EXCEPT ![t].at = IF k = "thaw" THEN "review" ELSE "orders",
                            ![t].kind = k, ![t].client = c]
    /\ misled' = (misled \/ (k = "thaw" /\ \E u \in Tasks : flight[u] \in OnTheWay))
    /\ UNCHANGED <<claim, broker, flight, faults>>

(* Redis fails before the fence is taken. *)
AcquireFails(t) ==
  /\ At(t, "idle") /\ Fault("store")
  /\ \E k \in Kinds \ {"bulk", "thaw"}, c \in Clients :
       task' = [task EXCEPT ![t].at = "lateGet", ![t].kind = k, ![t].client = c]
  /\ UNCHANGED <<redis, broker, flight>>

AfterReads(t) ==
  IF Kind(t) = "thaw" THEN "thaw"
  ELSE CASE task[t].stage = "after" -> "verify"
         [] task[t].stage = "refused" -> "drop"
         [] task[t].stage = "before" -> IF Kind(t) = "close" THEN "close" ELSE "load"

(* Variant: positions are read first and open orders second. *)
ReadOrdersLast(t) ==
  /\ \/ /\ At(t, "orders")
        /\ task' = [task EXCEPT ![t].at = "positions", ![t].held = holders # {}]
     \/ /\ At(t, "positions")
        /\ task' = [task EXCEPT ![t].at = AfterReads(t), ![t].book = book]
  /\ UNCHANGED <<claim, quiet>>

(* _reconcile_broker_symbol_state: open orders first, then positions. *)
ReadBroker(t) ==
  /\ \/ /\ At(t, "orders")
        /\ task' = [task EXCEPT ![t].at = "positions", ![t].book = book]
     \/ /\ At(t, "positions")
        /\ task' = [task EXCEPT ![t].at = AfterReads(t), ![t].held = holders # {}]
  /\ UNCHANGED <<claim, quiet>>

(* The broker's answer lags: orders it holds are not listed yet, or the     *)
(* position does not show the last fill (CHANGELOG.md:105).                *)
ReadLags(t) ==
  /\ Fault("lag")
  /\ \/ /\ At(t, "orders")
        /\ \E seen \in SUBSET book \ {book} :
             task' = [task EXCEPT ![t].at = "positions", ![t].book = seen]
     \/ /\ At(t, "positions")
        /\ task' = [task EXCEPT ![t].at = AfterReads(t), ![t].held = (holders = {})]
  /\ UNCHANGED <<redis, broker, flight>>

(* A read is refused, times out, raises or is ambiguous in itself.  Before  *)
(* the write an unclassified error freezes, an HTTPException (503, 504) and *)
(* a conflict do not; after it a conflict freezes, an HTTPException does    *)
(* only on the bulk route; after a refusal every error is swallowed.        *)
ReadFails(t) ==
  /\ At(t, "orders") \/ At(t, "positions")
  /\ Fault("read")
  /\ \/ task[t].stage = "before" /\ \E code \in {"4xx", "5xx"} : Leave(t, code)
     \/ task[t].stage = "refused" /\ Leave(t, "4xx")
     \/ task[t].stage = "after" /\ Kind(t) # "bulk" /\ Leave(t, "5xx")
     \/ /\ \/ task[t].stage = "after"
           \/ task[t].stage = "before" /\ Kind(t) \notin {"bulk", "thaw"}
        /\ \E code \in {"4xx", "5xx"} : Freeze(t, code)
  /\ UNCHANGED <<redis, broker, flight>>

-----------------------------------------------------------------------------
(* authorize_submission and authorize_close *)

Load(t) ==
  /\ At(t, "load")
  /\ IF Ambiguous(claim, t, FALSE) THEN Leave(t, "4xx")
     ELSE task' = [task EXCEPT ![t].at = IF claim # None /\ Flat(t) THEN "release" ELSE "reload",
                               ![t].claim = claim]
  /\ UNCHANGED <<claim, quiet>>

(* Variant: the release does not look at the freeze. *)
ReleasesFrozen(c, owner) == c # None /\ c.owner = owner /\ c.pending = None

(* What both release scripts ask of the stored claim. *)
Releasable(c, owner) == c # None /\ c.owner = owner /\ ~Locked(c)

(* _release_if_clear: whoever owns it, and without looking at the fence. *)
Release(t) ==
  /\ At(t, "release")
  /\ claim' = IF Releasable(claim, task[t].claim.owner) THEN None ELSE claim
  /\ task' = [task EXCEPT ![t].at = "reload", ![t].claim = None]
  /\ UNCHANGED quiet

Reload(t) ==
  /\ At(t, "reload")
  /\ IF Ambiguous(claim, t, FALSE) \/ (claim # None /\ claim.owner # task[t].client)
     THEN Leave(t, "4xx")
     ELSE task' = [task EXCEPT ![t] =
            [Forget(t) EXCEPT !.at = IF claim = None THEN "claim" ELSE "begin"]]
  /\ UNCHANGED <<claim, quiet>>

(* SET NX, and the look at the winner when it fails. *)
TakeClaim(t) ==
  /\ At(t, "claim")
  /\ claim' = IF claim = None
              THEN [owner |-> task[t].client, pending |-> None, frozen |-> FALSE]
              ELSE claim
  /\ IF claim'.owner = task[t].client THEN Go(t, "begin") ELSE Leave(t, "4xx")
  /\ UNCHANGED quiet

AuthorizeClose(t) ==
  /\ At(t, "close")
  /\ IF \/ Ambiguous(claim, t, FALSE) \/ ~task[t].held \/ task[t].book # {}
        \/ claim = None \/ claim.owner # task[t].client
     THEN Leave(t, "4xx")
     ELSE task' = [task EXCEPT ![t] = [Forget(t) EXCEPT !.at = "begin"]]
  /\ UNCHANGED <<claim, quiet>>

Marked(t) == [claim EXCEPT !.pending = t]

(* Variant: the marker is set to a JSON null, which Lua takes for true. *)
UnmarkedByNull == [claim EXCEPT !.pending = "null"]

Unmarked == [claim EXCEPT !.pending = None]

(* renew_fence and begin_mutation, which asks for neither owner nor freeze. *)
BeginMutation(t) ==
  /\ At(t, "begin")
  /\ CASE fence # t -> Leave(t, "4xx") /\ UNCHANGED claim
       [] fence = t /\ claim = None -> Leave(t, "5xx") /\ UNCHANGED claim
       [] fence = t /\ claim # None /\ claim.pending # None -> Leave(t, "4xx") /\ UNCHANGED claim
       [] OTHER -> Go(t, "dispatch") /\ claim' = Marked(t)
  /\ UNCHANGED quiet

-----------------------------------------------------------------------------
(* The broker write *)

(* Variant: the bulk route writes without renewing, on a lease that lapsed. *)
DispatchUnrenewed(t) ==
  /\ At(t, "dispatch")
  /\ Go(t, "write") /\ flight' = [flight EXCEPT ![t] = "out"]
  /\ UNCHANGED <<redis, broker, counters>>

(* The bulk route renews its lease once more, under the upstream permit. *)
Dispatch(t) ==
  /\ At(t, "dispatch")
  /\ IF Kind(t) = "bulk" /\ fence # t
     THEN Freeze(t, "kept") /\ UNCHANGED flight
     ELSE Go(t, "write") /\ flight' = [flight EXCEPT ![t] = "out"]
  /\ UNCHANGED <<redis, broker, counters>>

(* Refused by the gateway itself: no permit is free (503), or the provider *)
(* rejects the arguments of a create (400), which leaves the marker.       *)
NotDispatched(t) ==
  /\ At(t, "dispatch") /\ Fault("reject")
  /\ \/ Freeze(t, IF Kind(t) = "bulk" THEN "kept" ELSE "5xx")
     \/ Kind(t) = "create" /\ Leave(t, "4xx")
  /\ UNCHANGED <<redis, broker, flight>>

(* The broker applies the write; a close leaves an order without an owner. *)
Apply(t) ==
  /\ flight[t] \in OnTheWay
  /\ Kind(t) = "close" => holders # {}
  /\ book' = CASE Kind(t) = "create" -> book \union {task[t].client}
               [] Kind(t) = "close" -> book \union {None}
               [] OTHER -> book \ {task[t].client}
  /\ flight' = [flight EXCEPT ![t] = "applied"]
  /\ UNCHANGED <<redis, holders, task, counters>>

(* An order fills: it opens or flattens its owner's part of the position. *)
Fill(o) ==
  /\ o \in book
  /\ book' = book \ {o}
  /\ IF o = None THEN holders' = {} ELSE holders' \in {holders \union {o}, holders \ {o}}
  /\ UNCHANGED <<redis, task, flight, counters>>

Over(t) == flight' = [flight EXCEPT ![t] = "over"]

Succeeds(t) ==
  /\ At(t, "write") /\ flight[t] = "applied"
  /\ Over(t)
  /\ task' = [task EXCEPT ![t].at = "orders", ![t].stage = "after"]
  /\ UNCHANGED <<redis, broker, counters>>

(* Variant: a call that gave up is taken for a refusal. *)
UnansweredIsRefusal(t) ==
  /\ At(t, "write") /\ Fault("answer")
  /\ Go(t, "clear")
  /\ UNCHANGED <<redis, broker, flight>>

(* The broker's reply proves the write changed nothing.  The bulk route    *)
(* goes on to its reconciliation, the others clear their marker.           *)
Refused(t) ==
  /\ At(t, "write") /\ flight[t] = "out"
  /\ Over(t)
  /\ IF Kind(t) = "bulk" THEN task' = [task EXCEPT ![t].at = "orders", ![t].stage = "after"]
     ELSE Go(t, "clear")
  /\ UNCHANGED <<redis, broker, counters>>

(* No reply in time, or any other reply: it says nothing of what the broker *)
(* did or will do with the write.  A cancelled request of a single route   *)
(* frees its fence and freezes nothing.                                    *)
Unanswered(t) ==
  /\ At(t, "write") /\ Fault("answer")
  /\ \/ \E code \in {"4xx", "5xx"} : Freeze(t, IF Kind(t) = "bulk" THEN "kept" ELSE code)
     \/ Kind(t) # "bulk" /\ Leave(t, "4xx")
  /\ UNCHANGED <<redis, broker, flight>>

(* The thread, which goes on after its call gave up, returns. *)
ThreadEnds(t) ==
  /\ ~At(t, "write") /\ flight[t] \in OnTheWay \union {"applied"}
  /\ Over(t)
  /\ UNCHANGED <<redis, broker, task, counters>>

-----------------------------------------------------------------------------
(* After the write *)

Verify(t) ==
  /\ At(t, "verify")
  /\ IF Ambiguous(claim, t, TRUE) \/ claim = None \/ claim.owner # task[t].client
     THEN Freeze(t, "4xx")
     ELSE task' = [task EXCEPT ![t] = [Forget(t) EXCEPT !.at = "complete"]]
  /\ UNCHANGED <<claim, quiet>>

HoldsMarker(t) == claim # None /\ claim.pending = t

CompleteMutation(t) ==
  /\ At(t, "complete")
  /\ IF HoldsMarker(t) THEN claim' = Unmarked /\ Leave(t, "4xx")
     ELSE Freeze(t, "4xx") /\ UNCHANGED claim
  /\ UNCHANGED quiet

(* _clear_mutation_after_unapplied_write, and the renewal that a refused   *)
(* submission takes before it reads the broker again.                      *)
ClearMarker(t) ==
  /\ At(t, "clear")
  /\ claim' = IF HoldsMarker(t) THEN Unmarked ELSE claim
  /\ IF HoldsMarker(t) /\ fence = t /\ Kind(t) \in {"create", "close"}
     THEN task' = [task EXCEPT ![t].at = "orders", ![t].stage = "refused"]
     ELSE Leave(t, "4xx")
  /\ UNCHANGED quiet

(* release_claim_if_broker_is_clear *)
DropClaim(t) ==
  /\ At(t, "drop")
  /\ claim' = IF Flat(t) /\ fence = t /\ Releasable(claim, task[t].client) THEN None ELSE claim
  /\ Leave(t, "4xx")
  /\ UNCHANGED quiet

-----------------------------------------------------------------------------
(* freeze: a GET and a SET *)

(* Under the fence.  A freeze that is not recorded ends in a 503, and the  *)
(* bulk route then keeps its lease.                                        *)
Unrecorded(t) == IF Kind(t) = "bulk" THEN Done(t) ELSE Leave(t, "5xx")

FreezeGet(t) ==
  /\ At(t, "freezeGet")
  /\ IF claim = None THEN Unrecorded(t)
     ELSE task' = [task EXCEPT ![t].at = "freezeSet", ![t].claim = claim]
  /\ UNCHANGED <<claim, quiet>>

FreezeSet(t) ==
  /\ At(t, "freezeSet")
  /\ claim' = [task[t].claim EXCEPT !.frozen = TRUE]
  /\ IF task[t].code = "kept" THEN Done(t) ELSE Leave(t, task[t].code)
  /\ UNCHANGED quiet

AfterFence(t) ==
  IF task[t].code = "5xx" /\ Kind(t) \notin {"bulk", "thaw"} THEN Go(t, "lateGet") ELSE Done(t)

(* release_fence: compare and delete. *)
Unfence(t) ==
  /\ At(t, "unfence")
  /\ fence' = IF fence = t THEN None ELSE fence
  /\ AfterFence(t)
  /\ UNCHANGED <<claim, broker, flight, counters>>

(* The route's own _freeze_after_ambiguous_mutation on any 5xx, when the   *)
(* fence is free again.                                                    *)
LateFreezeGet(t) ==
  /\ At(t, "lateGet")
  /\ IF claim = None THEN Done(t)
     ELSE task' = [task EXCEPT ![t].at = "lateSet", ![t].claim = claim]
  /\ UNCHANGED <<claim, quiet>>

LateFreezeSet(t) ==
  /\ At(t, "lateSet")
  /\ claim' = [task[t].claim EXCEPT !.frozen = TRUE]
  /\ Done(t)
  /\ UNCHANGED quiet

-----------------------------------------------------------------------------
(* The operator *)

Review(t) ==
  /\ At(t, "review")
  /\ IF claim # None /\ Locked(claim)
     THEN task' = [task EXCEPT ![t].at = "orders", ![t].claim = claim]
     ELSE Leave(t, "4xx")
  /\ UNCHANGED <<claim, quiet>>

Overruled ==
  [t \in Tasks |-> IF flight[t] = "out" THEN "overruled" ELSE flight[t]]

(* thaw: swap the very claim that was reviewed, or delete it.  Neither it  *)
(* nor the command asks whether a write is still on its way.               *)
Thaw(t) ==
  /\ At(t, "thaw")
  /\ LET reviewed == task[t].claim IN
     \/ /\ fence = t /\ claim = reviewed
        /\ task[t].book \subseteq {reviewed.owner}
        /\ \/ claim' = [reviewed EXCEPT !.frozen = FALSE, !.pending = None]
           \/ Flat(t) /\ claim' = None
        /\ flight' = Overruled
     \/ /\ fence # t \/ claim # reviewed \/ ~(task[t].book \subseteq {reviewed.owner})
        /\ UNCHANGED <<claim, flight>>
  /\ Leave(t, "4xx")
  /\ UNCHANGED <<fence, broker, counters>>

-----------------------------------------------------------------------------
(* Redis failures, crashes, the lease *)

(* A Redis call raises.  A marker that was being set or cleared may have   *)
(* been, the reply being lost.                                             *)
StoreFails(t) ==
  /\ Fault("store")
  /\ \/ /\ task[t].at \in {"load", "release", "reload", "claim", "close", "begin"}
        /\ Leave(t, "5xx")
        /\ \/ UNCHANGED claim
           \/ At(t, "begin") /\ claim # None /\ claim.pending = None /\ claim' = Marked(t)
     \/ /\ task[t].at \in {"verify", "complete"}
        /\ IF Kind(t) = "bulk" THEN Freeze(t, "4xx") ELSE Leave(t, "5xx")
        /\ \/ UNCHANGED claim
           \/ At(t, "complete") /\ HoldsMarker(t) /\ claim' = Unmarked
     \/ /\ task[t].at \in {"clear", "drop", "review", "thaw"}
        /\ Leave(t, "4xx")
        /\ \/ UNCHANGED claim
           \/ At(t, "clear") /\ HoldsMarker(t) /\ claim' = Unmarked
     \/ At(t, "dispatch") /\ Kind(t) = "bulk" /\ Freeze(t, "kept") /\ UNCHANGED claim
     \/ task[t].at \in {"freezeGet", "freezeSet"} /\ Unrecorded(t) /\ UNCHANGED claim
     \/ At(t, "unfence") /\ AfterFence(t) /\ UNCHANGED claim
     \/ task[t].at \in {"lateGet", "lateSet"} /\ Done(t) /\ UNCHANGED claim
  /\ UNCHANGED <<fence, broker, flight>>

(* The gateway dies: Redis, the broker and what is on the wire stay. *)
Crash ==
  /\ Fault("crash")
  /\ task' = [t \in Tasks |->
       IF At(t, "idle") THEN task[t] ELSE Ended(t)]
  /\ UNCHANGED <<redis, broker, flight>>

(* The lease lapses by its TTL: after its task ended without freeing it or, *)
(* as a fault, while the task waits somewhere before or after its write.    *)
Lapse ==
  /\ fence # None /\ flight[fence] \notin OnTheWay
  /\ \/ At(fence, "done") /\ UNCHANGED counters
     \/ /\ ~At(fence, "done") /\ ~At(fence, "write")
        /\ At(fence, "dispatch") => Kind(fence) = "bulk"
        /\ Fault("lapse")
  /\ fence' = None
  /\ UNCHANGED <<claim, broker, task, flight>>

-----------------------------------------------------------------------------

TaskStep(t) ==
  \/ Acquire(t) \/ AcquireFails(t) \/ ReadBroker(t) \/ ReadLags(t) \/ ReadFails(t)
  \/ Load(t) \/ Release(t) \/ Reload(t) \/ TakeClaim(t) \/ AuthorizeClose(t)
  \/ BeginMutation(t) \/ Dispatch(t) \/ NotDispatched(t)
  \/ Succeeds(t) \/ Refused(t) \/ Unanswered(t)
  \/ Verify(t) \/ CompleteMutation(t) \/ ClearMarker(t) \/ DropClaim(t)
  \/ FreezeGet(t) \/ FreezeSet(t) \/ Unfence(t) \/ LateFreezeGet(t) \/ LateFreezeSet(t)
  \/ Review(t) \/ Thaw(t) \/ StoreFails(t)

Next ==
  \/ \E t \in Tasks : TaskStep(t) \/ Apply(t) \/ ThreadEnds(t)
  \/ \E o \in Clients \union {None} : Fill(o)
  \/ Crash \/ Lapse

Spec == Init /\ [][Next]_vars

-----------------------------------------------------------------------------
(* Properties *)

TypeOK ==
  /\ claim \in Claim \union {None}
  /\ fence \in Tasks \union {None}
  /\ book \subseteq Clients \union {None} /\ holders \subseteq Clients
  /\ task \in [Tasks -> [kind: AllKinds, client: Clients \union {None}, at: Steps,
                         stage: {"before", "after", "refused"}, claim: Claim \union {None},
                         book: SUBSET (Clients \union {None}), held: BOOLEAN,
                         code: {"4xx", "5xx", "kept"}]]
  /\ flight \in [Tasks -> Flights]
  /\ misled \in BOOLEAN /\ faults \in 0..MaxFaults

(* Two broker writes are never on their way at once, whoever sent them: a    *)
(* task whose call timed out still owns the symbol through its marker or     *)
(* freeze, though its fence is free.  Only a write whose lock an operator    *)
(* lifted while it was on its way may have another beside it, and only that  *)
(* one: the writes sent after the thaw exclude each other again.             *)
SingleWriter == \A t, u \in Tasks : flight[t] = "out" /\ flight[u] = "out" => t = u

(* While a write may still reach the broker, Redis says so: the claim carries *)
(* a marker or a freeze, also after a crash, after a freeze that could not    *)
(* be recorded, and after an unfenced freeze that overwrote the marker; until *)
(* an operator's thaw lifts that very lock.                                   *)
MarkerCoversWrite ==
  \A t \in Tasks : flight[t] = "out" => claim # None /\ Locked(claim)

(* Whatever a client has at the broker, an open order, a fill or a write on  *)
(* its way, stands under a claim: no release, thaw or takeover leaves the    *)
(* symbol looking free while it is not.  Of behaviours in which every lease  *)
(* outlives its task (the plain release does not ask for the fence), the     *)
(* broker's answers do not lag (CHANGELOG.md:105) and no thaw begins while a *)
(* write is on its way (CHANGELOG.md:124).                                   *)
Exposed ==
  holders # {} \/ book \ {None} # {} \/ \E t \in Tasks : flight[t] \in OnTheWay

ClaimCoversExposure == Exposed /\ ~misled => claim # None

(* Nothing but the operator's thaw lifts a freeze. *)
Frozen == claim # None /\ claim.frozen

OnlyThawLiftsFreeze ==
  [][Frozen /\ ~Frozen' => \E t \in Tasks : At(t, "thaw") /\ ~At(t, "thaw")']_vars

-----------------------------------------------------------------------------
(* What the sources say and the code does not do *)

(* "Any ambiguous broker outcome freezes the symbol and every later mutation *)
(* on it rejects until an operator clears the claim" (CHANGELOG.md:106): no  *)
(* task takes the marker of a frozen claim and goes on to its write.         *)
FrozenBlocksMutations ==
  [][\A t \in Tasks : At(t, "begin") /\ At(t, "dispatch")' => ~Frozen]_vars

=============================================================================
