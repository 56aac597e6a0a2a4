------------------------ MODULE OrderOwnershipProofs ------------------------
(***************************************************************************)
(* Safety of module OrderOwnership for any number of requests, clients and *)
(* faults.                                                                 *)
(*                                                                         *)
(* Neither SingleWriter nor MarkerCoversWrite is inductive: a marker is    *)
(* taken without a look at the freeze or the owner, fences lapse, and      *)
(* freezes are written from an old copy of the claim.  What carries them   *)
(* is the fence: whoever holds it and has passed the checks of its claim   *)
(* is the only one with a write, since the write of anyone before would    *)
(* still have locked the claim (HolderIsAlone, WritersCovered).            *)
(***************************************************************************)
EXTENDS OrderOwnership, TLAPS

TaskRecord ==
  [kind: AllKinds, client: Clients \union {None}, at: Steps,
   stage: {"before", "after", "refused"}, claim: Claim \union {None},
   book: SUBSET (Clients \union {None}), held: BOOLEAN, code: {"4xx", "5xx", "kept"}]

(* Requests have a client, commands review and thaw, and a task that is    *)
(* about to record a freeze or a thaw has read a claim.                    *)
ForRequests == {"load", "release", "reload", "claim", "close", "begin", "dispatch",
                "write", "clear", "drop", "verify", "complete"}

Fit ==
  {r \in TaskRecord :
     /\ r.at \in ForRequests => r.kind # "thaw"
     /\ r.at \in {"review", "thaw"} => r.kind = "thaw"
     /\ r.at \notin {"idle", "done"} /\ r.kind # "thaw" => r.client \in Clients
     /\ r.at \in {"freezeSet", "lateSet", "thaw"} => r.claim # None
     /\ r.at \in {"orders", "positions"} /\ r.kind = "thaw" => r.claim # None}

(* A write that is out was sent by a task that waits for it, or has given up. *)
Gone == {"write", "freezeGet", "freezeSet", "unfence", "lateGet", "lateSet", "done"}

OutIsGone == \A t \in Tasks : flight[t] = "out" => task[t].at \in Gone

Shapes ==
  /\ TypeOK
  /\ task \in [Tasks -> Fit]
  /\ OutIsGone

(* Whoever is about to send its write without another look at the lease     *)
(* holds it.                                                                *)
FencedDispatch ==
  \A t \in Tasks : At(t, "dispatch") /\ Kind(t) # "bulk" => fence = t

(* Whoever holds the fence and is past its checks has nobody else's write   *)
(* beside it, but those that an operator has overruled.                     *)
HolderIsAlone ==
  \A t, u \in Tasks :
    fence = t /\ flight[u] = "out" /\ task[t].at \in {"claim", "begin", "dispatch"} => u = t

(* The claim locks for each writer by itself: by its own marker, or by a    *)
(* freeze, which nothing but a thaw removes.                                *)
Covers(t) == claim # None /\ (claim.frozen \/ claim.pending = t)

WritersCovered ==
  \A t \in Tasks : flight[t] = "out" \/ (At(t, "dispatch") /\ fence = t) => Covers(t)

Protocol ==
  /\ Shapes
  /\ FencedDispatch /\ HolderIsAlone /\ WritersCovered
  /\ SingleWriter

Outside == {"idle", "lateGet", "lateSet", "done"}

(* Unless misled, whoever is between its fence and its release holds it.  *)
InsideIsFenced ==
  ~misled => \A t \in Tasks : task[t].at \notin Outside => fence = t

(* A request that found the symbol flat either meets a lock, so that it     *)
(* will give up, or what it read is still true; an operator's is.           *)
NoneOut == \A u \in Tasks : flight[u] \notin OnTheWay

(* Unless misled, nothing has been overruled, and an operator has no write  *)
(* beside it.                                                               *)
OperatorIsAlone ==
  ~misled =>
    /\ \A u \in Tasks : flight[u] # "overruled"
    /\ \A t \in Tasks : fence = t /\ Kind(t) = "thaw" /\ task[t].at \notin Outside => NoneOut

LockedFor(t) == Kind(t) # "thaw" /\ claim # None /\ Locked(claim)

ReadsHold ==
  ~misled => \A t \in Tasks :
    /\ At(t, "positions") /\ task[t].book = {} =>
         LockedFor(t) \/ (NoneOut /\ book \subseteq {None})
    /\ task[t].at \in {"load", "release", "drop", "thaw"} /\ Flat(t) =>
         LockedFor(t) \/ (NoneOut /\ book \subseteq {None} /\ holders = {})
    /\ At(t, "release") => Flat(t)

IInv == Protocol /\ InsideIsFenced /\ OperatorIsAlone /\ ReadsHold /\ ClaimCoversExposure

-----------------------------------------------------------------------------
(* What the steps do to their own task *)

LEMMA IdleFits == Idle \in Fit /\ Idle \in TaskRecord
<1>1. Idle \in TaskRecord
  BY DEF Idle, TaskRecord, AllKinds, Steps
<1> QED BY <1>1 DEF Fit, Idle, ForRequests

LEMMA ForgetTyped ==
  ASSUME Shapes, NEW t \in Tasks
  PROVE  /\ Forget(t) \in TaskRecord
         /\ Forget(t).kind = Kind(t) /\ Forget(t).client = task[t].client
<1>1. task[t].kind \in AllKinds /\ task[t].client \in Clients \union {None}
  BY DEF Shapes, Fit, TaskRecord
<1>2. Idle \in TaskRecord
  BY IdleFits
<1> QED BY <1>1, <1>2 DEF TaskRecord, Forget, Kind

LEMMA ForgetFits ==
  ASSUME Shapes, NEW t \in Tasks, NEW step \in Steps, NEW code \in {"4xx", "5xx", "kept"},
         ~At(t, "idle"), ~At(t, "done"),
         step \notin {"review", "thaw", "freezeSet", "lateSet", "orders", "positions"},
         step \in ForRequests => Kind(t) # "thaw"
  PROVE  /\ [Forget(t) EXCEPT !.at = step, !.code = code] \in Fit
         /\ [Forget(t) EXCEPT !.at = step] \in Fit
<1>1. task[t] \in Fit
  BY DEF Shapes
<1>2. ASSUME NEW r \in TaskRecord, r.kind = Kind(t), r.client = task[t].client, r.at = step
      PROVE  r \in Fit
  BY <1>1, <1>2 DEF Fit, At, Kind
<1>3. /\ Forget(t) \in TaskRecord
      /\ Forget(t).kind = Kind(t) /\ Forget(t).client = task[t].client
  BY ForgetTyped
<1> DEFINE p == [Forget(t) EXCEPT !.at = step, !.code = code]
           q == [Forget(t) EXCEPT !.at = step]
<1>4. p \in TaskRecord /\ p.kind = Kind(t) /\ p.client = task[t].client /\ p.at = step
  BY <1>3 DEF TaskRecord
<1>5. q \in TaskRecord /\ q.kind = Kind(t) /\ q.client = task[t].client /\ q.at = step
  BY <1>3 DEF TaskRecord
<1> QED BY <1>2, <1>4, <1>5

LEMMA LeaveFits ==
  ASSUME Shapes, NEW t \in Tasks, NEW code \in {"4xx", "5xx", "kept"},
         ~At(t, "idle"), ~At(t, "done"),
         Leave(t, code)
  PROVE  /\ task' = [task EXCEPT ![t] = [Forget(t) EXCEPT !.at = "unfence", !.code = code]]
         /\ [Forget(t) EXCEPT !.at = "unfence", !.code = code] \in Fit
BY ForgetFits, ZenonT(80) DEF Leave, Steps, ForRequests

LEMMA FreezeFits ==
  ASSUME Shapes, NEW t \in Tasks, NEW code \in {"4xx", "5xx", "kept"},
         ~At(t, "idle"), ~At(t, "done"),
         Freeze(t, code)
  PROVE  /\ task' = [task EXCEPT ![t] = [Forget(t) EXCEPT !.at = "freezeGet", !.code = code]]
         /\ [Forget(t) EXCEPT !.at = "freezeGet", !.code = code] \in Fit
BY ForgetFits DEF Freeze, Steps, ForRequests

LEMMA EndedFits ==
  ASSUME Shapes, NEW t \in Tasks
  PROVE  Ended(t) \in Fit /\ Ended(t).at = "done"
<1>1. /\ Idle \in TaskRecord /\ Forget(t) \in TaskRecord
      /\ "done" \in Steps
  BY IdleFits, ForgetTyped DEF Steps
<1>2. Ended(t) \in TaskRecord /\ Ended(t).at = "done"
  BY <1>1 DEF Ended, TaskRecord
<1> QED BY <1>2 DEF Fit, ForRequests

(* Every step leaves its task fit, and touches no other. *)
OwnStep(t) ==
  /\ task' = [task EXCEPT ![t] = task'[t]]
  /\ task'[t] \in Fit

Live(t) == ~At(t, "idle") /\ ~At(t, "done")

(* The steps a live task may go to as it is. *)
Ahead(t, s) ==
  /\ s \in Steps \ {"review", "thaw"}
  /\ s \in ForRequests => Kind(t) # "thaw"

LEMMA Updated ==
  ASSUME Shapes, NEW t \in Tasks, NEW r \in Fit, task' = [task EXCEPT ![t] = r]
  PROVE  OwnStep(t)
BY DEF Shapes, OwnStep

LEMMA MoveFits ==
  ASSUME Shapes, NEW t \in Tasks, Live(t), NEW r \in TaskRecord, Ahead(t, r.at),
         r.kind = Kind(t), r.client = task[t].client,
         r.at \in {"freezeSet", "lateSet"} => r.claim # None,
         r.at \in {"orders", "positions"} /\ Kind(t) = "thaw" => r.claim # None,
         task' = [task EXCEPT ![t] = r]
  PROVE  OwnStep(t)
<1>1. task[t] \in Fit
  BY DEF Shapes
<1>2. r \in Fit
  BY <1>1 DEF Fit, Live, At, Kind, Ahead
<1> QED BY <1>2, Updated

LEMMA GoFits ==
  ASSUME Shapes, NEW t \in Tasks, Live(t), NEW s, Ahead(t, s),
         s \notin {"freezeSet", "lateSet", "orders", "positions"}, Go(t, s)
  PROVE  OwnStep(t)
<1> DEFINE r == [task[t] EXCEPT !.at = s]
<1>1. task[t] \in TaskRecord /\ s \in Steps
  BY DEF Shapes, Fit, Ahead
<1>2. r \in TaskRecord /\ r.at = s /\ r.kind = Kind(t) /\ r.client = task[t].client
  BY <1>1 DEF TaskRecord, Kind
<1>3. task' = [task EXCEPT ![t] = r]
  BY DEF Go, Shapes
<1> QED BY <1>2, <1>3, MoveFits

LEMMA LeaveSteps ==
  ASSUME Shapes, NEW t \in Tasks, NEW code \in {"4xx", "5xx", "kept"}, Live(t),
         Leave(t, code) \/ Freeze(t, code)
  PROVE  OwnStep(t)
BY LeaveFits, FreezeFits, Updated, ZenonT(80) DEF Live

LEMMA DoneSteps ==
  ASSUME Shapes, NEW t \in Tasks, Done(t)
  PROVE  OwnStep(t)
BY EndedFits, Updated DEF Done

(* The fence, the reads and the checks. *)
LEMMA ChecksFit ==
  ASSUME Shapes, NEW t \in Tasks,
         \/ Acquire(t) \/ AcquireFails(t) \/ ReadBroker(t) \/ ReadLags(t) \/ ReadFails(t)
         \/ Load(t) \/ Release(t) \/ Reload(t) \/ TakeClaim(t) \/ AuthorizeClose(t)
         \/ BeginMutation(t)
  PROVE  OwnStep(t)
<1> USE OwnershipAssumption DEF ForRequests
<1>a. /\ task \in [Tasks -> Fit] /\ task[t] \in Fit /\ task[t] \in TaskRecord
      /\ claim \in Claim \union {None} /\ book \in SUBSET (Clients \union {None})
  BY DEF Shapes, TypeOK, Fit
<1>1. CASE Acquire(t)
  <2>1. PICK k \in Kinds, c \in Clients \union {None} :
          /\ At(t, "idle") /\ (k = "thaw" <=> c = None)
          /\ task' = [task EXCEPT ![t].at = IF k = "thaw" THEN "review" ELSE "orders",
                                  ![t].kind = k, ![t].client = c]
    BY <1>1 DEF Acquire
  <2> DEFINE r == [task[t] EXCEPT !.at = IF k = "thaw" THEN "review" ELSE "orders",
                                  !.kind = k, !.client = c]
  <2>2. /\ r \in TaskRecord /\ r.kind = k /\ r.client = c
        /\ r.at = IF k = "thaw" THEN "review" ELSE "orders"
    BY <1>a, ZenonT(80) DEF TaskRecord, Steps
  <2>3. task' = [task EXCEPT ![t] = r]
    BY <1>a, <2>1
  <2> HIDE DEF r
  <2>4. r \in Fit
    BY <2>1, <2>2 DEF Fit
  <2> QED BY <2>3, <2>4, Updated
<1>2. CASE AcquireFails(t)
  <2>1. PICK k \in Kinds \ {"bulk", "thaw"}, c \in Clients :
          task' = [task EXCEPT ![t].at = "lateGet", ![t].kind = k, ![t].client = c]
    BY <1>2 DEF AcquireFails
  <2> DEFINE r == [task[t] EXCEPT !.at = "lateGet", !.kind = k, !.client = c]
  <2>2. r \in TaskRecord /\ r.kind = k /\ r.client = c /\ r.at = "lateGet"
    BY <1>a DEF TaskRecord, Steps
  <2>3. task' = [task EXCEPT ![t] = r]
    BY <1>a, <2>1
  <2> HIDE DEF r
  <2>4. r \in Fit
    BY <2>1, <2>2 DEF Fit
  <2> QED BY <2>3, <2>4, Updated
<1>b. ASSUME NEW seen \in SUBSET (Clients \union {None}), At(t, "orders"),
             task' = [task EXCEPT ![t].at = "positions", ![t].book = seen]
      PROVE  OwnStep(t)
  <2> DEFINE r == [task[t] EXCEPT !.at = "positions", !.book = seen]
  <2>1. /\ r \in TaskRecord /\ r.at = "positions"
        /\ r.kind = Kind(t) /\ r.client = task[t].client /\ r.claim = task[t].claim
    BY <1>a DEF TaskRecord, Steps, Kind
  <2>2. task' = [task EXCEPT ![t] = r]
    BY <1>a, <1>b
  <2>3. /\ Live(t) /\ Ahead(t, "positions")
        /\ Kind(t) = "thaw" => task[t].claim # None
    BY <1>a, <1>b DEF Live, Ahead, At, Steps, Fit, Kind
  <2> QED BY <2>1, <2>2, <2>3, MoveFits
<1>c. ASSUME NEW shown \in BOOLEAN, At(t, "positions"),
             task' = [task EXCEPT ![t].at = AfterReads(t), ![t].held = shown]
      PROVE  OwnStep(t)
  <2> DEFINE r == [task[t] EXCEPT !.at = AfterReads(t), !.held = shown]
  <2>1. AfterReads(t) \in {"thaw", "verify", "drop", "close", "load"}
    BY <1>a DEF AfterReads, TaskRecord
  <2>2. AfterReads(t) = "thaw" <=> Kind(t) = "thaw"
    BY <1>a DEF AfterReads, TaskRecord
  <2>3. /\ r \in TaskRecord /\ r.at = AfterReads(t)
        /\ r.kind = Kind(t) /\ r.client = task[t].client /\ r.claim = task[t].claim
    BY <1>a, <2>1, ZenonT(80) DEF TaskRecord, Steps, Kind
  <2>4. task' = [task EXCEPT ![t] = r]
    BY <1>a, <1>c
  <2>5. r \in Fit
    BY <1>a, <1>c, <2>1, <2>2, <2>3 DEF Fit, At, Kind
  <2> QED BY <2>4, <2>5, Updated
<1>3. CASE ReadBroker(t)
  <2>1. (holders # {}) \in BOOLEAN
    OBVIOUS
  <2> QED BY <1>3, <1>a, <1>b, <1>c, <2>1 DEF ReadBroker
<1>11. CASE ReadLags(t)
  <2>1. CASE At(t, "orders")
    <3>1. PICK seen \in SUBSET book :
            task' = [task EXCEPT ![t].at = "positions", ![t].book = seen]
      BY <1>11, <2>1 DEF ReadLags, At
    <3> QED BY <1>a, <1>b, <2>1, <3>1
  <2>2. CASE At(t, "positions")
    <3>1. (holders = {}) \in BOOLEAN
      OBVIOUS
    <3> QED BY <1>11, <1>c, <2>2, <3>1 DEF ReadLags, At
  <2> QED BY <1>11, <2>1, <2>2 DEF ReadLags
<1>4. CASE ReadFails(t)
  <2>1. Live(t)
    BY <1>4 DEF ReadFails, Live, At
  <2> QED BY <1>4, <2>1, LeaveSteps DEF ReadFails
<1>5. CASE Load(t)
  <2>1. Live(t) /\ At(t, "load")
    BY <1>5 DEF Load, Live, At
  <2>2. ASSUME NEW s \in {"release", "reload"},
               task' = [task EXCEPT ![t].at = s, ![t].claim = claim]
        PROVE  OwnStep(t)
    <3> DEFINE r == [task[t] EXCEPT !.at = s, !.claim = claim]
    <3>1. /\ r \in TaskRecord /\ r.at = s
          /\ r.kind = Kind(t) /\ r.client = task[t].client
      BY <1>a DEF TaskRecord, Steps, Kind
    <3>2. task' = [task EXCEPT ![t] = r]
      BY <2>2, <1>a
    <3>3. Ahead(t, s)
      BY <1>a, <2>1 DEF Ahead, At, Steps, Fit, Kind
    <3> QED BY <2>1, <3>1, <3>2, <3>3, MoveFits
  <2> QED BY <1>5, <2>1, <2>2, LeaveSteps DEF Load
<1>6. CASE Release(t)
  <2> DEFINE r == [task[t] EXCEPT !.at = "reload", !.claim = None]
  <2>1. /\ r \in TaskRecord /\ r.at = "reload"
        /\ r.kind = Kind(t) /\ r.client = task[t].client
    BY <1>a DEF TaskRecord, Steps, Kind
  <2>2. task' = [task EXCEPT ![t] = r]
    BY <1>6, <1>a DEF Release
  <2>3. Live(t) /\ Ahead(t, "reload")
    BY <1>a, <1>6 DEF Release, Live, Ahead, At, Steps, Fit, Kind
  <2> QED BY <2>1, <2>2, <2>3, MoveFits
<1>7. CASE Reload(t)
  <2>1. Live(t) /\ At(t, "reload") /\ Kind(t) # "thaw"
    BY <1>7, <1>a DEF Reload, Live, At, Fit, Kind
  <2>2. ASSUME NEW s \in {"claim", "begin"}
        PROVE  [Forget(t) EXCEPT !.at = s] \in Fit
    BY <2>1, ForgetFits DEF Steps, Live
  <2> QED BY <1>7, <2>1, <2>2, LeaveSteps, Updated DEF Reload
<1>8. CASE TakeClaim(t)
  <2>1. Live(t) /\ Ahead(t, "begin")
    BY <1>8, <1>a DEF TakeClaim, Live, Ahead, At, Fit, Kind, Steps
  <2> QED BY <1>8, <2>1, LeaveSteps, GoFits DEF TakeClaim
<1>9. CASE AuthorizeClose(t)
  <2>1. Live(t) /\ At(t, "close") /\ Kind(t) # "thaw"
    BY <1>9, <1>a DEF AuthorizeClose, Live, At, Fit, Kind
  <2>2. [Forget(t) EXCEPT !.at = "begin"] \in Fit
    BY <2>1, ForgetFits DEF Steps, Live
  <2> QED BY <1>9, <2>1, <2>2, LeaveSteps, Updated DEF AuthorizeClose
<1>10. CASE BeginMutation(t)
  <2>1. Live(t) /\ Ahead(t, "dispatch")
    BY <1>10, <1>a DEF BeginMutation, Live, Ahead, At, Fit, Kind, Steps
  <2> QED BY <1>10, <2>1, LeaveSteps, GoFits DEF BeginMutation
<1> QED BY <1>1, <1>2, <1>3, <1>4, <1>5, <1>6, <1>7, <1>8, <1>9, <1>10, <1>11

(* The write and what follows it. *)
LEMMA WritesFit ==
  ASSUME Shapes, NEW t \in Tasks,
         \/ Dispatch(t) \/ NotDispatched(t) \/ Succeeds(t) \/ Refused(t) \/ Unanswered(t)
         \/ Verify(t) \/ CompleteMutation(t) \/ ClearMarker(t) \/ DropClaim(t)
  PROVE  OwnStep(t)
<1> USE OwnershipAssumption DEF ForRequests
<1>a. task \in [Tasks -> Fit] /\ task[t] \in Fit /\ task[t] \in TaskRecord
  BY DEF Shapes, Fit
<1>b. Live(t)
  BY DEF Dispatch, NotDispatched, Succeeds, Refused, Unanswered, Verify, CompleteMutation,
         ClearMarker, DropClaim, Live, At
<1>t. Kind(t) # "thaw"
  BY <1>a DEF Dispatch, NotDispatched, Succeeds, Refused, Unanswered, Verify,
       CompleteMutation, ClearMarker, DropClaim, Fit, At, Kind
<1>c. ASSUME NEW s \in {"after", "refused"},
             task' = [task EXCEPT ![t].at = "orders", ![t].stage = s]
      PROVE  OwnStep(t)
  <2> DEFINE r == [task[t] EXCEPT !.at = "orders", !.stage = s]
  <2>1. /\ r \in TaskRecord /\ r.at = "orders"
        /\ r.kind = Kind(t) /\ r.client = task[t].client
    BY <1>a DEF TaskRecord, Steps, Kind
  <2>2. task' = [task EXCEPT ![t] = r]
    BY <1>c, <1>a
  <2>3. Ahead(t, "orders")
    BY DEF Ahead, Steps
  <2> QED BY <1>t, <1>b, <2>1, <2>2, <2>3, MoveFits
<1>1. CASE Dispatch(t)
  <2>1. Ahead(t, "write")
    BY <1>t DEF Ahead, Steps
  <2> QED BY <1>1, <1>b, <2>1, LeaveSteps, GoFits DEF Dispatch
<1>2. CASE NotDispatched(t)
  BY <1>2, <1>b, LeaveSteps DEF NotDispatched
<1>3. CASE Succeeds(t)
  BY <1>3, <1>c DEF Succeeds
<1>4. CASE Refused(t)
  <2>1. Ahead(t, "clear")
    BY <1>t DEF Ahead, Steps
  <2> QED BY <1>4, <1>b, <1>c, <2>1, GoFits DEF Refused
<1>5. CASE Unanswered(t)
  BY <1>5, <1>b, LeaveSteps DEF Unanswered
<1>6. CASE Verify(t)
  <2>1. [Forget(t) EXCEPT !.at = "complete"] \in Fit
    BY <1>b, <1>t, ForgetFits DEF Steps, Live
  <2> QED BY <1>6, <1>b, <2>1, LeaveSteps, Updated DEF Verify
<1>7. CASE CompleteMutation(t)
  BY <1>7, <1>b, LeaveSteps DEF CompleteMutation
<1>8. CASE ClearMarker(t)
  BY <1>8, <1>b, <1>c, LeaveSteps DEF ClearMarker
<1>9. CASE DropClaim(t)
  BY <1>9, <1>b, LeaveSteps DEF DropClaim
<1> QED BY <1>1, <1>2, <1>3, <1>4, <1>5, <1>6, <1>7, <1>8, <1>9

(* Freezes, the end of a request, the operator, a Redis failure. *)
LEMMA EndsFit ==
  ASSUME Shapes, NEW t \in Tasks,
         \/ FreezeGet(t) \/ FreezeSet(t) \/ Unfence(t) \/ LateFreezeGet(t)
         \/ LateFreezeSet(t) \/ Review(t) \/ Thaw(t) \/ StoreFails(t)
  PROVE  OwnStep(t)
<1> USE OwnershipAssumption DEF ForRequests
<1>a. /\ task \in [Tasks -> Fit] /\ task[t] \in Fit /\ task[t] \in TaskRecord
      /\ claim \in Claim \union {None}
  BY DEF Shapes, TypeOK, Fit
<1>b. Live(t)
  BY DEF FreezeGet, FreezeSet, Unfence, LateFreezeGet, LateFreezeSet, Review, Thaw,
         StoreFails, Live, At
<1>c. ASSUME NEW s \in {"freezeSet", "lateSet", "orders"}, claim # None,
             task' = [task EXCEPT ![t].at = s, ![t].claim = claim]
      PROVE  OwnStep(t)
  <2> DEFINE r == [task[t] EXCEPT !.at = s, !.claim = claim]
  <2>1. /\ r \in TaskRecord /\ r.at = s /\ r.claim = claim
        /\ r.kind = Kind(t) /\ r.client = task[t].client
    BY <1>a DEF TaskRecord, Steps, Kind
  <2>2. task' = [task EXCEPT ![t] = r]
    BY <1>c, <1>a
  <2>3. Ahead(t, s)
    BY DEF Ahead, Steps
  <2> QED BY <1>b, <1>c, <2>1, <2>2, <2>3, MoveFits
<1>d. AfterFence(t) => OwnStep(t)
  <2>1. Ahead(t, "lateGet")
    BY DEF Ahead, Steps
  <2> QED BY <1>b, <2>1, GoFits, DoneSteps DEF AfterFence
<1>e. Unrecorded(t) => OwnStep(t)
  BY <1>b, LeaveSteps, DoneSteps DEF Unrecorded
<1>1. CASE FreezeGet(t)
  BY <1>1, <1>c, <1>e DEF FreezeGet
<1>2. CASE FreezeSet(t)
  <2>1. task[t].code \in {"4xx", "5xx", "kept"}
    BY <1>a DEF TaskRecord
  <2> QED BY <1>2, <1>b, <2>1, LeaveSteps, DoneSteps DEF FreezeSet
<1>3. CASE Unfence(t)
  BY <1>3, <1>d DEF Unfence
<1>4. CASE LateFreezeGet(t)
  BY <1>4, <1>c, DoneSteps DEF LateFreezeGet
<1>5. CASE LateFreezeSet(t)
  BY <1>5, DoneSteps DEF LateFreezeSet
<1>6. CASE Review(t)
  BY <1>6, <1>b, <1>c, LeaveSteps DEF Review
<1>7. CASE Thaw(t)
  BY <1>7, <1>b, LeaveSteps DEF Thaw
<1>8. CASE StoreFails(t)
  BY <1>8, <1>b, <1>d, <1>e, LeaveSteps, DoneSteps DEF StoreFails
<1> QED BY <1>1, <1>2, <1>3, <1>4, <1>5, <1>6, <1>7, <1>8

LEMMA StepsFit ==
  ASSUME Shapes, NEW t \in Tasks, TaskStep(t)
  PROVE  OwnStep(t)
BY ChecksFit, WritesFit, EndsFit DEF TaskStep

-----------------------------------------------------------------------------
(* What the steps do to what the tasks share *)

(* The claim: kept, released when nothing locks it, taken, marked, unmarked *)
(* by the holder of the marker, frozen from an old copy, thawed.            *)
ClaimStep(t) ==
  \/ UNCHANGED claim
  \/ /\ task[t].at \in {"release", "drop"}
     /\ claim # None /\ ~Locked(claim) /\ claim' = None
     /\ At(t, "drop") => Flat(t)
  \/ /\ At(t, "claim") /\ claim = None
     /\ claim' = [owner |-> task[t].client, pending |-> None, frozen |-> FALSE]
  \/ /\ At(t, "begin") /\ claim # None /\ claim.pending = None
     /\ claim' = [claim EXCEPT !.pending = t]
  \/ /\ task[t].at \in {"complete", "clear"} /\ HoldsMarker(t)
     /\ claim' = [claim EXCEPT !.pending = None]
  \/ /\ task[t].at \in {"freezeSet", "lateSet"}
     /\ claim' = [task[t].claim EXCEPT !.frozen = TRUE]
  \/ /\ At(t, "thaw") /\ fence = t /\ claim = task[t].claim
     /\ \/ claim' = [claim EXCEPT !.frozen = FALSE, !.pending = None]
        \/ Flat(t) /\ claim' = None
     /\ flight' = Overruled

FenceStep(t) ==
  \/ UNCHANGED fence
  \/ /\ At(t, "idle") /\ fence = None /\ fence' = t
     /\ task'[t].at \in {"review", "orders"}
     /\ task'[t].kind = "thaw" => misled' \/ NoneOut
  \/ At(t, "unfence") /\ fence = t /\ fence' = None

FlightStep(t) ==
  \/ UNCHANGED flight
  \/ /\ At(t, "dispatch") /\ (Kind(t) = "bulk" => fence = t)
     /\ flight' = [flight EXCEPT ![t] = "out"] /\ task'[t].at = "write"
  \/ At(t, "write") /\ flight' = [flight EXCEPT ![t] = "over"]
  \/ At(t, "thaw") /\ fence = t /\ flight' = Overruled

(* Where the task itself goes, as far as its write and its checks go. *)
PathStep(t) ==
  /\ task'[t].at \notin {"idle"}
  /\ ~At(t, "idle") => task'[t].kind = Kind(t) \/ task'[t].at = "done"
  /\ task'[t].kind = "thaw" => Kind(t) = "thaw" \/ fence = None
  /\ task'[t].at = "dispatch" =>
       /\ At(t, "begin") /\ fence = t /\ HoldsMarker(t)' /\ UNCHANGED fence
  /\ task'[t].at \in {"claim", "begin"} =>
       \/ At(t, "claim")
       \/ task[t].at \in {"reload", "close"} /\ (claim = None \/ ~Locked(claim))
  /\ task[t].at \in Gone /\ ~At(t, "write") => task'[t].at \in Gone
  /\ At(t, "write") => task'[t].at \in Gone \/ flight'[t] # "out"

(* What it reads, and that it works under the fence. *)
ReadStep(t) ==
  /\ At(t, "thaw") => task'[t].at # "thaw"
  /\ \/ task'[t].at \in Outside
     \/ fence' = t /\ (task[t].at \notin Outside \/ fence = None)
     \/ task[t].at \notin Outside /\ fence # t
  /\ task'[t].at = "positions" =>
       /\ At(t, "orders") /\ UNCHANGED <<claim, flight>>
       /\ misled' \/ task'[t].book = book
  /\ task'[t].at \in {"load", "drop", "thaw"} =>
       /\ At(t, "positions") /\ UNCHANGED <<claim, flight>>
       /\ misled' \/ (task'[t].book = task[t].book /\ task'[t].held = (holders # {}))
  /\ task'[t].at = "release" =>
       /\ At(t, "load") /\ Flat(t) /\ UNCHANGED <<claim, flight>>
       /\ task'[t].book = task[t].book /\ task'[t].held = task[t].held

Summary(t) ==
  /\ OwnStep(t)
  /\ ClaimStep(t) /\ FenceStep(t) /\ FlightStep(t) /\ PathStep(t) /\ ReadStep(t)
  /\ UNCHANGED broker
  /\ misled' \in BOOLEAN /\ (misled => misled') /\ faults' \in 0..MaxFaults

LEMMA StepsSummary ==
  ASSUME Shapes, NEW t \in Tasks, TaskStep(t)
  PROVE  Summary(t)
<1> USE OwnershipAssumption
<1>a. /\ task \in [Tasks -> Fit] /\ task[t] \in Fit /\ task[t] \in TaskRecord
      /\ claim \in Claim \union {None} /\ flight \in [Tasks -> Flights]
      /\ misled \in BOOLEAN /\ faults \in 0..MaxFaults
  BY DEF Shapes, TypeOK, Fit
<1>o. OwnStep(t)
  BY StepsFit
<1>e. Ended(t).at = "done" /\ Ended(t).kind \in {Kind(t), "create"}
  <2>1. /\ Forget(t) \in TaskRecord /\ Forget(t).kind = Kind(t)
        /\ Idle \in TaskRecord /\ Idle.kind = "create"
    BY IdleFits, ForgetTyped DEF Idle
  <2> QED BY <2>1 DEF Ended, TaskRecord
<1>f. ASSUME NEW code
      PROVE  /\ Leave(t, code) => task'[t].at = "unfence" /\ task'[t].kind = Kind(t)
             /\ Freeze(t, code) => task'[t].at = "freezeGet" /\ task'[t].kind = Kind(t)
  <2>1. Forget(t) \in TaskRecord /\ Forget(t).kind = Kind(t)
    BY ForgetTyped
  <2>2. /\ [Forget(t) EXCEPT !.at = "unfence", !.code = code].at = "unfence"
        /\ [Forget(t) EXCEPT !.at = "unfence", !.code = code].kind = Kind(t)
        /\ [Forget(t) EXCEPT !.at = "freezeGet", !.code = code].at = "freezeGet"
        /\ [Forget(t) EXCEPT !.at = "freezeGet", !.code = code].kind = Kind(t)
    BY <2>1 DEF TaskRecord
  <2> QED BY <1>a, <2>2 DEF Leave, Freeze
<1>s. ASSUME NEW s
      PROVE  /\ [Forget(t) EXCEPT !.at = s].at = s
             /\ [Forget(t) EXCEPT !.at = s].kind = Kind(t)
  BY ForgetTyped DEF TaskRecord
<1>g. ASSUME NEW s
      PROVE  Go(t, s) => task'[t].at = s /\ task'[t].kind = Kind(t)
  BY <1>a DEF Go, TaskRecord, Kind
<1>h. Done(t) => task'[t].at = "done" /\ task'[t].kind \in {Kind(t), "create"}
  BY <1>a, <1>e DEF Done
<1>k. ASSUME NEW kind, Fault(kind)
      PROVE  misled' \in BOOLEAN /\ (misled => misled') /\ faults' \in 0..MaxFaults
  BY <1>a, <1>k DEF Fault
<1>1. CASE Acquire(t)
  <2>1. ClaimStep(t)
    BY <1>1, <1>a DEF Acquire, ClaimStep, At, quiet, redis, Marked, Unmarked, Releasable
  <2>2. FenceStep(t) /\ FlightStep(t)
    <3>1. PICK k \in Kinds, c \in Clients \union {None} :
            /\ At(t, "idle") /\ fence = None /\ fence' = t /\ UNCHANGED flight
            /\ task' = [task EXCEPT ![t].at = IF k = "thaw" THEN "review" ELSE "orders",
                                    ![t].kind = k, ![t].client = c]
            /\ misled' = (misled \/ (k = "thaw" /\ \E u \in Tasks : flight[u] \in OnTheWay))
      BY <1>1 DEF Acquire
    <3>2. task'[t].kind = k /\ task'[t].at \in {"review", "orders"}
      BY <1>a, <3>1 DEF TaskRecord
    <3>3. k = "thaw" => misled' \/ NoneOut
      BY <3>1 DEF NoneOut
    <3> QED BY <3>1, <3>2, <3>3 DEF FenceStep, FlightStep
  <2>4. PathStep(t)
    BY <1>1, <1>a, <1>f, <1>g, <1>h, <1>s DEF Acquire, PathStep, Gone, At, Over, quiet
  <2>7. ReadStep(t)
    BY <1>1, <1>a, <1>f, <1>g, <1>h, <1>s DEF Acquire, ReadStep, Outside, At, quiet, redis
  <2>5. /\ UNCHANGED broker
        /\ misled' \in BOOLEAN /\ (misled => misled') /\ faults' \in 0..MaxFaults
    BY <1>1, <1>a DEF Acquire
  <2> QED BY <1>o, <2>1, <2>2, <2>4, <2>5, <2>7 DEF Summary
<1>2. CASE AcquireFails(t)
  <2>1. ClaimStep(t)
    BY <1>2, <1>a DEF AcquireFails, ClaimStep, At, quiet, redis, Marked, Unmarked, Releasable
  <2>2. FenceStep(t) /\ FlightStep(t)
    BY <1>2, <1>a, <1>f, <1>g, <1>h, <1>s DEF AcquireFails, FenceStep, FlightStep, At, quiet, redis, Over
  <2>4. PathStep(t)
    BY <1>2, <1>a, <1>f, <1>g, <1>h, <1>s DEF AcquireFails, PathStep, Gone, At, Over, quiet
  <2>7. ReadStep(t)
    BY <1>2, <1>a, <1>f, <1>g, <1>h, <1>s DEF AcquireFails, ReadStep, Outside, At, quiet, redis
  <2>5. /\ UNCHANGED broker
        /\ misled' \in BOOLEAN /\ (misled => misled') /\ faults' \in 0..MaxFaults
    BY <1>2, <1>a, <1>k DEF AcquireFails, quiet, counters
  <2> QED BY <1>o, <2>1, <2>2, <2>4, <2>5, <2>7 DEF Summary
<1>3. CASE ReadBroker(t)
  <2>1. ClaimStep(t)
    BY <1>3, <1>a DEF ReadBroker, ClaimStep, At, quiet, redis, Marked, Unmarked, Releasable
  <2>2. FenceStep(t) /\ FlightStep(t)
    BY <1>3, <1>a, <1>f, <1>g, <1>h, <1>s DEF ReadBroker, FenceStep, FlightStep, At, quiet, redis, Over
  <2>3. /\ task'[t].at \in {"positions", "thaw", "verify", "drop", "close", "load"}
        /\ \/ task'[t].kind = Kind(t)
           \/ task'[t].at = "done" /\ task'[t].kind = "create"
    BY <1>3, <1>a, <1>f, <1>g, <1>h, <1>s DEF ReadBroker, TaskRecord, Kind, AfterReads
  <2>4. PathStep(t)
    BY <1>3, <1>a, <2>3 DEF ReadBroker, PathStep, Gone, At, Over, quiet
  <2>7. ReadStep(t)
    <3>1. fence' = fence /\ claim' = claim /\ flight' = flight
      BY <1>3 DEF ReadBroker, quiet
    <3>2. CASE At(t, "orders")
      <4>1. task'[t].at = "positions" /\ task'[t].book = book
        BY <1>3, <1>a, <3>2 DEF ReadBroker, At, TaskRecord
      <4> QED BY <3>1, <3>2, <4>1 DEF ReadStep, At, Outside
    <3>3. CASE At(t, "positions")
      <4>1. /\ task'[t].at \in {"thaw", "verify", "drop", "close", "load"}
            /\ task'[t].book = task[t].book /\ task'[t].held = (holders # {})
        BY <1>3, <1>a, <3>3 DEF ReadBroker, At, TaskRecord, AfterReads
      <4> QED BY <3>1, <3>3, <4>1 DEF ReadStep, At, Outside
    <3> QED BY <1>3, <3>2, <3>3 DEF ReadBroker
  <2>5. /\ UNCHANGED broker
        /\ misled' \in BOOLEAN /\ (misled => misled') /\ faults' \in 0..MaxFaults
    BY <1>3, <1>a DEF ReadBroker, quiet, counters
  <2> QED BY <1>o, <2>1, <2>2, <2>4, <2>5, <2>7 DEF Summary
<1>4. CASE ReadFails(t)
  <2>1. ClaimStep(t)
    BY <1>4, <1>a DEF ReadFails, ClaimStep, At, quiet, redis, Marked, Unmarked, Releasable
  <2>2. FenceStep(t) /\ FlightStep(t)
    BY <1>4, <1>a, <1>f, <1>g, <1>h, <1>s DEF ReadFails, FenceStep, FlightStep, At, quiet, redis, Over
  <2>4. PathStep(t)
    BY <1>4, <1>a, <1>f, <1>g, <1>h, <1>s DEF ReadFails, PathStep, Gone, At, Over, quiet
  <2>7. ReadStep(t)
    BY <1>4, <1>a, <1>f, <1>g, <1>h, <1>s DEF ReadFails, ReadStep, Outside, At, quiet, redis
  <2>5. /\ UNCHANGED broker
        /\ misled' \in BOOLEAN /\ (misled => misled') /\ faults' \in 0..MaxFaults
    BY <1>4, <1>a, <1>k DEF ReadFails, quiet, counters
  <2> QED BY <1>o, <2>1, <2>2, <2>4, <2>5, <2>7 DEF Summary
<1>5. CASE Load(t)
  <2>1. ClaimStep(t)
    BY <1>5, <1>a DEF Load, ClaimStep, At, quiet, redis, Marked, Unmarked, Releasable
  <2>2. FenceStep(t) /\ FlightStep(t)
    BY <1>5, <1>a, <1>f, <1>g, <1>h, <1>s DEF Load, FenceStep, FlightStep, At, quiet, redis, Over
  <2>3. /\ task'[t].at \in {"release", "reload", "unfence"}
        /\ task'[t].kind = Kind(t)
    <3>1. CASE Leave(t, "4xx")
      BY <1>f, <3>1
    <3>2. CASE \E s \in {"release", "reload"} :
                 task' = [task EXCEPT ![t].at = s, ![t].claim = claim]
      BY <1>a, <3>2 DEF TaskRecord, Kind
    <3> QED BY <1>5, <3>1, <3>2 DEF Load
  <2>4. PathStep(t)
    BY <1>5, <2>3 DEF Load, PathStep, Gone, At
  <2>7. ReadStep(t)
    <3>1. fence' = fence /\ claim' = claim /\ flight' = flight /\ At(t, "load")
      BY <1>5 DEF Load, quiet
    <3>2. CASE Leave(t, "4xx")
      BY <1>f, <3>1, <3>2 DEF ReadStep, At, Outside
    <3>3. ASSUME task' = [task EXCEPT ![t].at = IF claim # None /\ Flat(t) THEN "release" ELSE "reload",
                                      ![t].claim = claim]
          PROVE  ReadStep(t)
      <4>1. /\ task'[t].at = IF claim # None /\ Flat(t) THEN "release" ELSE "reload"
            /\ task'[t].book = task[t].book /\ task'[t].held = task[t].held
        BY <1>a, <3>3 DEF TaskRecord
      <4> QED BY <3>1, <4>1 DEF ReadStep, At, Outside
    <3> QED BY <1>5, <3>2, <3>3 DEF Load
  <2>5. /\ UNCHANGED broker
        /\ misled' \in BOOLEAN /\ (misled => misled') /\ faults' \in 0..MaxFaults
    BY <1>5, <1>a DEF Load, quiet, counters
  <2> QED BY <1>o, <2>1, <2>2, <2>4, <2>5, <2>7 DEF Summary
<1>6. CASE Release(t)
  <2>1. ClaimStep(t)
    BY <1>6, <1>a DEF Release, ClaimStep, At, quiet, redis, Marked, Unmarked, Releasable
  <2>2. FenceStep(t) /\ FlightStep(t)
    BY <1>6, <1>a, <1>f, <1>g, <1>h, <1>s DEF Release, FenceStep, FlightStep, At, quiet, redis, Over
  <2>3. /\ task'[t].at \in {"reload"}
        /\ \/ task'[t].kind = Kind(t)
           \/ task'[t].at = "done" /\ task'[t].kind = "create"
    BY <1>6, <1>a, <1>f, <1>g, <1>h, <1>s DEF Release, TaskRecord, Kind
  <2>4. PathStep(t)
    BY <1>6, <1>a, <2>3 DEF Release, PathStep, Gone, At, Over, quiet
  <2>7. ReadStep(t)
    BY <1>6, <1>a, <2>3 DEF Release, ReadStep, Outside, At, quiet, redis
  <2>5. /\ UNCHANGED broker
        /\ misled' \in BOOLEAN /\ (misled => misled') /\ faults' \in 0..MaxFaults
    BY <1>6, <1>a DEF Release, quiet, counters
  <2> QED BY <1>o, <2>1, <2>2, <2>4, <2>5, <2>7 DEF Summary
<1>7. CASE Reload(t)
  <2>1. ClaimStep(t)
    BY <1>7, <1>a DEF Reload, ClaimStep, At, quiet, redis, Marked, Unmarked, Releasable
  <2>2. FenceStep(t) /\ FlightStep(t)
    BY <1>7, <1>a, <1>f, <1>g, <1>h, <1>s DEF Reload, FenceStep, FlightStep, At, quiet, redis, Over
  <2>3. ASSUME Leave(t, "4xx") PROVE PathStep(t)
    <3>1. task'[t].at = "unfence" /\ task'[t].kind = Kind(t)
      BY <1>f, <2>3
    <3> QED BY <1>7, <3>1 DEF Reload, PathStep, Gone, At
  <2>4. ASSUME ~Ambiguous(claim, t, FALSE),
               \E s \in {"claim", "begin"} : task' = [task EXCEPT ![t] = [Forget(t) EXCEPT !.at = s]]
        PROVE  PathStep(t)
    <3>1. task'[t].at \in {"claim", "begin"} /\ task'[t].kind = Kind(t)
      BY <1>a, <1>s, <2>4
    <3>2. claim = None \/ ~Locked(claim)
      BY <2>4 DEF Ambiguous, Locked
    <3> QED BY <1>7, <3>1, <3>2 DEF Reload, PathStep, Gone, At
  <2>6. PathStep(t)
    BY <1>7, <2>3, <2>4 DEF Reload
  <2>7. ReadStep(t)
    <3>1. task'[t].at \in {"claim", "begin", "unfence"}
      <4>1. Leave(t, "4xx") => task'[t].at = "unfence"
        BY <1>f
      <4>2. \A s : task' = [task EXCEPT ![t] = [Forget(t) EXCEPT !.at = s]] => task'[t].at = s
        BY <1>a, <1>s
      <4> QED BY <1>7, <4>1, <4>2 DEF Reload
    <3> QED BY <1>7, <3>1 DEF Reload, ReadStep, Outside, At, quiet
  <2>5. /\ UNCHANGED broker
        /\ misled' \in BOOLEAN /\ (misled => misled') /\ faults' \in 0..MaxFaults
    BY <1>7, <1>a DEF Reload, quiet, counters
  <2> QED BY <1>o, <2>1, <2>2, <2>6, <2>5, <2>7 DEF Summary
<1>8. CASE TakeClaim(t)
  <2>1. ClaimStep(t)
    BY <1>8, <1>a DEF TakeClaim, ClaimStep, At, quiet, redis, Marked, Unmarked, Releasable
  <2>2. FenceStep(t) /\ FlightStep(t)
    BY <1>8, <1>a, <1>f, <1>g, <1>h, <1>s DEF TakeClaim, FenceStep, FlightStep, At, quiet, redis, Over
  <2>4. PathStep(t)
    BY <1>8, <1>a, <1>f, <1>g, <1>h, <1>s DEF TakeClaim, PathStep, Gone, At, Over, quiet
  <2>7. ReadStep(t)
    BY <1>8, <1>a, <1>f, <1>g, <1>h, <1>s DEF TakeClaim, ReadStep, Outside, At, quiet, redis
  <2>5. /\ UNCHANGED broker
        /\ misled' \in BOOLEAN /\ (misled => misled') /\ faults' \in 0..MaxFaults
    BY <1>8, <1>a DEF TakeClaim, quiet, counters
  <2> QED BY <1>o, <2>1, <2>2, <2>4, <2>5, <2>7 DEF Summary
<1>9. CASE AuthorizeClose(t)
  <2>1. ClaimStep(t)
    BY <1>9, <1>a DEF AuthorizeClose, ClaimStep, At, quiet, redis, Marked, Unmarked, Releasable
  <2>2. FenceStep(t) /\ FlightStep(t)
    BY <1>9, <1>a, <1>f, <1>g, <1>h, <1>s DEF AuthorizeClose, FenceStep, FlightStep, At, quiet, redis, Over
  <2>3. ASSUME Leave(t, "4xx") PROVE PathStep(t)
    <3>1. task'[t].at = "unfence" /\ task'[t].kind = Kind(t)
      BY <1>f, <2>3
    <3> QED BY <1>9, <3>1 DEF AuthorizeClose, PathStep, Gone, At
  <2>4. ASSUME ~Ambiguous(claim, t, FALSE),
               task' = [task EXCEPT ![t] = [Forget(t) EXCEPT !.at = "begin"]]
        PROVE  PathStep(t)
    <3>1. task'[t].at = "begin" /\ task'[t].kind = Kind(t)
      BY <1>a, <1>s, <2>4
    <3>2. claim = None \/ ~Locked(claim)
      BY <2>4 DEF Ambiguous, Locked
    <3> QED BY <1>9, <3>1, <3>2 DEF AuthorizeClose, PathStep, Gone, At
  <2>6. PathStep(t)
    BY <1>9, <2>3, <2>4 DEF AuthorizeClose
  <2>7. ReadStep(t)
    <3>1. task'[t].at \in {"begin", "unfence"}
      <4>1. Leave(t, "4xx") => task'[t].at = "unfence"
        BY <1>f
      <4>2. \A s : task' = [task EXCEPT ![t] = [Forget(t) EXCEPT !.at = s]] => task'[t].at = s
        BY <1>a, <1>s
      <4> QED BY <1>9, <4>1, <4>2 DEF AuthorizeClose
    <3> QED BY <1>9, <3>1 DEF AuthorizeClose, ReadStep, Outside, At, quiet
  <2>5. /\ UNCHANGED broker
        /\ misled' \in BOOLEAN /\ (misled => misled') /\ faults' \in 0..MaxFaults
    BY <1>9, <1>a DEF AuthorizeClose, quiet, counters
  <2> QED BY <1>o, <2>1, <2>2, <2>6, <2>5, <2>7 DEF Summary
<1>10. CASE BeginMutation(t)
  <2>1. ClaimStep(t)
    BY <1>10, <1>a DEF BeginMutation, ClaimStep, At, quiet, redis, Marked, Unmarked, Releasable
  <2>2. FenceStep(t) /\ FlightStep(t)
    BY <1>10, <1>a, <1>f, <1>g, <1>h, <1>s DEF BeginMutation, FenceStep, FlightStep, At, quiet, redis, Over
  <2>3. ASSUME NEW code, Leave(t, code) PROVE PathStep(t)
    <3>1. task'[t].at = "unfence" /\ task'[t].kind = Kind(t)
      BY <1>f, <2>3
    <3> QED BY <1>10, <3>1 DEF BeginMutation, PathStep, Gone, At
  <2>4. ASSUME fence = t, claim # None, Go(t, "dispatch"), claim' = Marked(t)
        PROVE  PathStep(t)
    <3>1. task'[t].at = "dispatch" /\ task'[t].kind = Kind(t)
      BY <1>g, <2>4
    <3>2. claim'.pending = t /\ claim' # None
      BY <1>a, <2>4 DEF Marked, Claim
    <3> QED BY <1>10, <2>4, <3>1, <3>2 DEF BeginMutation, PathStep, Gone, At, HoldsMarker, quiet
  <2>6. PathStep(t)
    BY <1>10, <2>3, <2>4 DEF BeginMutation
  <2>7. ReadStep(t)
    BY <1>10, <1>a, <1>f, <1>g, <1>h, <1>s DEF BeginMutation, ReadStep, Outside, At, quiet, redis
  <2>5. /\ UNCHANGED broker
        /\ misled' \in BOOLEAN /\ (misled => misled') /\ faults' \in 0..MaxFaults
    BY <1>10, <1>a DEF BeginMutation, quiet, counters
  <2> QED BY <1>o, <2>1, <2>2, <2>6, <2>5, <2>7 DEF Summary
<1>11. CASE Dispatch(t)
  <2>1. ClaimStep(t)
    BY <1>11, <1>a DEF Dispatch, ClaimStep, At, quiet, redis, Marked, Unmarked, Releasable
  <2>2. FenceStep(t) /\ FlightStep(t)
    BY <1>11, <1>a, <1>f, <1>g, <1>h, <1>s DEF Dispatch, FenceStep, FlightStep, At, quiet, redis, Over
  <2>4. PathStep(t)
    BY <1>11, <1>a, <1>f, <1>g, <1>h, <1>s DEF Dispatch, PathStep, Gone, At, Over, quiet
  <2>7. ReadStep(t)
    BY <1>11, <1>a, <1>f, <1>g, <1>h, <1>s DEF Dispatch, ReadStep, Outside, At, quiet, redis
  <2>5. /\ UNCHANGED broker
        /\ misled' \in BOOLEAN /\ (misled => misled') /\ faults' \in 0..MaxFaults
    BY <1>11, <1>a DEF Dispatch, quiet, counters
  <2> QED BY <1>o, <2>1, <2>2, <2>4, <2>5, <2>7 DEF Summary
<1>12. CASE NotDispatched(t)
  <2>1. ClaimStep(t)
    BY <1>12, <1>a DEF NotDispatched, ClaimStep, At, quiet, redis, Marked, Unmarked, Releasable
  <2>2. FenceStep(t) /\ FlightStep(t)
    BY <1>12, <1>a, <1>f, <1>g, <1>h, <1>s DEF NotDispatched, FenceStep, FlightStep, At, quiet, redis, Over
  <2>4. PathStep(t)
    BY <1>12, <1>a, <1>f, <1>g, <1>h, <1>s DEF NotDispatched, PathStep, Gone, At, Over, quiet
  <2>7. ReadStep(t)
    BY <1>12, <1>a, <1>f, <1>g, <1>h, <1>s DEF NotDispatched, ReadStep, Outside, At, quiet, redis
  <2>5. /\ UNCHANGED broker
        /\ misled' \in BOOLEAN /\ (misled => misled') /\ faults' \in 0..MaxFaults
    BY <1>12, <1>a, <1>k DEF NotDispatched, quiet, counters
  <2> QED BY <1>o, <2>1, <2>2, <2>4, <2>5, <2>7 DEF Summary
<1>13. CASE Succeeds(t)
  <2>1. ClaimStep(t)
    BY <1>13, <1>a DEF Succeeds, ClaimStep, At, quiet, redis, Marked, Unmarked, Releasable
  <2>2. FenceStep(t) /\ FlightStep(t)
    BY <1>13, <1>a, <1>f, <1>g, <1>h, <1>s DEF Succeeds, FenceStep, FlightStep, At, quiet, redis, Over
  <2>3. /\ task'[t].at \in {"orders"}
        /\ \/ task'[t].kind = Kind(t)
           \/ task'[t].at = "done" /\ task'[t].kind = "create"
    BY <1>13, <1>a, <1>f, <1>g, <1>h, <1>s DEF Succeeds, TaskRecord, Kind
  <2>4. PathStep(t)
    BY <1>13, <1>a, <2>3 DEF Succeeds, PathStep, Gone, At, Over, quiet
  <2>7. ReadStep(t)
    BY <1>13, <1>a, <2>3 DEF Succeeds, ReadStep, Outside, At, quiet, redis
  <2>5. /\ UNCHANGED broker
        /\ misled' \in BOOLEAN /\ (misled => misled') /\ faults' \in 0..MaxFaults
    BY <1>13, <1>a DEF Succeeds, quiet, counters
  <2> QED BY <1>o, <2>1, <2>2, <2>4, <2>5, <2>7 DEF Summary
<1>14. CASE Refused(t)
  <2>1. ClaimStep(t)
    BY <1>14, <1>a DEF Refused, ClaimStep, At, quiet, redis, Marked, Unmarked, Releasable
  <2>2. FenceStep(t) /\ FlightStep(t)
    BY <1>14, <1>a, <1>f, <1>g, <1>h, <1>s DEF Refused, FenceStep, FlightStep, At, quiet, redis, Over
  <2>3. /\ task'[t].at \in {"orders", "clear"}
        /\ \/ task'[t].kind = Kind(t)
           \/ task'[t].at = "done" /\ task'[t].kind = "create"
    BY <1>14, <1>a, <1>f, <1>g, <1>h, <1>s DEF Refused, TaskRecord, Kind
  <2>4. PathStep(t)
    BY <1>14, <1>a, <2>3 DEF Refused, PathStep, Gone, At, Over, quiet
  <2>7. ReadStep(t)
    BY <1>14, <1>a, <2>3 DEF Refused, ReadStep, Outside, At, quiet, redis
  <2>5. /\ UNCHANGED broker
        /\ misled' \in BOOLEAN /\ (misled => misled') /\ faults' \in 0..MaxFaults
    BY <1>14, <1>a DEF Refused, quiet, counters
  <2> QED BY <1>o, <2>1, <2>2, <2>4, <2>5, <2>7 DEF Summary
<1>15. CASE Unanswered(t)
  <2>1. ClaimStep(t)
    BY <1>15, <1>a DEF Unanswered, ClaimStep, At, quiet, redis, Marked, Unmarked, Releasable
  <2>2. FenceStep(t) /\ FlightStep(t)
    BY <1>15, <1>a, <1>f, <1>g, <1>h, <1>s DEF Unanswered, FenceStep, FlightStep, At, quiet, redis, Over
  <2>4. PathStep(t)
    BY <1>15, <1>a, <1>f, <1>g, <1>h, <1>s DEF Unanswered, PathStep, Gone, At, Over, quiet
  <2>7. ReadStep(t)
    BY <1>15, <1>a, <1>f, <1>g, <1>h, <1>s DEF Unanswered, ReadStep, Outside, At, quiet, redis
  <2>5. /\ UNCHANGED broker
        /\ misled' \in BOOLEAN /\ (misled => misled') /\ faults' \in 0..MaxFaults
    BY <1>15, <1>a, <1>k DEF Unanswered, quiet, counters
  <2> QED BY <1>o, <2>1, <2>2, <2>4, <2>5, <2>7 DEF Summary
<1>16. CASE Verify(t)
  <2>1. ClaimStep(t)
    BY <1>16, <1>a DEF Verify, ClaimStep, At, quiet, redis, Marked, Unmarked, Releasable
  <2>2. FenceStep(t) /\ FlightStep(t)
    BY <1>16, <1>a, <1>f, <1>g, <1>h, <1>s DEF Verify, FenceStep, FlightStep, At, quiet, redis, Over
  <2>3. /\ task'[t].at \in {"freezeGet", "complete"}
        /\ task'[t].kind = Kind(t)
    <3>1. CASE Freeze(t, "4xx")
      BY <1>f, <3>1
    <3>2. CASE task' = [task EXCEPT ![t] = [Forget(t) EXCEPT !.at = "complete"]]
      BY <1>a, <1>s, <3>2
    <3> QED BY <1>16, <3>1, <3>2 DEF Verify
  <2>4. PathStep(t)
    BY <1>16, <2>3 DEF Verify, PathStep, Gone, At
  <2>7. ReadStep(t)
    BY <1>16, <1>a, <2>3 DEF Verify, ReadStep, Outside, At, quiet, redis
  <2>5. /\ UNCHANGED broker
        /\ misled' \in BOOLEAN /\ (misled => misled') /\ faults' \in 0..MaxFaults
    BY <1>16, <1>a DEF Verify, quiet, counters
  <2> QED BY <1>o, <2>1, <2>2, <2>4, <2>5, <2>7 DEF Summary
<1>17. CASE CompleteMutation(t)
  <2>1. ClaimStep(t)
    BY <1>17, <1>a DEF CompleteMutation, ClaimStep, At, quiet, redis, Marked, Unmarked, Releasable
  <2>2. FenceStep(t) /\ FlightStep(t)
    BY <1>17, <1>a, <1>f, <1>g, <1>h, <1>s DEF CompleteMutation, FenceStep, FlightStep, At, quiet, redis, Over
  <2>4. PathStep(t)
    BY <1>17, <1>a, <1>f, <1>g, <1>h, <1>s DEF CompleteMutation, PathStep, Gone, At, Over, quiet
  <2>7. ReadStep(t)
    BY <1>17, <1>a, <1>f, <1>g, <1>h, <1>s DEF CompleteMutation, ReadStep, Outside, At, quiet, redis
  <2>5. /\ UNCHANGED broker
        /\ misled' \in BOOLEAN /\ (misled => misled') /\ faults' \in 0..MaxFaults
    BY <1>17, <1>a DEF CompleteMutation, quiet, counters
  <2> QED BY <1>o, <2>1, <2>2, <2>4, <2>5, <2>7 DEF Summary
<1>18. CASE ClearMarker(t)
  <2>1. ClaimStep(t)
    BY <1>18, <1>a DEF ClearMarker, ClaimStep, At, quiet, redis, Marked, Unmarked, Releasable
  <2>2. FenceStep(t) /\ FlightStep(t)
    BY <1>18, <1>a, <1>f, <1>g, <1>h, <1>s DEF ClearMarker, FenceStep, FlightStep, At, quiet, redis, Over
  <2>3. /\ task'[t].at \in {"orders", "unfence"}
        /\ \/ task'[t].kind = Kind(t)
           \/ task'[t].at = "done" /\ task'[t].kind = "create"
    BY <1>18, <1>a, <1>f, <1>g, <1>h, <1>s DEF ClearMarker, TaskRecord, Kind
  <2>4. PathStep(t)
    BY <1>18, <1>a, <2>3 DEF ClearMarker, PathStep, Gone, At, Over, quiet
  <2>7. ReadStep(t)
    BY <1>18, <1>a, <2>3 DEF ClearMarker, ReadStep, Outside, At, quiet, redis
  <2>5. /\ UNCHANGED broker
        /\ misled' \in BOOLEAN /\ (misled => misled') /\ faults' \in 0..MaxFaults
    BY <1>18, <1>a DEF ClearMarker, quiet, counters
  <2> QED BY <1>o, <2>1, <2>2, <2>4, <2>5, <2>7 DEF Summary
<1>19. CASE DropClaim(t)
  <2>1. ClaimStep(t)
    BY <1>19, <1>a DEF DropClaim, ClaimStep, At, quiet, redis, Marked, Unmarked, Releasable
  <2>2. FenceStep(t) /\ FlightStep(t)
    BY <1>19, <1>a, <1>f, <1>g, <1>h, <1>s DEF DropClaim, FenceStep, FlightStep, At, quiet, redis, Over
  <2>4. PathStep(t)
    BY <1>19, <1>a, <1>f, <1>g, <1>h, <1>s DEF DropClaim, PathStep, Gone, At, Over, quiet
  <2>7. ReadStep(t)
    BY <1>19, <1>a, <1>f, <1>g, <1>h, <1>s DEF DropClaim, ReadStep, Outside, At, quiet, redis
  <2>5. /\ UNCHANGED broker
        /\ misled' \in BOOLEAN /\ (misled => misled') /\ faults' \in 0..MaxFaults
    BY <1>19, <1>a DEF DropClaim, quiet, counters
  <2> QED BY <1>o, <2>1, <2>2, <2>4, <2>5, <2>7 DEF Summary
<1>20. CASE FreezeGet(t)
  <2>1. ClaimStep(t)
    BY <1>20, <1>a DEF FreezeGet, ClaimStep, At, quiet, redis, Marked, Unmarked, Releasable
  <2>2. FenceStep(t) /\ FlightStep(t)
    BY <1>20, <1>a, <1>f, <1>g, <1>h, <1>s DEF FreezeGet, FenceStep, FlightStep, At, quiet, redis, Over
  <2>3. /\ task'[t].at \in {"freezeSet", "unfence", "done"}
        /\ \/ task'[t].kind = Kind(t)
           \/ task'[t].at = "done" /\ task'[t].kind = "create"
    BY <1>20, <1>a, <1>f, <1>g, <1>h, <1>s DEF FreezeGet, TaskRecord, Kind, Unrecorded
  <2>4. PathStep(t)
    BY <1>20, <1>a, <2>3 DEF FreezeGet, PathStep, Gone, At, Over, quiet
  <2>7. ReadStep(t)
    BY <1>20, <1>a, <2>3 DEF FreezeGet, ReadStep, Outside, At, quiet, redis
  <2>5. /\ UNCHANGED broker
        /\ misled' \in BOOLEAN /\ (misled => misled') /\ faults' \in 0..MaxFaults
    BY <1>20, <1>a DEF FreezeGet, quiet, counters
  <2> QED BY <1>o, <2>1, <2>2, <2>4, <2>5, <2>7 DEF Summary
<1>21. CASE FreezeSet(t)
  <2>1. ClaimStep(t)
    BY <1>21, <1>a DEF FreezeSet, ClaimStep, At, quiet, redis, Marked, Unmarked, Releasable
  <2>2. FenceStep(t) /\ FlightStep(t)
    BY <1>21, <1>a, <1>f, <1>g, <1>h, <1>s DEF FreezeSet, FenceStep, FlightStep, At, quiet, redis, Over
  <2>4. PathStep(t)
    BY <1>21, <1>a, <1>f, <1>g, <1>h, <1>s DEF FreezeSet, PathStep, Gone, At, Over, quiet
  <2>7. ReadStep(t)
    BY <1>21, <1>a, <1>f, <1>g, <1>h, <1>s DEF FreezeSet, ReadStep, Outside, At, quiet, redis
  <2>5. /\ UNCHANGED broker
        /\ misled' \in BOOLEAN /\ (misled => misled') /\ faults' \in 0..MaxFaults
    BY <1>21, <1>a DEF FreezeSet, quiet, counters
  <2> QED BY <1>o, <2>1, <2>2, <2>4, <2>5, <2>7 DEF Summary
<1>22. CASE Unfence(t)
  <2>1. ClaimStep(t)
    BY <1>22, <1>a DEF Unfence, ClaimStep, At, quiet, redis, Marked, Unmarked, Releasable
  <2>2. FenceStep(t) /\ FlightStep(t)
    BY <1>22, <1>a, <1>f, <1>g, <1>h, <1>s DEF Unfence, FenceStep, FlightStep, At, quiet, redis, Over
  <2>3. /\ task'[t].at \in {"lateGet", "done"}
        /\ \/ task'[t].kind = Kind(t)
           \/ task'[t].at = "done" /\ task'[t].kind = "create"
    BY <1>22, <1>a, <1>f, <1>g, <1>h, <1>s DEF Unfence, TaskRecord, Kind, AfterFence
  <2>4. PathStep(t)
    BY <1>22, <1>a, <2>3 DEF Unfence, PathStep, Gone, At, Over, quiet
  <2>7. ReadStep(t)
    BY <1>22, <1>a, <2>3 DEF Unfence, ReadStep, Outside, At, quiet, redis
  <2>5. /\ UNCHANGED broker
        /\ misled' \in BOOLEAN /\ (misled => misled') /\ faults' \in 0..MaxFaults
    BY <1>22, <1>a DEF Unfence, quiet, counters
  <2> QED BY <1>o, <2>1, <2>2, <2>4, <2>5, <2>7 DEF Summary
<1>23. CASE LateFreezeGet(t)
  <2>1. ClaimStep(t)
    BY <1>23, <1>a DEF LateFreezeGet, ClaimStep, At, quiet, redis, Marked, Unmarked, Releasable
  <2>2. FenceStep(t) /\ FlightStep(t)
    BY <1>23, <1>a, <1>f, <1>g, <1>h, <1>s DEF LateFreezeGet, FenceStep, FlightStep, At, quiet, redis, Over
  <2>3. /\ task'[t].at \in {"lateSet", "done"}
        /\ \/ task'[t].kind = Kind(t)
           \/ task'[t].at = "done" /\ task'[t].kind = "create"
    BY <1>23, <1>a, <1>f, <1>g, <1>h, <1>s DEF LateFreezeGet, TaskRecord, Kind
  <2>4. PathStep(t)
    BY <1>23, <1>a, <2>3 DEF LateFreezeGet, PathStep, Gone, At, Over, quiet
  <2>7. ReadStep(t)
    BY <1>23, <1>a, <2>3 DEF LateFreezeGet, ReadStep, Outside, At, quiet, redis
  <2>5. /\ UNCHANGED broker
        /\ misled' \in BOOLEAN /\ (misled => misled') /\ faults' \in 0..MaxFaults
    BY <1>23, <1>a DEF LateFreezeGet, quiet, counters
  <2> QED BY <1>o, <2>1, <2>2, <2>4, <2>5, <2>7 DEF Summary
<1>24. CASE LateFreezeSet(t)
  <2>1. ClaimStep(t)
    BY <1>24, <1>a DEF LateFreezeSet, ClaimStep, At, quiet, redis, Marked, Unmarked, Releasable
  <2>2. FenceStep(t) /\ FlightStep(t)
    BY <1>24, <1>a, <1>f, <1>g, <1>h, <1>s DEF LateFreezeSet, FenceStep, FlightStep, At, quiet, redis, Over
  <2>4. PathStep(t)
    BY <1>24, <1>a, <1>f, <1>g, <1>h, <1>s DEF LateFreezeSet, PathStep, Gone, At, Over, quiet
  <2>7. ReadStep(t)
    BY <1>24, <1>a, <1>f, <1>g, <1>h, <1>s DEF LateFreezeSet, ReadStep, Outside, At, quiet, redis
  <2>5. /\ UNCHANGED broker
        /\ misled' \in BOOLEAN /\ (misled => misled') /\ faults' \in 0..MaxFaults
    BY <1>24, <1>a DEF LateFreezeSet, quiet, counters
  <2> QED BY <1>o, <2>1, <2>2, <2>4, <2>5, <2>7 DEF Summary
<1>25. CASE Review(t)
  <2>1. ClaimStep(t)
    BY <1>25, <1>a DEF Review, ClaimStep, At, quiet, redis, Marked, Unmarked, Releasable
  <2>2. FenceStep(t) /\ FlightStep(t)
    BY <1>25, <1>a, <1>f, <1>g, <1>h, <1>s DEF Review, FenceStep, FlightStep, At, quiet, redis, Over
  <2>3. /\ task'[t].at \in {"orders", "unfence"}
        /\ \/ task'[t].kind = Kind(t)
           \/ task'[t].at = "done" /\ task'[t].kind = "create"
    BY <1>25, <1>a, <1>f, <1>g, <1>h, <1>s DEF Review, TaskRecord, Kind
  <2>4. PathStep(t)
    BY <1>25, <1>a, <2>3 DEF Review, PathStep, Gone, At, Over, quiet
  <2>7. ReadStep(t)
    BY <1>25, <1>a, <2>3 DEF Review, ReadStep, Outside, At, quiet, redis
  <2>5. /\ UNCHANGED broker
        /\ misled' \in BOOLEAN /\ (misled => misled') /\ faults' \in 0..MaxFaults
    BY <1>25, <1>a DEF Review, quiet, counters
  <2> QED BY <1>o, <2>1, <2>2, <2>4, <2>5, <2>7 DEF Summary
<1>26. CASE Thaw(t)
  <2>1. ClaimStep(t)
    BY <1>26, <1>a DEF Thaw, ClaimStep, At, quiet, redis, Marked, Unmarked, Releasable
  <2>2. FenceStep(t) /\ FlightStep(t)
    BY <1>26, <1>a, <1>f, <1>g, <1>h, <1>s DEF Thaw, FenceStep, FlightStep, At, quiet, redis, Over
  <2>4. PathStep(t)
    BY <1>26, <1>a, <1>f, <1>g, <1>h, <1>s DEF Thaw, PathStep, Gone, At, Over, quiet
  <2>7. ReadStep(t)
    BY <1>26, <1>a, <1>f, <1>g, <1>h, <1>s DEF Thaw, ReadStep, Outside, At, quiet, redis
  <2>5. /\ UNCHANGED broker
        /\ misled' \in BOOLEAN /\ (misled => misled') /\ faults' \in 0..MaxFaults
    BY <1>26, <1>a DEF Thaw, quiet, counters
  <2> QED BY <1>o, <2>1, <2>2, <2>4, <2>5, <2>7 DEF Summary
<1>27. CASE StoreFails(t)
  <2>1. ClaimStep(t)
    BY <1>27, <1>a DEF StoreFails, ClaimStep, At, quiet, redis, Marked, Unmarked, Releasable
  <2>2. FenceStep(t) /\ FlightStep(t)
    BY <1>27, <1>a, <1>f, <1>g, <1>h, <1>s DEF StoreFails, FenceStep, FlightStep, At, quiet, redis, Over
  <2>3. /\ task'[t].at \in {"unfence", "freezeGet", "lateGet", "done"}
        /\ \/ task'[t].kind = Kind(t)
           \/ task'[t].at = "done" /\ task'[t].kind = "create"
    BY <1>27, <1>a, <1>f, <1>g, <1>h, <1>s DEF StoreFails, TaskRecord, Kind, Unrecorded, AfterFence
  <2>4. PathStep(t)
    BY <1>27, <1>a, <2>3 DEF StoreFails, PathStep, Gone, At, Over, quiet
  <2>7. ReadStep(t)
    <3>1. task[t].at \in Outside => task'[t].at \in Outside
      BY <1>27, <1>a, <1>h DEF StoreFails, Outside, At
    <3>2. fence' = fence
      BY <1>27 DEF StoreFails
    <3> QED BY <2>3, <3>1, <3>2 DEF ReadStep, Outside, At
  <2>5. /\ UNCHANGED broker
        /\ misled' \in BOOLEAN /\ (misled => misled') /\ faults' \in 0..MaxFaults
    BY <1>27, <1>a, <1>k DEF StoreFails, quiet, counters
  <2> QED BY <1>o, <2>1, <2>2, <2>4, <2>5, <2>7 DEF Summary
<1>28. CASE ReadLags(t)
  <2>0. misled' = TRUE /\ UNCHANGED <<claim, fence, broker, flight>>
    BY <1>28 DEF ReadLags, Fault, redis
  <2>1. ClaimStep(t) /\ FenceStep(t) /\ FlightStep(t)
    BY <2>0 DEF ClaimStep, FenceStep, FlightStep
  <2>2. AfterReads(t) \in {"thaw", "verify", "drop", "close", "load"}
    BY <1>a DEF AfterReads, TaskRecord
  <2>3. /\ task'[t].kind = Kind(t)
        /\ \/ At(t, "orders") /\ task'[t].at = "positions"
           \/ At(t, "positions") /\ task'[t].at \in {"thaw", "verify", "drop", "close", "load"}
    BY <1>28, <1>a, <2>2 DEF ReadLags, TaskRecord, Kind, At
  <2>4. PathStep(t)
    BY <2>0, <2>3 DEF PathStep, Gone, At
  <2>5. ReadStep(t)
    BY <2>0, <2>3 DEF ReadStep, Outside, At
  <2>6. UNCHANGED broker /\ misled' \in BOOLEAN /\ (misled => misled') /\ faults' \in 0..MaxFaults
    BY <1>28, <1>k, <2>0 DEF ReadLags
  <2> QED BY <1>o, <2>1, <2>4, <2>5, <2>6 DEF Summary
<1> QED BY <1>1, <1>2, <1>3, <1>4, <1>5, <1>6, <1>7, <1>8, <1>9, <1>10, <1>11, <1>12, <1>13, <1>14, <1>15, <1>16, <1>17, <1>18, <1>19, <1>20, <1>21, <1>22, <1>23, <1>24, <1>25, <1>26, <1>27, <1>28 DEF TaskStep

-----------------------------------------------------------------------------
(* The protocol *)

LEMMA SummaryShapes ==
  ASSUME Shapes, NEW t \in Tasks, Summary(t)
  PROVE  Shapes'
<1> USE OwnershipAssumption
<1>a. /\ task \in [Tasks -> Fit] /\ task[t] \in Fit /\ task[t] \in TaskRecord
      /\ TypeOK /\ OutIsGone
  BY DEF Shapes, Fit
<1>1. task' \in [Tasks -> Fit] /\ \A u \in Tasks \ {t} : task'[u] = task[u]
  BY <1>a DEF Summary, OwnStep
<1>2. claim' \in Claim \union {None}
  <2>1. ClaimStep(t) /\ claim \in Claim \union {None} /\ task[t].claim \in Claim \union {None}
    BY <1>a DEF Summary, TypeOK, TaskRecord
  <2>2. At(t, "claim") => task[t].client \in Clients
    BY <1>a DEF Fit, At, ForRequests
  <2>3. task[t].at \in {"freezeSet", "lateSet", "thaw"} => task[t].claim # None
    BY <1>a DEF Fit
  <2>4. CASE UNCHANGED claim
    BY <2>1, <2>4
  <2>5. CASE /\ claim # None
             /\ \/ claim' = [claim EXCEPT !.pending = t]
                \/ claim' = [claim EXCEPT !.pending = None]
                \/ claim' = [claim EXCEPT !.frozen = FALSE, !.pending = None]
    <3>1. claim \in Claim
      BY <2>1, <2>5
    <3>2. /\ [claim EXCEPT !.pending = t] \in Claim
          /\ [claim EXCEPT !.pending = None] \in Claim
      BY <3>1 DEF Claim
    <3>3. [claim EXCEPT !.frozen = FALSE, !.pending = None] \in Claim
      BY <3>1 DEF Claim
    <3> QED BY <2>5, <3>2, <3>3
  <2>6. CASE /\ task[t].claim # None
             /\ \/ claim' = [task[t].claim EXCEPT !.frozen = TRUE]
                \/ claim' = [task[t].claim EXCEPT !.frozen = FALSE, !.pending = None]
    BY <2>1, <2>6 DEF Claim
  <2>7. CASE /\ task[t].client \in Clients
             /\ claim' = [owner |-> task[t].client, pending |-> None, frozen |-> FALSE]
    BY <2>7 DEF Claim
  <2> QED BY <2>1, <2>2, <2>3, <2>4, <2>5, <2>6, <2>7 DEF ClaimStep, HoldsMarker, At
<1>3. fence' \in Tasks \union {None}
  BY <1>a DEF Summary, FenceStep, TypeOK
<1>4. flight' \in [Tasks -> Flights]
  BY <1>a DEF Summary, FlightStep, TypeOK, Flights, Overruled
<1>5. book' = book /\ holders' = holders /\ misled' \in BOOLEAN /\ faults' \in 0..MaxFaults
  BY DEF Summary, broker
<1>6. TypeOK'
  <2>1. task' \in [Tasks -> TaskRecord]
    BY <1>1 DEF Fit
  <2> QED BY <1>a, <1>2, <1>3, <1>4, <1>5, <2>1 DEF TypeOK, TaskRecord
<1>7. OutIsGone'
  <2> SUFFICES ASSUME NEW u \in Tasks, flight'[u] = "out"
               PROVE  task'[u].at \in Gone
    BY DEF OutIsGone
  <2>1. CASE u # t
    <3>1. flight[u] = "out" /\ task'[u] = task[u]
      BY <1>a, <1>1, <2>1 DEF Summary, FlightStep, TypeOK, Overruled
    <3> QED BY <1>a, <3>1 DEF OutIsGone
  <2>2. CASE u = t
    <3>1. CASE flight[t] = "out"
      BY <1>a, <2>2, <3>1 DEF Summary, PathStep, OutIsGone, Gone, At
    <3>2. CASE flight[t] # "out"
      <4>1. task'[t].at = "write"
        BY <1>a, <2>2, <3>2 DEF Summary, FlightStep, TypeOK, Overruled
      <4> QED BY <2>2, <4>1 DEF Gone
    <3> QED BY <3>1, <3>2
  <2> QED BY <2>1, <2>2
<1> QED BY <1>1, <1>6, <1>7 DEF Shapes

LEMMA SummaryProtocol ==
  ASSUME Protocol, NEW t \in Tasks, Summary(t)
  PROVE  Protocol'
<1> USE OwnershipAssumption
<1>a. /\ Shapes /\ FencedDispatch /\ HolderIsAlone /\ WritersCovered /\ SingleWriter
      /\ OwnStep(t) /\ ClaimStep(t) /\ FenceStep(t) /\ FlightStep(t) /\ PathStep(t)
  BY DEF Protocol, Summary
<1>s. Shapes'
  BY <1>a, SummaryShapes
<1>b. /\ task \in [Tasks -> Fit] /\ task[t] \in Fit /\ task[t] \in TaskRecord
      /\ claim \in Claim \union {None} /\ fence \in Tasks \union {None}
      /\ flight \in [Tasks -> Flights] /\ OutIsGone
  BY <1>a DEF Shapes, TypeOK, Fit
<1>1. \A u \in Tasks \ {t} : task'[u] = task[u] /\ (flight'[u] = "out" => flight[u] = "out")
  BY <1>a, <1>b DEF OwnStep, FlightStep, Overruled
<1>2. FencedDispatch'
  <2> SUFFICES ASSUME NEW u \in Tasks, task'[u].at = "dispatch", task'[u].kind # "bulk"
               PROVE  fence' = u
    BY DEF FencedDispatch, At, Kind
  <2>1. CASE u = t
    BY <1>a, <2>1 DEF PathStep
  <2>2. CASE u # t
    <3>1. fence = u
      BY <1>a, <1>1, <2>2 DEF FencedDispatch, At, Kind
    <3> QED BY <1>a, <2>2, <3>1 DEF FenceStep
  <2> QED BY <2>1, <2>2
(* Who sends its write holds the fence, and nobody else's is out. *)
<1>3. \A u \in Tasks : flight'[u] = "out" /\ flight[u] # "out" =>
        /\ u = t /\ At(t, "dispatch") /\ fence = t /\ UNCHANGED fence
        /\ task'[t].at = "write" /\ Kind(t) # "thaw" /\ task'[t].kind = Kind(t)
        /\ \A v \in Tasks \ {t} : flight[v] # "out"
  <2> SUFFICES ASSUME NEW u \in Tasks, flight'[u] = "out", flight[u] # "out"
               PROVE  /\ u = t /\ At(t, "dispatch") /\ fence = t /\ UNCHANGED fence
                      /\ task'[t].at = "write" /\ Kind(t) # "thaw" /\ task'[t].kind = Kind(t)
                      /\ \A v \in Tasks \ {t} : flight[v] # "out"
    OBVIOUS
  <2>1. u = t
    BY <1>1
  <2>2. /\ At(t, "dispatch") /\ (Kind(t) = "bulk" => fence = t)
        /\ task'[t].at = "write"
    BY <1>a, <1>b, <2>1 DEF FlightStep, Overruled
  <2>3. fence = t
    BY <1>a, <2>2 DEF FencedDispatch
  <2>4. UNCHANGED fence /\ Kind(t) # "thaw" /\ task'[t].kind = Kind(t)
    BY <1>a, <1>b, <2>2 DEF FenceStep, PathStep, At, Fit, Kind, ForRequests
  <2>5. \A v \in Tasks \ {t} : flight[v] # "out"
    BY <1>a, <2>2, <2>3 DEF HolderIsAlone, At
  <2> QED BY <2>1, <2>2, <2>3, <2>4, <2>5
<1>4. SingleWriter'
  BY <1>a, <1>1, <1>3 DEF SingleWriter
<1>5. HolderIsAlone'
  <2> SUFFICES ASSUME NEW h \in Tasks, NEW u \in Tasks, fence' = h, flight'[u] = "out", u # h,
                      task'[h].at \in {"claim", "begin", "dispatch"}
               PROVE  FALSE
    BY DEF HolderIsAlone
  <2>1. flight[u] = "out"
    <3> SUFFICES ASSUME flight[u] # "out"
                 PROVE  FALSE
      OBVIOUS
    <3> QED BY <1>3
  <2>2. CASE h # t
    <3>1. fence = h /\ task'[h] = task[h]
      BY <1>a, <1>1, <2>2 DEF FenceStep
    <3> QED BY <1>a, <2>1, <3>1 DEF HolderIsAlone
  <2>3. CASE h = t /\ fence # t
    <3>1. task'[t].at \in {"review", "orders"}
      BY <1>a, <2>3 DEF FenceStep
    <3> QED BY <2>3, <3>1
  <2>5. CASE h = t /\ fence = t
    <3>1. CASE task[t].at \in {"claim", "begin"}
      BY <1>a, <2>1, <2>5, <3>1 DEF HolderIsAlone
    <3>2. CASE task[t].at \notin {"claim", "begin"}
      <4>1. claim = None \/ ~Locked(claim)
        BY <1>a, <2>5, <3>2 DEF PathStep, At
      <4>2. Covers(u)
        BY <1>a, <2>1 DEF WritersCovered
      <4> QED BY <4>1, <4>2 DEF Covers, Locked
    <3> QED BY <3>1, <3>2
  <2> QED BY <2>2, <2>3, <2>5
<1>6. WritersCovered'
  <2> SUFFICES ASSUME NEW u \in Tasks,
                      flight'[u] = "out" \/ (task'[u].at = "dispatch" /\ fence' = u)
               PROVE  Covers(u)'
    BY DEF WritersCovered, At
  <2>1. CASE u = t /\ task'[t].at = "dispatch"
    BY <1>a, <2>1 DEF PathStep, HoldsMarker, Covers
  <2>2. CASE ~(u = t /\ task'[t].at = "dispatch")
    <3>1. flight[u] = "out" \/ (At(u, "dispatch") /\ fence = u)
      BY <1>a, <1>1, <1>3, <2>2 DEF FenceStep, At
    <3>2. Covers(u) /\ claim \in Claim
      BY <1>a, <1>b, <3>1 DEF WritersCovered, Covers
    <3>3. CASE UNCHANGED claim
      BY <3>2, <3>3 DEF Covers
    <3>4. CASE task[t].at \in {"complete", "clear"} /\ HoldsMarker(t)
               /\ claim' = [claim EXCEPT !.pending = None]
      <4>1. u # t
        BY <1>b, <3>1, <3>4 DEF OutIsGone, Gone, At
      <4>2. claim.frozen /\ claim'.frozen /\ claim' \in Claim
        BY <3>2, <3>4, <4>1 DEF Covers, HoldsMarker, Claim
      <4> QED BY <4>2 DEF Covers
    <3>5. CASE At(t, "begin") /\ claim.pending = None /\ claim' = [claim EXCEPT !.pending = t]
      <4>1. claim.frozen /\ claim'.frozen /\ claim' \in Claim
        BY <3>2, <3>5 DEF Covers, Claim
      <4> QED BY <4>1 DEF Covers
    <3>6. CASE /\ task[t].at \in {"freezeSet", "lateSet"}
               /\ claim' = [task[t].claim EXCEPT !.frozen = TRUE]
      <4>1. task[t].claim \in Claim
        BY <1>b, <3>6 DEF Fit, TaskRecord
      <4>2. claim'.frozen /\ claim' \in Claim
        BY <3>6, <4>1 DEF Claim
      <4> QED BY <4>2 DEF Covers
    <3>7. CASE At(t, "thaw") /\ fence = t /\ flight' = Overruled
      <4>1. flight'[u] # "out"
        BY <3>7 DEF Overruled
      <4>2. fence' = t
        BY <1>a, <3>7 DEF FenceStep, At
      <4> QED BY <2>2, <4>1, <4>2
    <3> QED BY <1>a, <3>2, <3>3, <3>4, <3>5, <3>6, <3>7 DEF ClaimStep, Covers, Locked
  <2> QED BY <2>1, <2>2
<1> QED BY <1>s, <1>2, <1>4, <1>5, <1>6 DEF Protocol

-----------------------------------------------------------------------------
(* The rest of the world *)

LEMMA WorldProtocol ==
  ASSUME Protocol,
         \/ \E t \in Tasks : Apply(t) \/ ThreadEnds(t)
         \/ \E o \in Clients \union {None} : Fill(o)
         \/ Crash \/ Lapse \/ UNCHANGED vars
  PROVE  Protocol'
<1> USE OwnershipAssumption
<1>a. /\ Shapes /\ FencedDispatch /\ HolderIsAlone /\ WritersCovered /\ SingleWriter
  BY DEF Protocol
<1>b. /\ TypeOK /\ task \in [Tasks -> Fit] /\ OutIsGone
      /\ \A t \in Tasks : task[t] \in TaskRecord
  BY <1>a DEF Shapes, Fit
<1>c. ASSUME UNCHANGED <<task, claim, fence>>,
             flight' \in [Tasks -> Flights],
             \A u \in Tasks : flight'[u] = "out" => flight[u] = "out",
             book' \subseteq Clients \union {None}, holders' \subseteq Clients,
             UNCHANGED counters
      PROVE  Protocol'
  <2>1. TypeOK'
    BY <1>b, <1>c DEF TypeOK, counters
  <2>2. OutIsGone'
    BY <1>b, <1>c DEF OutIsGone
  <2>3. FencedDispatch' /\ HolderIsAlone' /\ WritersCovered' /\ SingleWriter'
    BY <1>a, <1>c DEF FencedDispatch, HolderIsAlone, WritersCovered, SingleWriter, Covers, At, Kind
  <2> QED BY <1>b, <1>c, <2>1, <2>2, <2>3 DEF Protocol, Shapes
<1>1. ASSUME NEW t \in Tasks, Apply(t) PROVE Protocol'
  <2>1. /\ UNCHANGED <<task, claim, fence, misled, faults, holders>>
        /\ flight' = [flight EXCEPT ![t] = "applied"]
    BY <1>1 DEF Apply, redis, counters
  <2>2. book' \subseteq Clients \union {None}
    BY <1>1, <1>b DEF Apply, TypeOK, TaskRecord
  <2> QED BY <1>b, <1>c, <2>1, <2>2 DEF TypeOK, counters, Flights
<1>2. ASSUME NEW t \in Tasks, ThreadEnds(t) PROVE Protocol'
  <2>1. /\ UNCHANGED <<task, claim, fence, misled, faults, holders, book>>
        /\ flight' = [flight EXCEPT ![t] = "over"]
    BY <1>2 DEF ThreadEnds, Over, redis, counters, broker
  <2> QED BY <1>b, <1>c, <2>1 DEF TypeOK, counters, Flights
<1>3. ASSUME NEW o \in Clients \union {None}, Fill(o) PROVE Protocol'
  <2>1. UNCHANGED <<task, claim, fence, misled, faults, flight>>
    BY <1>3 DEF Fill, redis, counters
  <2>2. book' \subseteq Clients \union {None} /\ holders' \subseteq Clients
    BY <1>3, <1>b DEF Fill, TypeOK
  <2> QED BY <1>b, <1>c, <2>1, <2>2 DEF TypeOK, counters
<1>4. CASE Crash
  <2>1. /\ UNCHANGED <<claim, fence, book, holders, flight>>
        /\ task' = [t \in Tasks |-> IF At(t, "idle") THEN task[t] ELSE Ended(t)]
    BY <1>4 DEF Crash, redis, broker
  <2>2. \A t \in Tasks : Ended(t) \in Fit /\ Ended(t).at = "done"
    BY <1>a, EndedFits
  <2>3. task' \in [Tasks -> Fit]
    BY <1>b, <2>1, <2>2
  <2>4. \A t \in Tasks : (task'[t] = task[t] /\ At(t, "idle")) \/ task'[t].at = "done"
    BY <2>1, <2>2
  <2>5. misled' \in BOOLEAN /\ faults' \in 0..MaxFaults
    BY <1>4, <1>b DEF Crash, Fault, TypeOK
  <2>6. TypeOK'
    <3>1. task' \in [Tasks -> TaskRecord]
      BY <2>3 DEF Fit
    <3> QED BY <1>b, <2>1, <2>5, <3>1 DEF TypeOK, TaskRecord
  <2>7. OutIsGone'
    BY <1>b, <2>1, <2>4 DEF OutIsGone, Gone, At
  <2>8. FencedDispatch' /\ WritersCovered' /\ SingleWriter'
    BY <1>a, <2>1, <2>4 DEF FencedDispatch, WritersCovered, SingleWriter, Covers, At, Kind
  <2>9. HolderIsAlone'
    BY <1>a, <2>1, <2>4 DEF HolderIsAlone, At
  <2> QED BY <2>3, <2>6, <2>7, <2>8, <2>9 DEF Protocol, Shapes
<1>5. CASE Lapse
  <2>1. /\ UNCHANGED <<claim, book, holders, task, flight>>
        /\ fence \in Tasks /\ fence' = None
        /\ At(fence, "dispatch") => Kind(fence) = "bulk"
    BY <1>5, <1>b DEF Lapse, broker, At, TypeOK
  <2>2. misled' \in BOOLEAN /\ faults' \in 0..MaxFaults
    <3>1. UNCHANGED counters \/ Fault("lapse")
      BY <1>5 DEF Lapse
    <3>2. misled \in BOOLEAN /\ faults \in 0..MaxFaults
      BY <1>b DEF TypeOK
    <3>3. CASE UNCHANGED counters
      BY <3>2, <3>3 DEF counters
    <3>4. CASE Fault("lapse")
      <4>1. misled' \in BOOLEAN
        BY <3>4 DEF Fault
      <4>2. faults' \in 0..MaxFaults
        BY <3>2, <3>4 DEF Fault
      <4> QED BY <4>1, <4>2
    <3> QED BY <3>1, <3>3, <3>4
  <2>3. TypeOK' /\ OutIsGone'
    BY <1>b, <2>1, <2>2 DEF TypeOK, OutIsGone
  <2>4. FencedDispatch'
    BY <1>a, <2>1 DEF FencedDispatch, At, Kind
  <2>5. HolderIsAlone' /\ WritersCovered' /\ SingleWriter'
    BY <1>a, <2>1 DEF HolderIsAlone, WritersCovered, SingleWriter, Covers, At, Kind
  <2> QED BY <1>b, <2>1, <2>3, <2>4, <2>5 DEF Protocol, Shapes
<1>6. CASE UNCHANGED vars
  BY <1>b, <1>c, <1>6 DEF vars, counters, TypeOK
<1> QED BY <1>1, <1>2, <1>3, <1>4, <1>5, <1>6

-----------------------------------------------------------------------------
(* Exposure *)

(* A request or a command takes a step, and nothing misleads it: the        *)
(* others are outside and can at most freeze.                               *)
LEMMA SummaryExposure ==
  ASSUME IInv, NEW t \in Tasks, Summary(t)
  PROVE  InsideIsFenced' /\ OperatorIsAlone' /\ ReadsHold' /\ ClaimCoversExposure'
<1> USE OwnershipAssumption
<1> SUFFICES ASSUME ~misled'
             PROVE  InsideIsFenced' /\ OperatorIsAlone' /\ ReadsHold' /\ ClaimCoversExposure'
  BY DEF InsideIsFenced, OperatorIsAlone, ReadsHold, ClaimCoversExposure
<1>a. /\ Protocol /\ InsideIsFenced /\ OperatorIsAlone /\ ReadsHold /\ ClaimCoversExposure /\ ~misled
      /\ OwnStep(t) /\ ClaimStep(t) /\ FenceStep(t) /\ FlightStep(t) /\ PathStep(t) /\ ReadStep(t)
      /\ book' = book /\ holders' = holders
  BY DEF IInv, Summary, broker
<1>b. /\ task \in [Tasks -> Fit] /\ task[t] \in Fit /\ task[t] \in TaskRecord
      /\ claim \in Claim \union {None} /\ fence \in Tasks \union {None}
      /\ flight \in [Tasks -> Flights]
      /\ OutIsGone /\ HolderIsAlone /\ WritersCovered /\ FencedDispatch
  BY <1>a DEF Protocol, Shapes, TypeOK, Fit
<1>c. Protocol'
  BY <1>a, SummaryProtocol
<1>d. claim' \in Claim \union {None} /\ WritersCovered'
  BY <1>c DEF Protocol, Shapes, TypeOK
<1>1. \A u \in Tasks \ {t} : task'[u] = task[u] /\ (flight'[u] = "out" => flight[u] = "out")
  BY <1>a, <1>b DEF OwnStep, FlightStep, Overruled
<1>2. InsideIsFenced'
  <2> SUFFICES ASSUME NEW u \in Tasks, task'[u].at \notin Outside
               PROVE  fence' = u
    BY DEF InsideIsFenced
  <2>1. CASE u = t
    BY <1>a, <2>1 DEF ReadStep, InsideIsFenced
  <2>2. CASE u # t
    <3>1. fence = u
      BY <1>a, <1>1, <2>2 DEF InsideIsFenced
    <3> QED BY <1>a, <2>2, <3>1 DEF FenceStep
  <2> QED BY <2>1, <2>2
<1>6. OperatorIsAlone'
  <2>1. At(t, "thaw") /\ fence = t => NoneOut
    BY <1>a, <1>b DEF OperatorIsAlone, Outside, At, Fit, Kind
  <2>2. At(t, "thaw") /\ fence = t => Overruled = flight
    BY <1>b, <2>1 DEF NoneOut, OnTheWay, Overruled
  <2>3. \A u \in Tasks \ {t} : flight'[u] = flight[u]
    BY <1>a, <1>b, <2>2 DEF FlightStep
  <2>4. flight'[t] \in OnTheWay => flight[t] \in OnTheWay \/ At(t, "dispatch")
    BY <1>a, <1>b, <2>2 DEF FlightStep, OnTheWay
  <2>5. \A u \in Tasks : flight'[u] # "overruled"
    BY <1>a, <1>b, <2>2, <2>3 DEF FlightStep, OperatorIsAlone
  <2>6. ASSUME NEW u \in Tasks, fence' = u, task'[u].kind = "thaw", task'[u].at \notin Outside
        PROVE  NoneOut'
    <3>1. CASE u # t
      <4>1. fence = u /\ task'[u] = task[u]
        BY <1>a, <1>1, <2>6, <3>1 DEF FenceStep
      <4>2. NoneOut /\ ~At(t, "dispatch")
        BY <1>a, <2>6, <3>1, <4>1 DEF OperatorIsAlone, InsideIsFenced, Kind, At, Outside
      <4> QED BY <2>3, <2>4, <4>2 DEF NoneOut
    <3>2. CASE u = t
      <4>1. ~At(t, "dispatch")
        BY <1>a, <1>b, <2>6, <3>2 DEF PathStep, At, Fit, ForRequests, Kind, Outside
      <4>2. NoneOut
        <5>1. CASE fence = t
          <6>1. Kind(t) = "thaw"
            BY <1>a, <2>6, <3>2, <5>1, OwnershipAssumption DEF PathStep, TypeOK
          <6>2. task[t].at \notin Outside
            BY <1>a, <2>6, <3>2, <5>1, OwnershipAssumption DEF ReadStep
          <6> QED BY <1>a, <5>1, <6>1, <6>2 DEF OperatorIsAlone
        <5>2. CASE fence # t
          BY <1>a, <2>6, <3>2, <5>2 DEF FenceStep
        <5> QED BY <5>1, <5>2
      <4> QED BY <2>3, <2>4, <4>1, <4>2 DEF NoneOut
    <3> QED BY <3>1, <3>2
  <2> QED BY <2>5, <2>6 DEF OperatorIsAlone, Kind
(* Who is outside changes the claim only by a freeze, and sends nothing. *)
<1>3. ASSUME task[t].at \in Outside
      PROVE  /\ UNCHANGED flight
             /\ claim' = claim \/ (claim' # None /\ Locked(claim'))
  <2>1. UNCHANGED flight
    BY <1>a, <1>3 DEF FlightStep, Outside, At
  <2>2. \/ UNCHANGED claim
        \/ At(t, "lateSet") /\ claim' = [task[t].claim EXCEPT !.frozen = TRUE]
    BY <1>a, <1>3 DEF ClaimStep, Outside, At
  <2>3. ASSUME At(t, "lateSet"), claim' = [task[t].claim EXCEPT !.frozen = TRUE]
        PROVE  claim' # None /\ Locked(claim')
    <3>1. task[t].claim \in Claim
      BY <1>b, <2>3 DEF Fit, TaskRecord, At
    <3>2. claim' \in Claim /\ claim'.frozen
      BY <2>3, <3>1 DEF Claim
    <3> QED BY <3>2 DEF Locked
  <2> QED BY <2>1, <2>2, <2>3
<1>4. ReadsHold'
  <2>1. \A u \in Tasks \ {t} : task[u].at \notin Outside => task[t].at \in Outside
    BY <1>a DEF InsideIsFenced
  <2>2. ASSUME NEW u \in Tasks \ {t}
        PROVE  /\ At(u, "positions")' /\ task'[u].book = {} =>
                    LockedFor(u)' \/ (NoneOut' /\ book' \subseteq {None})
               /\ task'[u].at \in {"load", "release", "drop", "thaw"} /\ Flat(u)' =>
                    LockedFor(u)' \/ (NoneOut' /\ book' \subseteq {None} /\ holders' = {})
               /\ At(u, "release")' => Flat(u)'
    <3>1. CASE task[u].at \in Outside
      BY <1>1, <3>1 DEF Outside, At
    <3>2. CASE task[u].at \notin Outside
      <4>1. /\ UNCHANGED flight
            /\ claim' = claim \/ (claim' # None /\ Locked(claim'))
        BY <1>3, <2>1, <3>2
      <4>2. LockedFor(u) => LockedFor(u)'
        BY <1>1, <4>1 DEF LockedFor, Kind
      <4>3. NoneOut => NoneOut'
        BY <4>1 DEF NoneOut
      <4>4. task'[u] = task[u] /\ (Flat(u)' <=> Flat(u))
        BY <1>1 DEF Flat
      <4> QED BY <1>a, <4>2, <4>3, <4>4 DEF ReadsHold, At
    <3> QED BY <3>1, <3>2
  <2>3. At(t, "positions")' /\ task'[t].book = {} =>
          LockedFor(t)' \/ (NoneOut' /\ book' \subseteq {None})
    <3> SUFFICES ASSUME task'[t].at = "positions", task'[t].book = {}
                 PROVE  LockedFor(t)' \/ (NoneOut' /\ book' \subseteq {None})
      BY DEF At
    <3>1. /\ At(t, "orders") /\ book = {} /\ UNCHANGED <<claim, flight>>
          /\ task'[t].kind = Kind(t) \/ task'[t].at = "done"
      BY <1>a DEF ReadStep, PathStep, At
    <3>2. fence = t /\ flight[t] # "out"
      BY <1>a, <1>b, <3>1 DEF InsideIsFenced, Outside, At, OutIsGone, Gone
    <3>3. CASE Kind(t) = "thaw"
      <4>1. NoneOut
        BY <1>a, <3>1, <3>2, <3>3 DEF OperatorIsAlone, Outside, At
      <4> QED BY <1>a, <3>1, <4>1 DEF NoneOut
    <3>4. CASE Kind(t) # "thaw"
      <4>1. NoneOut \/ (claim # None /\ Locked(claim))
        <5>1. \A u \in Tasks : flight[u] = "out" => claim # None /\ Locked(claim)
          <6> SUFFICES ASSUME NEW u \in Tasks, flight[u] = "out"
                       PROVE  claim # None /\ Locked(claim)
            OBVIOUS
          <6>1. Covers(u)
            BY <1>b DEF WritersCovered
          <6> QED BY <6>1 DEF Covers, Locked
        <5> QED BY <1>a, <5>1 DEF NoneOut, OnTheWay, OperatorIsAlone
      <4> QED BY <1>a, <3>1, <3>4, <4>1 DEF NoneOut, LockedFor, Kind
    <3> QED BY <3>3, <3>4
  <2>4. task'[t].at \in {"load", "release", "drop", "thaw"} /\ Flat(t)' =>
          LockedFor(t)' \/ (NoneOut' /\ book' \subseteq {None} /\ holders' = {})
    <3> SUFFICES ASSUME task'[t].at \in {"load", "release", "drop", "thaw"}, Flat(t)'
                 PROVE  LockedFor(t)' \/ (NoneOut' /\ book' \subseteq {None} /\ holders' = {})
      OBVIOUS
    <3>1. UNCHANGED <<claim, flight>> /\ task[t].at \in {"positions", "load"}
      BY <1>a DEF ReadStep, At
    <3>2. (LockedFor(t) => LockedFor(t)') /\ (NoneOut => NoneOut')
      BY <1>a, <3>1 DEF LockedFor, NoneOut, PathStep, At, Kind
    <3>3. CASE At(t, "positions")
      <4>1. task[t].book = {} /\ holders = {}
        BY <1>a, <3>3 DEF ReadStep, Flat, At
      <4> QED BY <1>a, <3>2, <3>3, <4>1 DEF ReadsHold
    <3>4. CASE At(t, "load")
      <4>1. Flat(t)
        BY <1>a, <3>4 DEF ReadStep, At
      <4> QED BY <1>a, <3>2, <3>4, <4>1 DEF ReadsHold, At
    <3> QED BY <3>1, <3>3, <3>4 DEF At
  <2>5. At(t, "release")' => Flat(t)'
    BY <1>a DEF ReadStep, At, Flat
  <2> QED BY <2>2, <2>3, <2>4, <2>5 DEF ReadsHold
<1>5. ClaimCoversExposure'
  <2> SUFFICES ASSUME Exposed', claim' = None
               PROVE  FALSE
    BY DEF ClaimCoversExposure
  <2>1. NoneOut'
    BY <1>d, <1>6 DEF NoneOut, OnTheWay, OperatorIsAlone, WritersCovered, Covers
  <2>2. holders # {} \/ book \ {None} # {}
    BY <1>a, <2>1 DEF Exposed, NoneOut
  <2>3. claim # None /\ claim \in Claim
    BY <1>a, <1>b, <2>2 DEF ClaimCoversExposure, Exposed
  <2>4. CASE task[t].at \in {"release", "drop"} /\ ~Locked(claim) /\ (At(t, "drop") => Flat(t))
    <3>1. Flat(t)
      BY <1>a, <2>4 DEF ReadsHold, At
    <3>2. LockedFor(t) \/ (NoneOut /\ book \subseteq {None} /\ holders = {})
      BY <1>a, <2>4, <3>1 DEF ReadsHold
    <3> QED BY <2>2, <2>4, <3>2 DEF LockedFor
  <2>5. CASE At(t, "thaw") /\ Flat(t)
    <3>1. Kind(t) = "thaw"
      BY <1>b, <2>5 DEF Fit, At, Kind
    <3>2. NoneOut /\ book \subseteq {None} /\ holders = {}
      BY <1>a, <2>5, <3>1 DEF ReadsHold, LockedFor, At
    <3> QED BY <2>2, <3>2
  <2>6. /\ [claim EXCEPT !.pending = t] \in Claim
        /\ [claim EXCEPT !.pending = None] \in Claim
        /\ [claim EXCEPT !.frozen = FALSE, !.pending = None] \in Claim
    BY <2>3 DEF Claim
  <2>7. task[t].at \in {"freezeSet", "lateSet"} => [task[t].claim EXCEPT !.frozen = TRUE] \in Claim
    <3>1. task[t].at \in {"freezeSet", "lateSet"} => task[t].claim \in Claim
      BY <1>b DEF Fit, TaskRecord
    <3> QED BY <3>1 DEF Claim
  <2> QED BY <1>a, <2>3, <2>4, <2>5, <2>6, <2>7 DEF ClaimStep
<1> QED BY <1>2, <1>4, <1>5, <1>6

LEMMA WorldExposure ==
  ASSUME IInv,
         \/ \E t \in Tasks : Apply(t) \/ ThreadEnds(t)
         \/ \E o \in Clients \union {None} : Fill(o)
         \/ Crash \/ Lapse \/ UNCHANGED vars
  PROVE  InsideIsFenced' /\ OperatorIsAlone' /\ ReadsHold' /\ ClaimCoversExposure'
<1> USE OwnershipAssumption
<1>a. /\ Protocol /\ InsideIsFenced /\ OperatorIsAlone /\ ReadsHold /\ ClaimCoversExposure
      /\ WritersCovered /\ TypeOK
  BY DEF IInv, Protocol, Shapes
(* An order fills, a write arrives, its thread ends: nothing new is exposed. *)
<1>b. ASSUME UNCHANGED <<task, claim, fence, misled>>,
             NoneOut => NoneOut' /\ (book \subseteq {None} => book' \subseteq {None})
                                /\ (book \subseteq {None} /\ holders = {} => holders' = {}),
             \A u \in Tasks : flight'[u] = "overruled" => flight[u] = "overruled",
             Exposed' => Exposed
      PROVE  InsideIsFenced' /\ OperatorIsAlone' /\ ReadsHold' /\ ClaimCoversExposure'
  <2>1. \A u \in Tasks : (LockedFor(u)' <=> LockedFor(u)) /\ (Flat(u)' <=> Flat(u))
    BY <1>b DEF LockedFor, Kind, Flat
  <2>2. ReadsHold'
    BY <1>a, <1>b, <2>1 DEF ReadsHold, At
  <2>3. OperatorIsAlone'
    BY <1>a, <1>b DEF OperatorIsAlone, Kind
  <2> QED BY <1>a, <1>b, <2>2, <2>3 DEF InsideIsFenced, ClaimCoversExposure
<1>1. ASSUME NEW t \in Tasks, Apply(t)
      PROVE  InsideIsFenced' /\ OperatorIsAlone' /\ ReadsHold' /\ ClaimCoversExposure'
  <2>1. /\ UNCHANGED <<task, claim, fence, misled>> /\ flight[t] \in OnTheWay
        /\ flight' = [flight EXCEPT ![t] = "applied"] /\ flight \in [Tasks -> Flights]
    BY <1>1, <1>a DEF Apply, redis, counters, TypeOK
  <2>2. ~NoneOut /\ Exposed
    BY <2>1 DEF NoneOut, Exposed
  <2>3. \A u \in Tasks : flight'[u] = "overruled" => flight[u] = "overruled"
    BY <2>1
  <2> QED BY <1>b, <2>1, <2>2, <2>3
<1>2. ASSUME NEW t \in Tasks, ThreadEnds(t)
      PROVE  InsideIsFenced' /\ OperatorIsAlone' /\ ReadsHold' /\ ClaimCoversExposure'
  <2>1. /\ UNCHANGED <<task, claim, fence, misled, book, holders>>
        /\ flight' = [flight EXCEPT ![t] = "over"] /\ flight \in [Tasks -> Flights]
    BY <1>2, <1>a DEF ThreadEnds, Over, redis, counters, broker, TypeOK
  <2>2. \A u \in Tasks : flight'[u] \in OnTheWay => flight'[u] = flight[u]
    BY <2>1 DEF OnTheWay
  <2>3. (NoneOut => NoneOut') /\ (Exposed' => Exposed)
    BY <2>1, <2>2 DEF NoneOut, Exposed
  <2> QED BY <1>b, <2>1, <2>2, <2>3 DEF OnTheWay
<1>3. ASSUME NEW o \in Clients \union {None}, Fill(o)
      PROVE  InsideIsFenced' /\ OperatorIsAlone' /\ ReadsHold' /\ ClaimCoversExposure'
  <2>1. /\ UNCHANGED <<task, claim, fence, misled, flight>>
        /\ o \in book /\ book' = book \ {o}
        /\ IF o = None THEN holders' = {} ELSE holders' \in {holders \union {o}, holders \ {o}}
    BY <1>3 DEF Fill, redis, counters
  <2>2. NoneOut => NoneOut'
    BY <2>1 DEF NoneOut
  <2>3. Exposed' => Exposed
    BY <2>1 DEF Exposed
  <2> QED BY <1>b, <2>1, <2>2, <2>3
<1>4. CASE Crash
  <2>1. /\ UNCHANGED <<claim, fence, book, holders, flight>>
        /\ task' = [t \in Tasks |-> IF At(t, "idle") THEN task[t] ELSE Ended(t)]
        /\ misled' = misled
    BY <1>4, <1>a DEF Crash, Fault, redis, broker, TypeOK
  <2>2. \A t \in Tasks : task'[t].at \in {"idle", "done"}
    BY <1>a, <2>1, EndedFits DEF Protocol, At
  <2>3. InsideIsFenced' /\ OperatorIsAlone' /\ ReadsHold'
    BY <1>a, <2>1, <2>2 DEF InsideIsFenced, OperatorIsAlone, ReadsHold, Outside, At
  <2> QED BY <1>a, <2>1, <2>3 DEF ClaimCoversExposure, Exposed
<1>5. CASE Lapse
  <2>1. /\ UNCHANGED <<claim, book, holders, task, flight>> /\ fence # None
        /\ misled' \/ (At(fence, "done") /\ misled' = misled)
    BY <1>5 DEF Lapse, broker, counters, Fault
  <2>2. CASE misled'
    BY <2>2 DEF InsideIsFenced, OperatorIsAlone, ReadsHold, ClaimCoversExposure
  <2>3. CASE At(fence, "done") /\ ~misled' /\ ~misled
    <3>1. \A u \in Tasks : task[u].at \in Outside
      BY <1>a, <2>3 DEF InsideIsFenced, Outside, At
    <3>2. InsideIsFenced' /\ OperatorIsAlone' /\ ReadsHold'
      BY <1>a, <2>1, <2>3, <3>1 DEF InsideIsFenced, OperatorIsAlone, ReadsHold, Outside, At
    <3> QED BY <1>a, <2>1, <2>3, <3>2 DEF ClaimCoversExposure, Exposed
  <2> QED BY <2>1, <2>2, <2>3
<1>6. CASE UNCHANGED vars
  <2>1. UNCHANGED <<task, claim, fence, misled, book, holders, flight>>
    BY <1>6 DEF vars
  <2>2. (NoneOut => NoneOut') /\ (Exposed' => Exposed)
    BY <2>1 DEF NoneOut, Exposed
  <2> QED BY <1>b, <2>1, <2>2
<1> QED BY <1>1, <1>2, <1>3, <1>4, <1>5, <1>6

-----------------------------------------------------------------------------
(* The theorems *)

LEMMA InitIInv == Init => IInv
<1> SUFFICES ASSUME Init PROVE IInv
  OBVIOUS
<1> USE OwnershipAssumption
<1>1. /\ claim = None /\ fence = None /\ book = {} /\ holders = {} /\ faults = 0
      /\ task = [t \in Tasks |-> Idle] /\ flight = [t \in Tasks |-> "none"] /\ misled = FALSE
      /\ Idle.at = "idle"
  BY DEF Init, Idle
<1>2. Idle \in Fit /\ Idle \in TaskRecord
  BY IdleFits
<1>3. Shapes
  <2>1. task \in [Tasks -> Fit] /\ task \in [Tasks -> TaskRecord]
    BY <1>1, <1>2
  <2>2. TypeOK
    <3>1. /\ claim \in Claim \union {None} /\ fence \in Tasks \union {None}
          /\ book \subseteq Clients \union {None} /\ holders \subseteq Clients
          /\ misled \in BOOLEAN
      BY <1>1
    <3>2. faults \in 0..MaxFaults
      BY <1>1
    <3>3. flight \in [Tasks -> Flights]
      BY <1>1 DEF Flights
    <3> QED BY <2>1, <3>1, <3>2, <3>3 DEF TypeOK, TaskRecord
  <2>3. OutIsGone
    BY <1>1 DEF OutIsGone
  <2> QED BY <2>1, <2>2, <2>3 DEF Shapes
<1>4. FencedDispatch /\ HolderIsAlone /\ WritersCovered /\ SingleWriter
  BY <1>1 DEF FencedDispatch, HolderIsAlone, WritersCovered, SingleWriter, At
<1>5. InsideIsFenced /\ OperatorIsAlone /\ ReadsHold /\ ClaimCoversExposure
  BY <1>1, OwnershipAssumption
     DEF InsideIsFenced, OperatorIsAlone, ReadsHold, ClaimCoversExposure, Exposed, OnTheWay, Outside, At
<1> QED BY <1>3, <1>4, <1>5 DEF IInv, Protocol

LEMMA NextIInv == IInv /\ [Next]_vars => IInv'
<1> SUFFICES ASSUME IInv, [Next]_vars PROVE IInv'
  OBVIOUS
<1>a. Protocol /\ Shapes
  BY DEF IInv, Protocol
<1>1. ASSUME NEW t \in Tasks, TaskStep(t)
      PROVE  IInv'
  <2>1. Summary(t)
    BY <1>a, <1>1, StepsSummary
  <2>2. Protocol'
    BY <1>a, <2>1, SummaryProtocol
  <2>3. InsideIsFenced' /\ OperatorIsAlone' /\ ReadsHold' /\ ClaimCoversExposure'
    BY <2>1, SummaryExposure
  <2> QED BY <2>2, <2>3 DEF IInv
<1>2. ASSUME \/ \E t \in Tasks : Apply(t) \/ ThreadEnds(t)
             \/ \E o \in Clients \union {None} : Fill(o)
             \/ Crash \/ Lapse \/ UNCHANGED vars
      PROVE  IInv'
  <2>1. Protocol'
    BY <1>a, <1>2, WorldProtocol
  <2>2. InsideIsFenced' /\ OperatorIsAlone' /\ ReadsHold' /\ ClaimCoversExposure'
    BY <1>2, WorldExposure
  <2> QED BY <2>1, <2>2 DEF IInv
<1> QED BY <1>1, <1>2 DEF Next

(* The inductive invariant, from which the others follow. *)
THEOREM Invariance == Spec => []IInv
<1>1. Init => IInv
  BY InitIInv
<1>2. IInv /\ [Next]_vars => IInv'
  BY NextIInv
<1> QED BY <1>1, <1>2, PTL DEF Spec

(* Claim, fence, tasks and writes keep their types: a claim always has an   *)
(* owner, and a marker that a task may clear.                               *)
THEOREM TypeCorrect == Spec => []TypeOK
<1>1. IInv => TypeOK
  BY DEF IInv, Protocol, Shapes
<1> QED BY <1>1, Invariance, PTL

(* Of any number of requests, of any clients, at most one has its broker    *)
(* write on its way, whatever times out, lapses, lags or dies, and however  *)
(* many threads outlive their request; but for the writes whose lock an     *)
(* operator's thaw lifted while they were on their way.                     *)
THEOREM OneWriter == Spec => []SingleWriter
<1>1. IInv => SingleWriter
  BY DEF IInv, Protocol
<1> QED BY <1>1, Invariance, PTL

(* The claim of the symbol is marked or frozen as long as a write may still *)
(* reach the broker, until an operator's thaw lifts that lock.              *)
THEOREM WritesAreVisible == Spec => []MarkerCoversWrite
<1>1. IInv => MarkerCoversWrite
  BY OwnershipAssumption
     DEF IInv, Protocol, MarkerCoversWrite, WritersCovered, Covers, Locked
<1> QED BY <1>1, Invariance, PTL

(* An order, a fill or a write on its way stands under a claim, as long as  *)
(* no lease lapsed under a task, no answer of the broker lagged and no thaw *)
(* began beside a write on its way.                                         *)
THEOREM ExposureIsClaimed == Spec => []ClaimCoversExposure
<1>1. IInv => ClaimCoversExposure
  BY DEF IInv
<1> QED BY <1>1, Invariance, PTL

(* No request, release, crash or late freeze lifts a freeze; only the thaw  *)
(* command does.                                                            *)
THEOREM FreezesStand == Spec => OnlyThawLiftsFreeze
<1>1. ASSUME IInv, [Next]_vars
      PROVE  [Frozen /\ ~Frozen' => \E t \in Tasks : At(t, "thaw") /\ ~At(t, "thaw")']_vars
  <2> SUFFICES ASSUME Next, Frozen, ~Frozen'
               PROVE  \E t \in Tasks : At(t, "thaw") /\ ~At(t, "thaw")'
    BY <1>1 DEF vars
  <2>a. Shapes /\ claim \in Claim /\ claim.frozen
    BY <1>1 DEF IInv, Protocol, Shapes, TypeOK, Frozen
  <2>1. ASSUME NEW t \in Tasks, TaskStep(t)
        PROVE  At(t, "thaw") /\ ~At(t, "thaw")'
    <3>1. ClaimStep(t) /\ ReadStep(t) /\ claim' \in Claim \union {None}
      BY <2>a, <2>1, StepsSummary, SummaryShapes DEF Summary, Shapes, TypeOK
    <3>2. CASE At(t, "thaw")
      BY <3>1, <3>2 DEF ReadStep, At
    <3>3. CASE ~At(t, "thaw")
      <4>1. /\ [claim EXCEPT !.pending = t].frozen /\ [claim EXCEPT !.pending = t] \in Claim
            /\ [claim EXCEPT !.pending = None].frozen /\ [claim EXCEPT !.pending = None] \in Claim
        BY <2>a DEF Claim
      <4>2. task[t].at \in {"freezeSet", "lateSet"} =>
              /\ [task[t].claim EXCEPT !.frozen = TRUE].frozen
              /\ [task[t].claim EXCEPT !.frozen = TRUE] \in Claim
        <5>1. task[t].at \in {"freezeSet", "lateSet"} => task[t].claim \in Claim
          BY <2>a DEF Shapes, Fit, TaskRecord
        <5> QED BY <5>1 DEF Claim
      <4>3. claim # None /\ Locked(claim)
        BY <2>a, OwnershipAssumption DEF Locked
      <4> QED BY <2>a, <3>1, <3>3, <4>1, <4>2, <4>3, OwnershipAssumption DEF ClaimStep, Frozen
    <3> QED BY <3>2, <3>3
  <2>2. ASSUME \/ \E t \in Tasks : Apply(t) \/ ThreadEnds(t)
               \/ \E o \in Clients \union {None} : Fill(o)
               \/ Crash \/ Lapse
        PROVE  UNCHANGED claim
    BY <2>2 DEF Apply, ThreadEnds, Fill, Crash, Lapse, redis
  <2> QED BY <2>1, <2>2 DEF Next, Frozen
<1> QED BY <1>1, Invariance, PTL DEF Spec, OnlyThawLiftsFreeze

=============================================================================
