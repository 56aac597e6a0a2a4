---------------------------- MODULE UwPollerProofs ----------------------------
(***************************************************************************)
(* Safety of module UwPoller for any number of processes, feeds, ids and   *)
(* faults.                                                                 *)
(*                                                                         *)
(* What is taken for a duplicate was published: that is inductive together *)
(* with what a batch holds when it is about to be noted in Redis.  That a  *)
(* completed day covers needs the account of a sweep under way: each id of *)
(* the day is still to be asked for, in the batch under way, missed, or    *)
(* published, by whichever run.                                            *)
(***************************************************************************)
EXTENDS UwPoller, TLAPS

(* A batch holds ids of its lane. *)
LaneIds ==
  \A p \in Procs : /\ batch[p]["live"].ids \subseteq LiveIds
                   /\ batch[p]["eod"].ids \subseteq EodIds

(* What is about to be noted in Redis was published. *)
StoredWasPublished ==
  \A p \in Procs, l \in Lanes : batch[p][l].at = "store" => batch[p][l].ids \subseteq published

(* No id of the day gets lost in a sweep. *)
SweepAccounts ==
  \A p \in Procs : task[p] = "sweeping" =>
    \A id \in EodIds : \/ id \in todo[p] \/ id \in batch[p]["eod"].ids
                       \/ id \in missed[p] \/ id \in published

IInv ==
  /\ TypeOK /\ LaneIds
  /\ NeverSuppressed /\ StoredWasPublished
  /\ SweepAccounts /\ CompletedCovers

-----------------------------------------------------------------------------
LEMMA InitIInv == Init => IInv
<1> SUFFICES ASSUME Init PROVE IInv
  OBVIOUS
<1> USE PollerAssumption DEF Init, NoBatch, Lanes, Stages, Ids
<1>1. TypeOK
  BY DEF TypeOK
<1>2. LaneIds /\ NeverSuppressed /\ StoredWasPublished
  BY DEF LaneIds, NeverSuppressed, StoredWasPublished
<1>3. SweepAccounts /\ CompletedCovers
  BY DEF SweepAccounts, CompletedCovers
<1> QED BY <1>1, <1>2, <1>3 DEF IInv

(* The run state, the EOD task and the processes, none of which publishes. *)
LEMMA RunsIInv ==
  ASSUME IInv, NEW p \in Procs,
         \/ Claim(p) \/ GoesStale \/ Spawn(p) \/ AskClaim(p) \/ Claimed(p)
         \/ FetchFails(p) \/ Complete(p) \/ RunFails(p)
  PROVE  IInv'
<1> USE PollerAssumption DEF IInv, TypeOK, LaneIds, NeverSuppressed, StoredWasPublished,
      SweepAccounts, CompletedCovers, day, runs, dedup, Lanes, Ids, Stages
<1>1. CASE Claim(p)
  <2>1. PICK w \in {"won", "lost"} : thread' = [thread EXCEPT ![p] = w]
    BY <1>1 DEF Claim
  <2>2. /\ thread[p] = "asked" /\ file' \in {file, "running"}
        /\ file' = "completed" <=> file = "completed"
        /\ UNCHANGED <<absent, running, guard, task, todo, missed, batch, seen, keys,
                       published, faults>>
    BY <1>1 DEF Claim, Deferred
  <2> QED BY <2>1, <2>2
<1>2. CASE GoesStale
  BY <1>2 DEF GoesStale
<1>3. CASE Spawn(p)
  BY <1>3 DEF Spawn, Deferred
<1>4. CASE AskClaim(p)
  BY <1>4 DEF AskClaim
<1>5. CASE Claimed(p)
  <2>1. /\ task[p] = "claiming" /\ thread' = [thread EXCEPT ![p] = "none"]
        /\ UNCHANGED <<file, absent, running, guard, batch, seen, keys, published, faults>>
    BY <1>5 DEF Claimed
  <2>2. CASE thread[p] = "won"
    <3>1. /\ task' = [task EXCEPT ![p] = "sweeping"]
          /\ todo' = [todo EXCEPT ![p] = EodIds]
          /\ missed' = [missed EXCEPT ![p] = {}]
      BY <1>5, <2>2 DEF Claimed
    <3> QED BY <2>1, <3>1
  <2>3. CASE thread[p] # "won"
    <3>1. /\ task' = [task EXCEPT ![p] = "none"]
          /\ UNCHANGED <<todo, missed>>
      BY <1>5, <2>3 DEF Claimed
    <3> QED BY <2>1, <3>1
  <2> QED BY <2>2, <2>3
<1>6. CASE FetchFails(p)
  BY <1>6 DEF FetchFails
<1>7. CASE Complete(p)
  BY <1>7 DEF Complete, NoBatch
<1>8. CASE RunFails(p)
  BY <1>8 DEF RunFails, Release, Fault, NoBatch
<1> QED BY <1>1, <1>2, <1>3, <1>4, <1>5, <1>6, <1>7, <1>8

(* A batch is offered, looked up, published and noted. *)
LEMMA PublishIInv ==
  ASSUME IInv, NEW p \in Procs, NEW l \in Lanes,
         Offer(p, l) \/ Lookup(p, l) \/ Publish(p, l) \/ Store(p, l) \/ Evict(p)
  PROVE  IInv'
<1> USE PollerAssumption DEF IInv, TypeOK, LaneIds, NeverSuppressed, StoredWasPublished,
      SweepAccounts, CompletedCovers, day, runs, dedup, Lanes, Ids, Stages
<1>1. CASE Offer(p, l)
  BY <1>1 DEF Offer, Offered, Polls, At, NoBatch
<1>2. CASE Lookup(p, l)
  BY <1>2 DEF Lookup, At, NoBatch
<1>3. CASE Publish(p, l)
  BY <1>3 DEF Publish, At, NoBatch
<1>4. CASE Store(p, l)
  BY <1>4 DEF Store, NoBatch
<1>5. CASE Evict(p)
  BY <1>5 DEF Evict
<1> QED BY <1>1, <1>2, <1>3, <1>4, <1>5

(* A process starts, stops, exits or dies. *)
LEMMA ProcessIInv ==
  ASSUME IInv, NEW p \in Procs, Start(p) \/ Stop(p) \/ Exit(p) \/ Crash(p)
  PROVE  IInv'
<1> USE PollerAssumption DEF IInv, TypeOK, LaneIds, NeverSuppressed, StoredWasPublished,
      SweepAccounts, CompletedCovers, day, runs, dedup, Lanes, Ids, Stages
<1>1. CASE Start(p)
  BY <1>1 DEF Start
<1>2. CASE Stop(p)
  BY <1>2 DEF Stop, Ends, Release, Fault, Idle, NoBatch
<1>3. CASE Exit(p)
  BY <1>3 DEF Exit
<1>4. CASE Crash(p)
  BY <1>4 DEF Crash, Ends, Fault, Idle, NoBatch
<1> QED BY <1>1, <1>2, <1>3, <1>4

(* The inductive invariant holds in every reachable state. *)
THEOREM Invariance == Spec => []IInv
<1>1. IInv /\ [Next]_vars => IInv'
  <2> SUFFICES ASSUME IInv, [Next]_vars PROVE IInv'
    OBVIOUS
  <2>1. CASE UNCHANGED vars
    BY <2>1 DEF vars, day, runs, dedup, IInv, TypeOK, LaneIds, NeverSuppressed,
        StoredWasPublished, SweepAccounts, CompletedCovers
  <2>2. CASE GoesStale
    <3>1. CASE Procs = {}
      BY <2>2, <3>1 DEF GoesStale, day, runs, dedup, IInv, TypeOK, LaneIds, NeverSuppressed,
        StoredWasPublished, SweepAccounts, CompletedCovers
    <3>2. CASE Procs # {}
      BY <2>2, <3>2, RunsIInv
    <3> QED BY <3>1, <3>2
  <2>3. ASSUME NEW p \in Procs, Runs(p) \/ Sweeps(p) \/ Evict(p)
        PROVE  IInv'
    BY <2>3, RunsIInv, PublishIInv, ProcessIInv DEF Runs, Sweeps, Lanes
  <2>4. ASSUME NEW p \in Procs,
               \/ Offer(p, "live") \/ Lookup(p, "live") \/ Publish(p, "live") \/ Store(p, "live")
        PROVE  IInv'
    BY <2>4, PublishIInv DEF Lanes
  <2>5. ASSUME NEW p \in Procs, RunFails(p) \/ Stop(p) \/ Crash(p)
        PROVE  IInv'
    BY <2>5, RunsIInv, ProcessIInv
  <2> QED BY <2>1, <2>2, <2>3, <2>4, <2>5 DEF Next
<1> QED BY InitIInv, <1>1, PTL DEF Spec

-----------------------------------------------------------------------------
(* The types; the guard of the day is set while a process has an EOD task. *)
THEOREM TypeCorrect == Spec => []TypeOK
<1>1. IInv => TypeOK
  BY DEF IInv
<1> QED BY Invariance, <1>1, PTL

(* An id that counts as a duplicate, in a process or in Redis, reached the *)
(* sink (_publish_envelopes).                                              *)
THEOREM NothingSuppressed == Spec => []NeverSuppressed
<1>1. IInv => NeverSuppressed
  BY DEF IInv
<1> QED BY Invariance, <1>1, PTL

(* A day marked completed lacks only what the run that marked it missed    *)
(* (mark_completed).                                                       *)
THEOREM CompletionCovers == Spec => []CompletedCovers
<1>1. IInv => CompletedCovers
  BY DEF IInv
<1> QED BY Invariance, <1>1, PTL

(* A completed day stays completed (release, claim).                       *)
THEOREM CompletionStays == Spec => CompletedStays
<1>1. [Next]_vars => [file = "completed" => file' = "completed"]_vars
  <2> SUFFICES ASSUME Next, file = "completed" PROVE file' = "completed"
    BY DEF vars
  <2>1. ASSUME NEW p \in Procs, Runs(p) \/ Sweeps(p) \/ Evict(p)
        PROVE  file' = "completed"
    BY <2>1 DEF Runs, Sweeps, Evict, Start, Exit, Spawn, AskClaim, Claim, Claimed, Complete,
        Lookup, Publish, Store, Offer, FetchFails, Deferred, day
  <2>2. ASSUME NEW p \in Procs,
               \/ Offer(p, "live") \/ Lookup(p, "live") \/ Publish(p, "live") \/ Store(p, "live")
               \/ RunFails(p) \/ Stop(p) \/ Crash(p)
        PROVE  file' = "completed"
    BY <2>2 DEF Offer, Lookup, Publish, Store, RunFails, Stop, Crash, Ends, Release, day
  <2>3. CASE GoesStale
    BY <2>3 DEF GoesStale
  <2> QED BY <2>1, <2>2, <2>3 DEF Next
<1> QED BY <1>1, PTL DEF Spec, CompletedStays

=============================================================================
