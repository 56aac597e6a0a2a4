------------------------- MODULE SinkDispatchProofs -------------------------
(***************************************************************************)
(* Theorems about SinkDispatch, for any workers, events, batches, sizes and *)
(* thresholds: the sink's tasks use the circuit breaker as its module says, *)
(* so that what is proved of the breaker holds of it in the gateway; an     *)
(* event the registry took charge of is never dropped; and the sink holds   *)
(* one copy at most of an event that was given to it once.                  *)
(*                                                                         *)
(* For the second, a step may move an event from place to place but not out *)
(* of all of them (NothingForgotten), and the queue, which nobody looks at  *)
(* after a graceful shutdown, holds only sentinels by then (SentinelsLast). *)
(* For the last, the copies in all places are added up (Single): a step     *)
(* moves one copy and makes none, except where it accepts the event.        *)
(***************************************************************************)
EXTENDS SinkDispatch, FiniteSetTheorems, TLAPS

BP == INSTANCE CircuitBreakerProofs WITH MaxFaults <- MaxFailures, faults <- failures

-----------------------------------------------------------------------------
(* The breaker inside the dispatch *)

LEMMA BreakerInit == Init => B!Init
  BY DEF Init

(* Workers enter and leave the breaker as callers of it. *)
LEMMA WorkerBreakerStep ==
  ASSUME NEW w \in Workers, WorkerStep(w) PROVE [B!Next]_B!vars
<1> w \in Callers
  BY DEF Callers
<1>1. CASE Take(w)
  BY <1>1 DEF Take, Publish, B!Next, B!vars, breaker
<1>2. CASE XaddSucceeds(w)
  BY <1>2 DEF XaddSucceeds, B!Next
<1>3. CASE GiveUp(w)
  BY <1>3 DEF GiveUp, XaddGivesUp, B!Next
<1>4. CASE CancelInFlight(w)
  BY <1>4 DEF CancelInFlight, B!Next
<1>5. CASE StopWorker(w) \/ SendEvent(w) \/ RetryXadd(w) \/ CancelIdle(w)
  BY <1>5 DEF StopWorker, SendEvent, RetryXadd, CancelIdle, breaker, B!vars
<1> QED BY <1>1, <1>2, <1>3, <1>4, <1>5 DEF WorkerStep

(* So does the poller, with one call for each batch. *)
LEMMA PollerBreakerStep == PollerStep => [B!Next]_B!vars
<1> SUFFICES ASSUME PollerStep PROVE [B!Next]_B!vars
  OBVIOUS
<1> Poller \in Callers
  BY DEF Callers
<1>1. ASSUME NEW b \in Batches, BatchStart(b) PROVE [B!Next]_B!vars
  BY <1>1 DEF BatchStart, breaker, B!Next, B!vars
<1>2. CASE SendBatch
  BY <1>2 DEF SendBatch, breaker, B!vars
<1>3. ASSUME NEW ok \in SUBSET ElementsOf(poller.batch), BatchReplies(ok) PROVE [B!Next]_B!vars
  BY <1>3 DEF BatchReplies, B!Next
<1>4. CASE BatchFails
  BY <1>4 DEF BatchFails, breaker, B!Next, B!vars
<1>5. CASE CancelPoller
  BY <1>5 DEF CancelPoller, B!Next
<1> QED BY <1>1, <1>2, <1>3, <1>4, <1>5 DEF PollerStep

(* Nothing else touches it. *)
LEMMA SinkBreakerStep == SinkStep \/ ShutdownStep => UNCHANGED B!vars
<1> SUFFICES ASSUME SinkStep \/ ShutdownStep PROVE UNCHANGED breaker
  BY DEF breaker, B!vars
<1>1. CASE SinkStep
  BY <1>1 DEF SinkStep, BeginDrain, DrainEvent, FinishDrain, FinishLastDrain, EndDrain
<1>2. CASE ShutdownStep
  BY <1>2 DEF ShutdownStep, Disable, Flush, PutSentinel, CancelWorkers, CloseSink,
              LastDrainTimesOut, FinishClose
<1> QED BY <1>1, <1>2

LEMMA BreakerStep == [Next]_vars => [B!Next]_B!vars
<1> SUFFICES ASSUME [Next]_vars PROVE [B!Next]_B!vars
  OBVIOUS
<1>1. ASSUME NEW e \in Singles, ProducerStep(e) PROVE UNCHANGED B!vars
  BY <1>1 DEF ProducerStep, Produce, Unblock, BlockTimesOut, CancelProducer, breaker, B!vars
<1>2. ASSUME NEW w \in Workers, WorkerStep(w) PROVE [B!Next]_B!vars
  BY <1>2, WorkerBreakerStep
<1>3. CASE PollerStep
  BY <1>3, PollerBreakerStep
<1>4. CASE SinkStep \/ ShutdownStep
  BY <1>4, SinkBreakerStep
<1>5. CASE RedisDown \/ RedisUp
  BY <1>5 DEF RedisDown, RedisUp, breaker, B!vars
<1>6. CASE RecoveryWindowElapses
  BY <1>6 DEF RecoveryWindowElapses, B!Next
<1>7. CASE UNCHANGED vars
  BY <1>7 DEF vars, breaker, B!vars
<1> QED BY <1>1, <1>2, <1>3, <1>4, <1>5, <1>6, <1>7 DEF Next

(* Workers, batches, cancellations and shutdown use the breaker of the sink  *)
(* in no other way than circuit_breaker.py is modelled to be used.           *)
THEOREM BreakerAsSpecified == Spec => B!Spec
<1> QED BY BreakerInit, BreakerStep, PTL DEF Spec, B!Spec

(* The breaker of the model and the one of CircuitBreakerProofs are one. *)
LEMMA SameBreaker == B!Spec => BP!Spec
<1>1. B!Init => BP!Init
  BY DEF B!Init, BP!Init
<1>2. [B!Next]_B!vars => [BP!Next]_BP!vars
  BY DEF B!Next, B!vars, B!Call, B!Succeed, B!Fail, B!Cancel, B!Reset, B!WindowElapses, B!Return,
         B!Fault, BP!Next, BP!vars, BP!Call, BP!Succeed, BP!Fail, BP!Cancel, BP!Reset,
         BP!WindowElapses, BP!Return, BP!Fault
<1> QED BY <1>1, <1>2, PTL DEF B!Spec, BP!Spec

(* A tripped sink can be probed again: whatever the workers, the poller and  *)
(* the shutdown do, the half-open slot is held by a call in flight.          *)
THEOREM SinkNeverWedged == Spec => []B!SlotIsHeld
<1>1. BP!ThresholdsAssumption
  BY DispatchAssumption DEF DispatchAssumption, BP!ThresholdsAssumption
<1>2. BP!Spec => []BP!SlotIsHeld
  BY <1>1, BP!NeverWedged
<1>3. BP!SlotIsHeld => B!SlotIsHeld
  BY DEF B!SlotIsHeld, BP!SlotIsHeld, B!Probes, BP!Probes
<1> QED BY <1>2, <1>3, SameBreaker, BreakerAsSpecified, PTL

-----------------------------------------------------------------------------
(* What becomes of an event *)

Items == Events \union {Sentinel}

Carried == {worker[w].event : w \in Workers}

Draining == DrainHolds("background") \union DrainHolds("final")

(* Where an event may be that no producer is blocked with. *)
Elsewhere == Settled \union Carried \union Draining \union ElementsOf(queue)

OnlySentinels == \A i \in DOMAIN queue : queue[i] = Sentinel

(* Workers that rest, and only they, hold no event; drains that are over    *)
(* hold nothing; close()'s own drain is under way in one stage of the       *)
(* shutdown only.                                                           *)
Idle ==
  /\ \A w \in Workers : worker[w].at \in {"get", "stopped"} <=> worker[w].event = Sentinel
  /\ \A d \in DOMAIN drains : ~drains[d].active => drains[d] = NoDrain
  /\ drains["final"].active => phase = "draining"

(* Sentinels come after every event and stop workers one by one.  A worker  *)
(* that was not cancelled stops only when nothing but sentinels is left.    *)
SentinelsLast ==
  /\ phase # "running" => waiting = {}
  /\ phase \in {"running", "flushing"} => Sentinel \notin ElementsOf(queue)
  /\ \A i, j \in DOMAIN queue : i < j /\ queue[i] = Sentinel => queue[j] = Sentinel
  /\ (\E w \in Workers : worker[w].at = "stopped") =>
       /\ phase \notin {"running", "flushing"}
       /\ cancelled \/ OnlySentinels
  /\ phase \notin {"running", "flushing", "stopping"} =>
       \A w \in Workers : worker[w].at = "stopped"

(* An event that was accepted twice has another copy when the producer of   *)
(* one is cancelled.                                                        *)
Kept == \A e \in accepted : e \in Elsewhere \/ e \in waiting \ again

(* The inductive invariant. *)
IInv == DispatchTypes /\ Idle /\ SentinelsLast /\ Kept

-----------------------------------------------------------------------------
(* Sequences and the buffer *)

LEMMA Elements ==
  ASSUME NEW T, NEW s \in Seq(T)
  PROVE  /\ ElementsOf(s) \subseteq T
         /\ \A e \in T : /\ Append(s, e) \in Seq(T) /\ Len(Append(s, e)) = Len(s) + 1
                         /\ ElementsOf(Append(s, e)) = ElementsOf(s) \union {e}
         /\ \A e \in T : <<e>> \in Seq(T) /\ ElementsOf(<<e>>) = {e}
         /\ s # <<>> => /\ Head(s) \in T /\ Tail(s) \in Seq(T) /\ Len(Tail(s)) = Len(s) - 1
                        /\ ElementsOf(s) = {Head(s)} \union ElementsOf(Tail(s))
  <1>1. ElementsOf(s) \subseteq T
    BY DEF ElementsOf
  <1>2. ASSUME NEW e \in T
        PROVE  /\ Append(s, e) \in Seq(T) /\ Len(Append(s, e)) = Len(s) + 1
               /\ ElementsOf(Append(s, e)) = ElementsOf(s) \union {e}
               /\ <<e>> \in Seq(T) /\ ElementsOf(<<e>>) = {e}
    BY DEF ElementsOf
  <1>3. ASSUME s # <<>>
        PROVE  /\ Head(s) \in T /\ Tail(s) \in Seq(T) /\ Len(Tail(s)) = Len(s) - 1
               /\ ElementsOf(s) = {Head(s)} \union ElementsOf(Tail(s))
    <2>1. Head(s) \in T /\ Tail(s) \in Seq(T) /\ Len(Tail(s)) = Len(s) - 1 /\ Head(s) = s[1]
      BY <1>3
    <2>2. \A i \in 1 .. Len(s) - 1 : Tail(s)[i] = s[i + 1]
      BY <1>3
    <2>3. ASSUME NEW i \in DOMAIN s, i # 1 PROVE i - 1 \in DOMAIN Tail(s) /\ s[i] = Tail(s)[i - 1]
      BY <2>1, <2>2, <2>3
    <2>4. ASSUME NEW i \in DOMAIN Tail(s) PROVE i + 1 \in DOMAIN s /\ s[i + 1] = Tail(s)[i]
      BY <2>1, <2>2
    <2>5. 1 \in DOMAIN s
      BY <1>3
    <2>6. ASSUME NEW x \in ElementsOf(s) PROVE x = Head(s) \/ x \in ElementsOf(Tail(s))
      <3>1. PICK i \in DOMAIN s : x = s[i]
        BY DEF ElementsOf
      <3>2. CASE i = 1
        BY <2>1, <3>1, <3>2
      <3>3. CASE i # 1
        <4>1. i - 1 \in DOMAIN Tail(s) /\ x = Tail(s)[i - 1]
          BY <2>3, <3>1, <3>3
        <4> QED  BY <4>1 DEF ElementsOf
      <3> QED  BY <3>2, <3>3
    <2>7. Head(s) \in ElementsOf(s)
      BY <2>1, <2>5 DEF ElementsOf
    <2>8. ElementsOf(Tail(s)) \subseteq ElementsOf(s)
      BY <2>4 DEF ElementsOf
    <2> QED  BY <2>1, <2>6, <2>7, <2>8
  <1> QED  BY <1>1, <1>2, <1>3

LEMMA Nothing == ElementsOf(<<>>) = {}
  BY DEF ElementsOf

(* Buffering events evicts others, and forgets none. *)
LEMMA SpillKeeps ==
  ASSUME buffer \in Seq(Events), Len(buffer) <= BufferSize, evicted \subseteq Events,
         NEW es \in Seq(Events), Spill(es)
  PROVE  /\ buffer' \in Seq(Events) /\ Len(buffer') <= BufferSize /\ evicted' \subseteq Events
         /\ ElementsOf(buffer') \union evicted'
              = ElementsOf(buffer) \union ElementsOf(es) \union evicted
<1> DEFINE all == buffer \o es
           over == IF Len(all) > BufferSize THEN Len(all) - BufferSize ELSE 0
<1>1. /\ all \in Seq(Events) /\ Len(all) = Len(buffer) + Len(es)
      /\ \A i \in 1 .. Len(buffer) : all[i] = buffer[i]
      /\ \A i \in 1 .. Len(es) : all[Len(buffer) + i] = es[i]
  OBVIOUS
<1>2. BufferSize \in Nat /\ over \in 0 .. Len(all) /\ Len(all) - over <= BufferSize
  BY <1>1, DispatchAssumption DEF DispatchAssumption
<1>3. ElementsOf(all) = ElementsOf(buffer) \union ElementsOf(es)
  <2>1. \A i \in DOMAIN all : \/ i \in DOMAIN buffer /\ all[i] = buffer[i]
                              \/ i - Len(buffer) \in DOMAIN es /\ all[i] = es[i - Len(buffer)]
    BY <1>1
  <2>2. \A i \in DOMAIN buffer : i \in DOMAIN all /\ all[i] = buffer[i]
    BY <1>1
  <2>3. \A i \in DOMAIN es : Len(buffer) + i \in DOMAIN all /\ all[Len(buffer) + i] = es[i]
    BY <1>1
  <2> HIDE DEF all
  <2>4. ElementsOf(all) \subseteq ElementsOf(buffer) \union ElementsOf(es)
    BY <2>1 DEF ElementsOf
  <2>5. ElementsOf(buffer) \subseteq ElementsOf(all)
    BY <2>2 DEF ElementsOf
  <2>6. ElementsOf(es) \subseteq ElementsOf(all)
    BY <2>3 DEF ElementsOf
  <2> QED  BY <2>4, <2>5, <2>6
<1>4. buffer' = SubSeq(all, over + 1, Len(all))
      /\ evicted' = evicted \union ElementsOf(SubSeq(all, 1, over))
  BY DEF Spill
<1> HIDE DEF all, over
<1>5. /\ SubSeq(all, over + 1, Len(all)) \in Seq(Events)
      /\ Len(SubSeq(all, over + 1, Len(all))) = Len(all) - over
      /\ \A i \in 1 .. Len(all) - over : SubSeq(all, over + 1, Len(all))[i] = all[over + i]
  BY <1>1, <1>2
<1>6. /\ SubSeq(all, 1, over) \in Seq(Events) /\ Len(SubSeq(all, 1, over)) = over
      /\ \A i \in 1 .. over : SubSeq(all, 1, over)[i] = all[i]
  BY <1>1, <1>2
<1>7. ElementsOf(SubSeq(all, 1, over)) \union ElementsOf(SubSeq(all, over + 1, Len(all)))
        = ElementsOf(all)
  <2>1. \A i \in 1 .. Len(all) : \/ i \in 1 .. over
                                 \/ i - over \in 1 .. Len(all) - over /\ over + (i - over) = i
    BY <1>1, <1>2
  <2>2. /\ DOMAIN all = 1 .. Len(all) /\ DOMAIN SubSeq(all, 1, over) = 1 .. over
        /\ DOMAIN SubSeq(all, over + 1, Len(all)) = 1 .. Len(all) - over
    BY <1>1, <1>5, <1>6
  <2>3. \A i \in 1 .. over : i \in 1 .. Len(all)
    BY <1>1, <1>2
  <2>4. \A i \in 1 .. Len(all) - over : over + i \in 1 .. Len(all)
    BY <1>1, <1>2
  <2>5. \A x \in ElementsOf(all) :
          x \in ElementsOf(SubSeq(all, 1, over)) \/ x \in ElementsOf(SubSeq(all, over + 1, Len(all)))
    <3> SUFFICES ASSUME NEW i \in 1 .. Len(all)
                 PROVE  \/ all[i] \in ElementsOf(SubSeq(all, 1, over))
                        \/ all[i] \in ElementsOf(SubSeq(all, over + 1, Len(all)))
      BY <2>2 DEF ElementsOf
    <3>1. CASE i \in 1 .. over
      <4>1. SubSeq(all, 1, over)[i] = all[i]
        BY <1>6, <3>1
      <4> QED  BY <2>2, <3>1, <4>1 DEF ElementsOf
    <3>2. CASE i - over \in 1 .. Len(all) - over /\ over + (i - over) = i
      <4>1. SubSeq(all, over + 1, Len(all))[i - over] = all[i]
        BY <1>5, <3>2
      <4> QED  BY <2>2, <3>2, <4>1 DEF ElementsOf
    <3> QED  BY <2>1, <3>1, <3>2
  <2>6. ElementsOf(SubSeq(all, 1, over)) \subseteq ElementsOf(all)
    BY <1>6, <2>2, <2>3 DEF ElementsOf
  <2>7. ElementsOf(SubSeq(all, over + 1, Len(all))) \subseteq ElementsOf(all)
    BY <1>5, <2>2, <2>4 DEF ElementsOf
  <2> QED  BY <2>5, <2>6, <2>7
<1>8. ElementsOf(SubSeq(all, 1, over)) \subseteq Events
  BY <1>6, Elements
<1> QED  BY <1>2, <1>3, <1>4, <1>5, <1>7, <1>8

-----------------------------------------------------------------------------
(* Counting an event in a sequence *)

LEMMA OccurrencesType ==
  ASSUME NEW T, NEW s \in Seq(T), NEW e
  PROVE  /\ IsFiniteSet({i \in DOMAIN s : s[i] = e})
         /\ Occurrences(e, s) \in Nat
<1>1. IsFiniteSet(DOMAIN s)
  BY FS_Interval
<1>2. IsFiniteSet({i \in DOMAIN s : s[i] = e})
  BY <1>1, FS_Subset
<1> QED  BY <1>2, FS_CardinalityType DEF Occurrences

LEMMA OccurrencesConcat ==
  ASSUME NEW T, NEW s \in Seq(T), NEW t \in Seq(T), NEW e
  PROVE  Occurrences(e, s \o t) = Occurrences(e, s) + Occurrences(e, t)
<1> DEFINE In(u) == {i \in DOMAIN u : u[i] = e}
           n == Len(s)
           Moved == {i \in n + 1 .. n + Len(t) : t[i - n] = e}
           f == [i \in In(t) |-> n + i]
<1>1. In(s \o t) = In(s) \union Moved /\ In(s) \intersect Moved = {}
  <2>1. /\ Len(s \o t) = n + Len(t) /\ DOMAIN (s \o t) = 1 .. n + Len(t)
        /\ \A i \in 1 .. n : (s \o t)[i] = s[i]
        /\ \A i \in n + 1 .. n + Len(t) : (s \o t)[i] = t[i - n]
    OBVIOUS
  <2>2. n \in Nat /\ Len(t) \in Nat /\ DOMAIN s = 1 .. n
    OBVIOUS
  <2>3. 1 .. n + Len(t) = (1 .. n) \union (n + 1 .. n + Len(t))
    BY <2>2
  <2> QED  BY <2>1, <2>2, <2>3
<1>2. f \in Bijection(In(t), Moved)
  <2>1. n \in Nat /\ Len(t) \in Nat /\ DOMAIN t = 1 .. Len(t)
    OBVIOUS
  <2>2. f \in [In(t) -> Moved]
    BY <2>1
  <2>3. \A i, j \in In(t) : f[i] = f[j] => i = j
    BY <2>1
  <2>4. ASSUME NEW k \in Moved PROVE \E i \in In(t) : f[i] = k
    <3>1. k - n \in In(t) /\ f[k - n] = k
      BY <2>1
    <3> QED  BY <3>1
  <2> HIDE DEF f, Moved, In
  <2> QED  BY <2>2, <2>3, <2>4 DEF Bijection, Injection, Surjection, IsInjective
<1>3. /\ IsFiniteSet(In(s)) /\ Cardinality(In(s)) = Occurrences(e, s)
      /\ IsFiniteSet(In(t)) /\ Cardinality(In(t)) = Occurrences(e, t)
      /\ Cardinality(In(s \o t)) = Occurrences(e, s \o t)
      /\ Occurrences(e, s) \in Nat /\ Occurrences(e, t) \in Nat
  BY OccurrencesType DEF Occurrences
<1> HIDE DEF f, Moved, In
<1>4. IsFiniteSet(Moved) /\ Cardinality(Moved) = Occurrences(e, t)
  BY <1>2, <1>3, FS_Bijection DEF ExistsBijection
<1>5. Cardinality(In(s) \union Moved) = Cardinality(In(s)) + Cardinality(Moved) - Cardinality(In(s) \intersect Moved)
  BY <1>3, <1>4, FS_Union
<1>6. Cardinality(In(s) \intersect Moved) = 0
  BY <1>1, FS_EmptySet
<1>7. Cardinality(In(s \o t)) = Occurrences(e, s) + Occurrences(e, t)
  BY <1>1, <1>3, <1>4, <1>5, <1>6
<1> QED  BY <1>3, <1>7

LEMMA OccurrencesOne ==
  ASSUME NEW x, NEW e PROVE Occurrences(e, <<x>>) = IF x = e THEN 1 ELSE 0
<1>1. DOMAIN <<x>> = {1} /\ <<x>>[1] = x
  OBVIOUS
<1>2. CASE x = e
  <2>1. {i \in DOMAIN <<x>> : <<x>>[i] = e} = {1}
    BY <1>1, <1>2
  <2> QED  BY <1>2, <2>1, FS_Singleton DEF Occurrences
<1>3. CASE x # e
  <2>1. {i \in DOMAIN <<x>> : <<x>>[i] = e} = {}
    BY <1>1, <1>3
  <2> QED  BY <1>3, <2>1, FS_EmptySet DEF Occurrences
<1> QED  BY <1>2, <1>3

LEMMA OccurrencesAppend ==
  ASSUME NEW T, NEW s \in Seq(T), NEW x \in T, NEW e
  PROVE  Occurrences(e, Append(s, x)) = Occurrences(e, s) + (IF x = e THEN 1 ELSE 0)
<1>1. Append(s, x) = s \o <<x>> /\ <<x>> \in Seq(T)
  OBVIOUS
<1>2. Occurrences(e, s \o <<x>>) = Occurrences(e, s) + Occurrences(e, <<x>>)
  BY <1>1, OccurrencesConcat
<1> HIDE DEF Occurrences
<1>3. Occurrences(e, Append(s, x)) = Occurrences(e, s \o <<x>>)
  BY <1>1
<1> QED  BY <1>2, <1>3, OccurrencesOne

LEMMA OccurrencesTail ==
  ASSUME NEW T, NEW s \in Seq(T), s # <<>>, NEW e
  PROVE  Occurrences(e, s) = Occurrences(e, Tail(s)) + (IF Head(s) = e THEN 1 ELSE 0)
<1>1. /\ Head(s) \in T /\ Tail(s) \in Seq(T) /\ <<Head(s)>> \in Seq(T)
      /\ s = <<Head(s)>> \o Tail(s)
  OBVIOUS
<1>2. Occurrences(e, s) = Occurrences(e, <<Head(s)>>) + Occurrences(e, Tail(s))
  BY <1>1, OccurrencesConcat
<1>3. Occurrences(e, Tail(s)) \in Nat
  BY <1>1, OccurrencesType
<1> QED  BY <1>2, <1>3, OccurrencesOne

LEMMA OccurrencesNone ==
  ASSUME NEW T, NEW s \in Seq(T), NEW e, e \notin ElementsOf(s)
  PROVE  Occurrences(e, s) = 0
<1>1. {i \in DOMAIN s : s[i] = e} = {}
  BY DEF ElementsOf
<1> QED  BY <1>1, FS_EmptySet DEF Occurrences

LEMMA SameSequence ==
  ASSUME NEW T, NEW s \in Seq(T), NEW t \in Seq(T), Len(s) = Len(t),
         \A i \in 1 .. Len(s) : s[i] = t[i]
  PROVE  s = t
OBVIOUS

LEMMA Halves ==
  ASSUME NEW T, NEW s \in Seq(T), NEW k \in 0 .. Len(s)
  PROVE  /\ SubSeq(s, 1, k) \in Seq(T) /\ SubSeq(s, k + 1, Len(s)) \in Seq(T)
         /\ SubSeq(s, 1, k) \o SubSeq(s, k + 1, Len(s)) = s
<1> DEFINE a == SubSeq(s, 1, k)
           b == SubSeq(s, k + 1, Len(s))
<1> SUFFICES a \in Seq(T) /\ b \in Seq(T) /\ a \o b = s
  OBVIOUS
<1>1. Len(s) \in Nat /\ k \in Nat
  OBVIOUS
<1>2. a \in Seq(T) /\ Len(a) = k /\ \A i \in 1 .. k : a[i] = s[i]
  BY <1>1
<1>3. b \in Seq(T) /\ Len(b) = Len(s) - k /\ \A i \in 1 .. Len(s) - k : b[i] = s[k + i]
  BY <1>1
<1> HIDE DEF a, b
<1>4. /\ a \o b \in Seq(T) /\ Len(a \o b) = Len(s)
      /\ \A i \in 1 .. Len(s) : (a \o b)[i] = IF i <= k THEN a[i] ELSE b[i - k]
  BY <1>1, <1>2, <1>3
<1>5. ASSUME NEW i \in 1 .. Len(s) PROVE (a \o b)[i] = s[i]
  <2>1. CASE i <= k
    BY <1>1, <1>2, <1>4, <2>1
  <2>2. CASE ~(i <= k)
    <3>1. i - k \in 1 .. Len(s) - k /\ k + (i - k) = i
      BY <1>1, <2>2
    <3> QED  BY <1>3, <1>4, <2>2, <3>1
  <2> QED  BY <2>1, <2>2
<1>6. a \o b = s
  BY <1>4, <1>5, SameSequence
<1> QED  BY <1>2, <1>3, <1>6

-----------------------------------------------------------------------------
(* Types *)

(* The places of tasks and drains. *)
WorkerType == [at : {"get", "connect", "xadd", "stopped"}, event : Items, attempts : 0 .. Attempts]
BatchType == [at : {"idle", "connect", "send"}, batch : Seq(Events), retried : BOOLEAN]
DrainType == [active : BOOLEAN, left : Seq(Events), failed : Seq(Events)]
Drains == {"background", "final"}

LEMMA Records ==
  /\ Resting \in WorkerType /\ Stopped \in WorkerType
  /\ NoBatch \in BatchType /\ NoDrain \in DrainType
  /\ Stopped.at = "stopped" /\ Stopped.event = Sentinel
  /\ Resting.at = "get" /\ Resting.event = Sentinel
BY DispatchAssumption DEF DispatchAssumption, Items, WorkerType, BatchType, DrainType, Resting,
   Stopped, NoBatch, NoDrain

(* Registry and shutdown. *)
RegistryTypes ==
  /\ phase \in {"running", "flushing", "stopping", "draining", "settling", "closed"}
  /\ stops \in 0 .. Cardinality(Workers) /\ cancelled \in BOOLEAN
  /\ keys \subseteq Events /\ waiting \subseteq Events
  /\ queue \in Seq(Items) /\ Len(queue) <= QueueSize
  /\ worker \in [Workers -> WorkerType] /\ poller \in BatchType
  /\ calls \in 0 .. MaxCalls

(* The sink, and what is recorded of events. *)
SinkTypes ==
  /\ up \in BOOLEAN /\ written \subseteq Events
  /\ connected \in BOOLEAN /\ everReset \in BOOLEAN
  /\ onClient \subseteq Callers \union Drains
  /\ buffer \in Seq(Events) /\ Len(buffer) <= BufferSize /\ evicted \subseteq Events
  /\ drainTasks \in Nat
  /\ drains \in [Drains -> DrainType]
  /\ accepted \subseteq Events /\ again \subseteq accepted
  /\ confirmed \subseteq Events /\ cut \subseteq Events
  /\ faults \in 0 .. MaxFaults

LEMMA TwoTypes == DispatchTypes <=> RegistryTypes /\ SinkTypes
<1>1. ASSUME DispatchTypes PROVE RegistryTypes /\ SinkTypes
  BY <1>1 DEF DispatchTypes, RegistryTypes, SinkTypes, WorkerType, BatchType, DrainType, Drains, Items
<1>2. ASSUME RegistryTypes, SinkTypes PROVE DispatchTypes
  BY <1>2 DEF DispatchTypes, RegistryTypes, SinkTypes, WorkerType, BatchType, DrainType, Drains, Items
<1> QED  BY <1>1, <1>2

LEMMA Groups ==
  /\ UNCHANGED shutdown => UNCHANGED <<phase, stops, cancelled>>
  /\ UNCHANGED registry => UNCHANGED <<keys, waiting, queue, worker, poller>>
  /\ UNCHANGED redis => UNCHANGED <<up, written>>
  /\ UNCHANGED client => UNCHANGED <<connected, everReset, onClient>>
  /\ UNCHANGED spilled => UNCHANGED <<buffer, evicted>>
  /\ UNCHANGED draining => UNCHANGED <<drainTasks, drains, cut>>
  /\ UNCHANGED promises => UNCHANGED <<accepted, again, confirmed>>
BY DEF shutdown, registry, redis, client, spilled, draining, promises

LEMMA RegistryStep == ASSUME RegistryTypes, [Next]_vars PROVE RegistryTypes'
<1> USE Groups, DispatchAssumption DEF RegistryTypes
<1>1. ASSUME NEW e \in Singles, ProducerStep(e) PROVE RegistryTypes'
  <2>0. e \in Events /\ e \in Items
    BY DEF DispatchAssumption, Items
  <2>1. CASE Produce(e)
    <3>1. /\ UNCHANGED <<phase, stops, cancelled, worker, poller>>
          /\ calls' \in 0 .. MaxCalls /\ keys' \subseteq Events
      BY <2>0, <2>1 DEF Produce, Call, DispatchAssumption
    <3>2. waiting' \subseteq Events
      BY <2>0, <2>1 DEF Produce
    <3>3. queue' \in Seq(Items) /\ Len(queue') <= QueueSize
      <4>1. CASE queue' = queue
        BY <4>1
      <4>2. CASE Len(queue) < QueueSize /\ queue' = Append(queue, e)
        BY <2>0, <4>2, Elements DEF DispatchAssumption
      <4> QED  BY <2>1, <4>1, <4>2 DEF Produce
    <3> QED  BY <3>1, <3>2, <3>3
  <2>2. CASE Unblock(e)
    BY <2>0, <2>2, Elements DEF Unblock
  <2>3. CASE BlockTimesOut(e)
    BY <2>0, <2>3 DEF BlockTimesOut
  <2>4. CASE CancelProducer(e)
    BY <2>0, <2>4 DEF CancelProducer
  <2> QED  BY <1>1, <2>1, <2>2, <2>3, <2>4 DEF ProducerStep
<1>2. ASSUME NEW w \in Workers, WorkerStep(w) PROVE RegistryTypes'
  <2>1. CASE Take(w)
    <3>1. Head(queue) \in Items /\ Tail(queue) \in Seq(Items) /\ Len(Tail(queue)) <= QueueSize
      BY <2>1, Elements DEF Take
    <3>2. [at |-> "connect", event |-> Head(queue), attempts |-> 0] \in WorkerType
      BY <3>1 DEF WorkerType, DispatchAssumption
    <3> QED  BY <2>1, <3>1, <3>2 DEF Take, Publish
  <2>2. CASE StopWorker(w)
    BY <2>2, Elements, Records DEF StopWorker
  <2>3. CASE SendEvent(w)
    BY <2>3 DEF SendEvent, Go, WorkerType
  <2>4. CASE XaddSucceeds(w)
    BY <2>4, Records DEF XaddSucceeds, Rest
  <2>5. CASE RetryXadd(w)
    BY <2>5 DEF RetryXadd, WorkerType, LastAttempt, DispatchAssumption
  <2>6. CASE GiveUp(w)
    BY <2>6, Records DEF GiveUp, XaddGivesUp, Rest
  <2>7. CASE CancelInFlight(w)
    BY <2>7, Records DEF CancelInFlight
  <2>8. CASE CancelIdle(w)
    BY <2>8, Records DEF CancelIdle
  <2> QED  BY <1>2, <2>1, <2>2, <2>3, <2>4, <2>5, <2>6, <2>7, <2>8 DEF WorkerStep
<1>3. CASE PollerStep
  <2>1. ASSUME NEW b \in Batches, BatchStart(b) PROVE RegistryTypes'
    <3>1. /\ UNCHANGED <<phase, stops, cancelled, keys, waiting, queue, worker>>
          /\ calls' \in 0 .. MaxCalls
      BY <2>1 DEF BatchStart, Call, DispatchAssumption
    <3>2. [at |-> "connect", batch |-> b, retried |-> FALSE] \in BatchType
      BY DEF BatchType, DispatchAssumption
    <3> QED  BY <2>1, <3>1, <3>2 DEF BatchStart
  <2>2. CASE SendBatch
    BY <2>2 DEF SendBatch, BatchType
  <2>3. ASSUME NEW ok \in SUBSET ElementsOf(poller.batch), BatchReplies(ok) PROVE RegistryTypes'
    BY <2>3, Records DEF BatchReplies
  <2>4. CASE BatchFails
    BY <2>4, Records DEF BatchFails, BatchType
  <2>5. CASE CancelPoller
    BY <2>5, Records DEF CancelPoller
  <2> QED  BY <1>3, <2>1, <2>2, <2>3, <2>4, <2>5 DEF PollerStep
<1>4. CASE SinkStep
  BY <1>4 DEF SinkStep, BeginDrain, FinishDrain, FinishLastDrain, EndDrain, DrainEvent
<1>5. CASE ShutdownStep
  <2>0. Cardinality(Workers) \in Nat
    BY FS_CardinalityType DEF DispatchAssumption
  <2>1. CASE PutSentinel
    <3>1. Sentinel \in Items
      BY DEF Items
    <3> QED  BY <2>0, <2>1, <3>1, Elements DEF PutSentinel
  <2>2. CASE Disable \/ Flush \/ CancelWorkers
    <3>1. UNCHANGED <<keys, waiting, queue, worker, poller, calls>>
      BY <2>2 DEF Disable, Flush, CancelWorkers
    <3>2. stops' \in 0 .. Cardinality(Workers)
      BY <2>0, <2>2 DEF Disable, Flush, CancelWorkers
    <3>3. /\ phase' \in {"running", "flushing", "stopping", "draining", "settling", "closed"}
          /\ cancelled' \in BOOLEAN
      BY <2>2 DEF Disable, Flush, CancelWorkers
    <3> QED  BY <3>1, <3>2, <3>3
  <2>3. CASE CloseSink \/ LastDrainTimesOut \/ FinishClose
    BY <2>0, <2>3 DEF CloseSink, LastDrainTimesOut, FinishClose
  <2> QED  BY <1>5, <2>1, <2>2, <2>3 DEF ShutdownStep
<1>6. CASE RedisDown \/ RedisUp \/ RecoveryWindowElapses
  BY <1>6 DEF RedisDown, RedisUp, RecoveryWindowElapses
<1>7. CASE UNCHANGED vars
  BY <1>7 DEF vars
<1> QED  BY <1>1, <1>2, <1>3, <1>4, <1>5, <1>6, <1>7 DEF Next

LEMMA MayWriteTypes ==
  ASSUME SinkTypes, NEW es \in SUBSET Events, MayWrite(es) PROVE written' \subseteq Events
BY DEF SinkTypes, MayWrite

LEMMA CommandTypes ==
  ASSUME SinkTypes, NEW t \in Callers \union Drains
  PROVE  /\ CommandFails(t) => faults' \in 0 .. MaxFaults
         /\ \A kind : Fault(kind) => faults' \in 0 .. MaxFaults
         /\ Connect(t) => /\ connected' \in BOOLEAN /\ everReset' \in BOOLEAN
                          /\ onClient' \subseteq Callers \union Drains /\ drainTasks' \in Nat
                          /\ UNCHANGED <<drains, cut>>
         /\ ResetFor(t) \/ Release(t) =>
              /\ connected' \in BOOLEAN /\ everReset' \in BOOLEAN
              /\ onClient' \subseteq Callers \union Drains
<1>1. ASSUME NEW kind, Fault(kind) PROVE faults' \in 0 .. MaxFaults
  BY <1>1, DispatchAssumption DEF SinkTypes, Fault, DispatchAssumption
<1>2. ASSUME CommandFails(t) PROVE faults' \in 0 .. MaxFaults
  BY <1>1, <1>2 DEF SinkTypes, CommandFails
<1>3. ASSUME Connect(t)
      PROVE  /\ connected' \in BOOLEAN /\ everReset' \in BOOLEAN
             /\ onClient' \subseteq Callers \union Drains /\ drainTasks' \in Nat
             /\ UNCHANGED <<drains, cut>>
  BY <1>3 DEF SinkTypes, Connect
<1>4. ASSUME ResetFor(t) \/ Release(t)
      PROVE  /\ connected' \in BOOLEAN /\ everReset' \in BOOLEAN
             /\ onClient' \subseteq Callers \union Drains
  BY <1>4 DEF SinkTypes, ResetFor, Release, client
<1> QED  BY <1>1, <1>2, <1>3, <1>4

LEMMA SpillTypes ==
  ASSUME SinkTypes, NEW es \in Seq(Events), Spill(es)
  PROVE  buffer' \in Seq(Events) /\ Len(buffer') <= BufferSize /\ evicted' \subseteq Events
BY SpillKeeps DEF SinkTypes

LEMMA AcceptTypes ==
  ASSUME SinkTypes, NEW es \in Seq(Events), Accept(es)
  PROVE  accepted' \subseteq Events /\ again' \subseteq accepted'
BY Elements DEF SinkTypes, Accept, Repeated

(* A worker that publishes has an event of its own. *)
LEMMA InFlight ==
  ASSUME RegistryTypes, Idle, NEW w \in Workers, worker[w].at \in {"connect", "xadd"}
  PROVE  /\ worker[w].event \in Events
         /\ <<worker[w].event>> \in Seq(Events) /\ ElementsOf(<<worker[w].event>>) = {worker[w].event}
<1>1. worker[w].event \in Events
  BY DEF RegistryTypes, Idle, WorkerType, Items
<1> QED  BY <1>1, Elements DEF ElementsOf

LEMMA WorkerSink ==
  ASSUME RegistryTypes, SinkTypes, Idle, NEW w \in Workers, WorkerStep(w) PROVE SinkTypes'
<1> USE Groups
<1>0. w \in Callers \union Drains
  BY DEF Callers
<1>1. CASE Take(w)
  <2>1. Head(queue) \in Events
    BY <1>1, Elements DEF Take, RegistryTypes, Items
  <2>2. <<Head(queue)>> \in Seq(Events)
    BY <2>1
  <2>3. /\ UNCHANGED <<up, written, connected, everReset, onClient, drainTasks, drains, cut>>
        /\ UNCHANGED <<accepted, again, confirmed, faults>>
    BY <1>1 DEF Take
  <2>4. UNCHANGED <<buffer, evicted>> \/ Spill(<<Head(queue)>>)
    BY <1>1 DEF Take
  <2> QED  BY <2>2, <2>3, <2>4, SpillTypes DEF SinkTypes
<1>2. CASE StopWorker(w) \/ CancelIdle(w)
  BY <1>2 DEF StopWorker, CancelIdle, SinkTypes
<1>3. CASE SendEvent(w)
  BY <1>0, <1>3, CommandTypes DEF SendEvent, SinkTypes
<1>4. CASE XaddSucceeds(w)
  <2>1. worker[w].event \in Events
    BY <1>4, InFlight DEF XaddSucceeds, At
  <2> QED  BY <1>0, <1>4, <2>1, CommandTypes DEF XaddSucceeds, SinkTypes
<1>5. CASE RetryXadd(w)
  <2>1. {worker[w].event} \in SUBSET Events
    BY <1>5, InFlight DEF RetryXadd, At
  <2> QED  BY <1>0, <1>5, <2>1, CommandTypes, MayWriteTypes DEF RetryXadd, SinkTypes
<1>6. CASE GiveUp(w)
  <2>1. {worker[w].event} \in SUBSET Events /\ <<worker[w].event>> \in Seq(Events)
    BY <1>6, InFlight DEF GiveUp, XaddGivesUp, At
  <2>2. /\ CommandFails(w) /\ ResetFor(w) /\ MayWrite({worker[w].event}) /\ Spill(<<worker[w].event>>)
        /\ UNCHANGED <<up, drainTasks, drains, cut, accepted, again, confirmed>>
    BY <1>6 DEF GiveUp, XaddGivesUp
  <2> QED  BY <1>0, <2>1, <2>2, CommandTypes, MayWriteTypes, SpillTypes DEF SinkTypes
<1>7. CASE CancelInFlight(w)
  <2>1. {worker[w].event} \in SUBSET Events /\ <<worker[w].event>> \in Seq(Events)
    BY <1>7, InFlight DEF CancelInFlight
  <2>2. /\ MayWrite({worker[w].event}) \/ UNCHANGED written
        /\ Release(w) /\ Spill(<<worker[w].event>>)
        /\ UNCHANGED <<up, drainTasks, drains, cut, accepted, again, confirmed, faults>>
    BY <1>7 DEF CancelInFlight
  <2> QED  BY <1>0, <2>1, <2>2, CommandTypes, MayWriteTypes, SpillTypes DEF SinkTypes
<1> QED  BY <1>1, <1>2, <1>3, <1>4, <1>5, <1>6, <1>7 DEF WorkerStep, XaddSucceeds

LEMMA ProducerSink ==
  ASSUME SinkTypes, NEW e \in Singles, ProducerStep(e) PROVE SinkTypes'
<1> USE Groups
<1>0. e \in Events /\ <<e>> \in Seq(Events) /\ {e} \in SUBSET Events
  BY DispatchAssumption DEF DispatchAssumption
<1>1. CASE Produce(e)
  <2>1. /\ UNCHANGED <<up, written, connected, everReset, onClient, drainTasks, drains, cut>>
        /\ UNCHANGED <<confirmed, faults>> /\ Accept(<<e>>)
        /\ UNCHANGED <<buffer, evicted>> \/ Spill(<<e>>)
    BY <1>1 DEF Produce
  <2> QED  BY <1>0, <2>1, SpillTypes, AcceptTypes DEF SinkTypes
<1>2. CASE Unblock(e)
  BY <1>2 DEF Unblock, SinkTypes
<1>3. CASE BlockTimesOut(e)
  <2>1. drainTasks' \in Nat
    BY <1>3 DEF BlockTimesOut, ScheduleDrain, SinkTypes
  <2> QED  BY <1>0, <1>3, <2>1, SpillTypes DEF BlockTimesOut, SinkTypes
<1>4. CASE CancelProducer(e)
  <2>1. faults' \in 0 .. MaxFaults
    BY <1>4, DispatchAssumption DEF CancelProducer, Fault, SinkTypes, DispatchAssumption
  <2> QED  BY <1>4, <2>1 DEF CancelProducer, SinkTypes
<1> QED  BY <1>1, <1>2, <1>3, <1>4 DEF ProducerStep

LEMMA PollerSink ==
  ASSUME RegistryTypes, SinkTypes, PollerStep PROVE SinkTypes'
<1> USE Groups
<1>0. /\ Poller \in Callers \union Drains
      /\ poller.batch \in Seq(Events) /\ ElementsOf(poller.batch) \in SUBSET Events
  BY Elements DEF Callers, RegistryTypes, BatchType
<1>1. ASSUME NEW b \in Batches, BatchStart(b) PROVE SinkTypes'
  <2>0. b \in Seq(Events) /\ ElementsOf(b) \in SUBSET Events
    BY DispatchAssumption, Elements DEF DispatchAssumption
  <2>1. /\ UNCHANGED <<up, written, connected, everReset, onClient, drainTasks, drains, cut>>
        /\ UNCHANGED <<confirmed, faults>>
        /\ \/ UNCHANGED <<buffer, evicted, accepted, again>>
           \/ Spill(b) /\ Accept(b)
    BY <1>1 DEF BatchStart
  <2> QED  BY <2>0, <2>1, SpillTypes, AcceptTypes DEF SinkTypes
<1>2. CASE SendBatch
  BY <1>0, <1>2, CommandTypes DEF SendBatch, SinkTypes
<1>3. ASSUME NEW ok \in SUBSET ElementsOf(poller.batch), BatchReplies(ok) PROVE SinkTypes'
  <2>1. faults' \in 0 .. MaxFaults
    BY <1>0, <1>3, CommandTypes DEF BatchReplies, SinkTypes
  <2> QED  BY <1>0, <1>3, <2>1, CommandTypes DEF BatchReplies, SinkTypes
<1>4. CASE BatchFails
  <2>1. /\ UNCHANGED <<up, drainTasks, drains, cut, confirmed>>
        /\ \/ CommandFails(Poller) /\ MayWrite(ElementsOf(poller.batch)) /\ ResetFor(Poller)
           \/ Fault("item") /\ UNCHANGED written /\ Release(Poller)
        /\ \/ UNCHANGED <<buffer, evicted, accepted, again>>
           \/ Spill(poller.batch) /\ Accept(poller.batch)
    BY <1>4 DEF BatchFails
  <2>2. written' \subseteq Events
    BY <1>0, <2>1, MayWriteTypes DEF SinkTypes
  <2> QED  BY <1>0, <2>1, <2>2, CommandTypes, SpillTypes, AcceptTypes DEF SinkTypes
<1>5. CASE CancelPoller
  <2>1. written' \subseteq Events
    BY <1>0, <1>5, MayWriteTypes DEF CancelPoller, SinkTypes
  <2> QED  BY <1>0, <1>5, <2>1, CommandTypes DEF CancelPoller, SinkTypes
<1> QED  BY <1>1, <1>2, <1>3, <1>4, <1>5 DEF PollerStep

LEMMA DrainSink ==
  ASSUME SinkTypes, SinkStep PROVE SinkTypes'
<1> USE Groups
<1>0. \A d \in Drains : /\ d \in Callers \union Drains /\ drains[d] \in DrainType
                        /\ drains[d].left \in Seq(Events) /\ drains[d].failed \in Seq(Events)
  BY DEF SinkTypes, DrainType
<1>1. CASE BeginDrain
  <2>1. "background" \in Drains
    BY DEF Drains
  <2>2. <<>> \in Seq(Events) /\ Len(<<>>) <= BufferSize
    BY DispatchAssumption DEF DispatchAssumption
  <2>3. [active |-> TRUE, left |-> buffer, failed |-> <<>>] \in DrainType
    BY <2>2 DEF DrainType, SinkTypes
  <2>4. drainTasks' \in Nat
    BY <1>1 DEF BeginDrain, SinkTypes
  <2>5. /\ UNCHANGED <<up, written, connected, everReset, evicted, cut, accepted, again>>
        /\ UNCHANGED <<confirmed, faults>>
    BY <1>1 DEF BeginDrain
  <2>6. CASE UNCHANGED <<drains, buffer, onClient>>
    BY <2>4, <2>5, <2>6 DEF SinkTypes
  <2>7. CASE /\ drains' = [drains EXCEPT !["background"] =
                                 [active |-> TRUE, left |-> buffer, failed |-> <<>>]]
             /\ buffer' = <<>> /\ onClient' = onClient \union {"background"}
    BY <2>1, <2>2, <2>3, <2>4, <2>5, <2>7 DEF SinkTypes
  <2> QED  BY <1>1, <2>6, <2>7 DEF BeginDrain
<1>2. ASSUME NEW d \in Drains, EndDrain(d) PROVE SinkTypes'
  <2>1. drains' \in [Drains -> DrainType]
    BY <1>2, Records DEF EndDrain, SinkTypes
  <2> QED  BY <1>0, <1>2, <2>1, CommandTypes, SpillTypes DEF EndDrain, SinkTypes
<1>3. ASSUME NEW d \in Drains, DrainEvent(d) PROVE SinkTypes'
  <2> DEFINE e == Head(drains[d].left)
  <2>1. e \in Events /\ Tail(drains[d].left) \in Seq(Events) /\ Append(drains[d].failed, e) \in Seq(Events)
    BY <1>0, <1>3, Elements DEF DrainEvent
  <2>2. [drains[d] EXCEPT !.left = Tail(@)] \in DrainType
        /\ [drains[d] EXCEPT !.left = Tail(@), !.failed = Append(@, e)] \in DrainType
    BY <1>0, <2>1 DEF DrainType
  <2>3. /\ UNCHANGED <<up, connected, everReset, onClient, buffer, evicted, drainTasks, cut>>
        /\ UNCHANGED <<accepted, again, confirmed>>
    BY <1>3 DEF DrainEvent
  <2>4. CASE /\ written' = written \union {e} /\ UNCHANGED faults
             /\ drains' = [drains EXCEPT ![d].left = Tail(@)]
    <3>1. drains' = [drains EXCEPT ![d] = [drains[d] EXCEPT !.left = Tail(@)]]
      BY <2>4 DEF SinkTypes
    <3> QED  BY <2>1, <2>2, <2>3, <2>4, <3>1 DEF SinkTypes
  <2>5. CASE /\ CommandFails(d) /\ MayWrite({e})
             /\ drains' = [drains EXCEPT ![d].left = Tail(@), ![d].failed = Append(@, e)]
    <3>1. drains' = [drains EXCEPT ![d] = [drains[d] EXCEPT !.left = Tail(@), !.failed = Append(@, e)]]
      BY <2>5 DEF SinkTypes
    <3>2. written' \subseteq Events /\ faults' \in 0 .. MaxFaults
      BY <1>0, <2>1, <2>5, MayWriteTypes, CommandTypes
    <3> QED  BY <2>2, <2>3, <3>1, <3>2 DEF SinkTypes
  <2> QED  BY <1>3, <2>4, <2>5 DEF DrainEvent
<1>4. DOMAIN drains = Drains /\ "background" \in Drains /\ "final" \in Drains
  BY DEF SinkTypes, Drains
<1> QED  BY <1>1, <1>2, <1>3, <1>4 DEF SinkStep, FinishDrain, FinishLastDrain

LEMMA ShutdownSink ==
  ASSUME SinkTypes, ShutdownStep PROVE SinkTypes'
<1> USE Groups
<1>0. "background" \in Drains /\ "final" \in Drains
  BY DEF Drains
<1>1. CASE Disable
  <2>1. faults' \in 0 .. MaxFaults
    BY <1>1, DispatchAssumption DEF Disable, Fault, SinkTypes, DispatchAssumption
  <2> QED  BY <1>1, <2>1 DEF Disable, SinkTypes
<1>2. CASE Flush \/ PutSentinel \/ CancelWorkers
  BY <1>2 DEF Flush, PutSentinel, CancelWorkers, SinkTypes
<1>3. CASE CloseSink
  <2>1. <<>> \in Seq(Events) /\ Len(<<>>) <= BufferSize
    BY DispatchAssumption DEF DispatchAssumption
  <2>2. [active |-> TRUE, left |-> buffer, failed |-> <<>>] \in DrainType
    BY <2>1 DEF DrainType, SinkTypes
  <2>3. /\ UNCHANGED <<up, written, connected, everReset, evicted, cut, accepted, again>>
        /\ UNCHANGED <<confirmed, faults, drainTasks>>
    BY <1>3 DEF CloseSink
  <2>4. CASE UNCHANGED <<drains, buffer, onClient>>
    BY <2>3, <2>4 DEF SinkTypes
  <2>5. CASE /\ drains' = [drains EXCEPT !["final"] =
                                 [active |-> TRUE, left |-> buffer, failed |-> <<>>]]
             /\ buffer' = <<>> /\ onClient' = onClient \union {"final"}
    BY <1>0, <2>1, <2>2, <2>3, <2>5 DEF SinkTypes
  <2> QED  BY <1>3, <2>4, <2>5 DEF CloseSink
<1>4. ASSUME NEW d \in Drains, CutDrain(d)
      PROVE  drains' \in [Drains -> DrainType] /\ cut' \subseteq Events
  <2>1. DrainHolds(d) \subseteq Events
    BY Elements DEF DrainHolds, SinkTypes, DrainType
  <2> QED  BY <1>4, <2>1, Records DEF CutDrain, SinkTypes
<1>5. CASE LastDrainTimesOut
  BY <1>0, <1>4, <1>5, CommandTypes DEF LastDrainTimesOut, SinkTypes
<1>6. CASE FinishClose
  BY <1>0, <1>4, <1>6 DEF FinishClose, SinkTypes
<1> QED  BY <1>1, <1>2, <1>3, <1>5, <1>6 DEF ShutdownStep

LEMMA RedisSink ==
  ASSUME SinkTypes, RedisDown \/ RedisUp \/ RecoveryWindowElapses PROVE SinkTypes'
<1> USE Groups
<1>1. CASE RedisDown
  <2>1. faults' \in 0 .. MaxFaults
    BY <1>1, DispatchAssumption DEF RedisDown, Fault, SinkTypes, DispatchAssumption
  <2> QED  BY <1>1, <2>1 DEF RedisDown, SinkTypes
<1>2. CASE RedisUp \/ RecoveryWindowElapses
  BY <1>2 DEF RedisUp, RecoveryWindowElapses, SinkTypes
<1> QED  BY <1>1, <1>2

LEMMA TypesStep ==
  ASSUME DispatchTypes, Idle, [Next]_vars PROVE DispatchTypes'
<1>0. RegistryTypes' /\ SinkTypes' => DispatchTypes'
  BY TwoTypes, PTL
<1>1. RegistryTypes /\ SinkTypes /\ RegistryTypes'
  BY TwoTypes, RegistryStep
<1>2. CASE UNCHANGED vars
  <2>1. UNCHANGED <<redis, client, spilled, draining, promises, faults>>
    BY <1>2 DEF vars
  <2>2. SinkTypes'
    BY <1>1, <2>1, Groups DEF SinkTypes
  <2> QED  BY <1>0, <1>1, <2>2
<1>3. CASE Next
  <2>1. SinkTypes'
    BY <1>1, <1>3, WorkerSink, ProducerSink, PollerSink, DrainSink, ShutdownSink, RedisSink DEF Next
  <2> QED  BY <1>0, <1>1, <2>1
<1> QED  BY <1>2, <1>3

-----------------------------------------------------------------------------
(* Resting tasks, and sentinels *)

LEMMA IdleStep ==
  ASSUME DispatchTypes, Idle, [Next]_vars PROVE Idle'
<1> USE Groups
<1>0. RegistryTypes /\ SinkTypes /\ DOMAIN drains = Drains
  BY TwoTypes DEF SinkTypes
<1>1. ASSUME UNCHANGED worker, UNCHANGED drains,
             phase' = phase \/ phase \notin {"draining"} PROVE Idle'
  BY <1>1 DEF Idle
<1>2. ASSUME NEW w \in Workers, WorkerStep(w) PROVE Idle'
  <2>1. /\ drains' = drains /\ phase' = phase
    BY <1>2 DEF WorkerStep, Take, StopWorker, SendEvent, Connect, XaddSucceeds, RetryXadd, GiveUp,
                XaddGivesUp, CancelInFlight, CancelIdle
  <2>2. worker \in [Workers -> WorkerType]
    BY <1>0 DEF RegistryTypes
  <2>3. SUFFICES /\ worker'[w].at \in {"get", "stopped"} <=> worker'[w].event = Sentinel
                 /\ \A v \in Workers \ {w} : worker'[v] = worker[v]
    BY <2>1 DEF Idle
  <2>4. CASE Take(w)
    BY <2>2, <2>4 DEF Take, Publish, At, Idle
  <2>5. CASE StopWorker(w) \/ CancelIdle(w) \/ CancelInFlight(w)
    BY <2>2, <2>5, Records DEF StopWorker, CancelIdle, CancelInFlight
  <2>6. CASE SendEvent(w)
    BY <2>2, <2>6 DEF SendEvent, Go, At, Idle, WorkerType
  <2>7. CASE XaddSucceeds(w) \/ GiveUp(w)
    BY <2>2, <2>7, Records DEF XaddSucceeds, GiveUp, XaddGivesUp, Rest
  <2>8. CASE RetryXadd(w)
    BY <2>2, <2>8 DEF RetryXadd, At, Idle, WorkerType
  <2> QED  BY <1>2, <2>4, <2>5, <2>6, <2>7, <2>8 DEF WorkerStep
<1>3. ASSUME NEW e \in Singles, ProducerStep(e) PROVE Idle'
  BY <1>1, <1>3 DEF ProducerStep, Produce, Unblock, BlockTimesOut, CancelProducer
<1>4. CASE PollerStep
  BY <1>1, <1>4 DEF PollerStep, BatchStart, SendBatch, Connect, BatchReplies, BatchFails,
                    CancelPoller
<1>5. CASE SinkStep
  <2>1. UNCHANGED worker
    BY <1>5 DEF SinkStep, BeginDrain, FinishDrain, FinishLastDrain, EndDrain, DrainEvent
  <2>2. CASE BeginDrain
    BY <1>0, <2>1, <2>2 DEF BeginDrain, Idle, SinkTypes, Drains
  <2>3. CASE FinishDrain \/ FinishLastDrain
    BY <1>0, <2>1, <2>3, Records DEF FinishDrain, FinishLastDrain, EndDrain, Idle, SinkTypes, Drains, NoDrain
  <2>4. ASSUME NEW d \in Drains, DrainEvent(d) PROVE Idle'
    <3>1. phase' = phase /\ DOMAIN drains' = Drains
      BY <1>0, <2>4 DEF DrainEvent
    <3>2. /\ drains[d].active /\ drains'[d].active
          /\ \A x \in Drains \ {d} : drains'[x] = drains[x]
      BY <1>0, <2>4 DEF DrainEvent, SinkTypes, DrainType
    <3>3. "final" \in Drains
      BY DEF Drains
    <3> QED  BY <1>0, <2>1, <3>1, <3>2, <3>3 DEF Idle
  <2> QED  BY <1>0, <1>5, <2>2, <2>3, <2>4 DEF SinkStep
<1>6. CASE ShutdownStep
  <2>1. UNCHANGED worker
    BY <1>6 DEF ShutdownStep, Disable, Flush, PutSentinel, CancelWorkers, CloseSink,
                LastDrainTimesOut, FinishClose
  <2>2. CASE Disable \/ Flush \/ PutSentinel \/ CancelWorkers
    BY <1>1, <2>2 DEF Disable, Flush, PutSentinel, CancelWorkers
  <2>3. CASE CloseSink
    BY <1>0, <2>1, <2>3 DEF CloseSink, Idle, SinkTypes, Drains
  <2>4. CASE LastDrainTimesOut
    BY <1>0, <2>1, <2>4 DEF LastDrainTimesOut, CutDrain, Idle, SinkTypes, Drains, NoDrain
  <2>5. CASE FinishClose
    BY <1>0, <2>1, <2>5 DEF FinishClose, CutDrain, Idle, SinkTypes, Drains, NoDrain
  <2> QED  BY <1>6, <2>2, <2>3, <2>4, <2>5 DEF ShutdownStep
<1>7. CASE RedisDown \/ RedisUp \/ RecoveryWindowElapses \/ UNCHANGED vars
  BY <1>1, <1>7 DEF RedisDown, RedisUp, RecoveryWindowElapses, vars
<1> QED  BY <1>2, <1>3, <1>4, <1>5, <1>6, <1>7 DEF Next

(* The head of the queue leaves it. *)
LEMMA Popped ==
  ASSUME RegistryTypes, SentinelsLast, queue # <<>>, queue' = Tail(queue)
  PROVE  /\ \A i \in DOMAIN queue' : i + 1 \in DOMAIN queue /\ queue'[i] = queue[i + 1]
         /\ Head(queue) = Sentinel => OnlySentinels /\ OnlySentinels'
         /\ OnlySentinels => OnlySentinels'
         /\ \A i, j \in DOMAIN queue' : i < j /\ queue'[i] = Sentinel => queue'[j] = Sentinel
         /\ Sentinel \notin ElementsOf(queue) => Sentinel \notin ElementsOf(queue')
<1>1. queue \in Seq(Items) /\ Len(queue') = Len(queue) - 1 /\ queue' \in Seq(Items)
      /\ Head(queue) = queue[1]
  BY DEF RegistryTypes
<1>2. \A i \in DOMAIN queue' : i + 1 \in DOMAIN queue /\ queue'[i] = queue[i + 1] /\ i \in Int
  BY <1>1
<1>3. \A i \in DOMAIN queue : i = 1 \/ 1 < i
  BY <1>1
<1>4. 1 \in DOMAIN queue
  BY <1>1
<1>5. Head(queue) = Sentinel => OnlySentinels
  BY <1>1, <1>3, <1>4 DEF SentinelsLast, OnlySentinels
<1>6. OnlySentinels => OnlySentinels'
  BY <1>2 DEF OnlySentinels
<1>7. \A i, j \in DOMAIN queue' : i < j /\ queue'[i] = Sentinel => queue'[j] = Sentinel
  BY <1>2 DEF SentinelsLast
<1>8. Sentinel \notin ElementsOf(queue) => Sentinel \notin ElementsOf(queue')
  BY <1>2 DEF ElementsOf
<1> QED  BY <1>2, <1>5, <1>6, <1>7, <1>8

(* A step that leaves alone what SentinelsLast speaks of. *)
LEMMA SentinelsUntouched ==
  ASSUME SentinelsLast, UNCHANGED <<phase, queue, cancelled>>, waiting' \subseteq waiting,
         \A w \in Workers : worker'[w].at = "stopped" <=> worker[w].at = "stopped"
  PROVE  SentinelsLast'
BY DEF SentinelsLast, OnlySentinels

LEMMA SentinelsProducer ==
  ASSUME RegistryTypes, SentinelsLast, NEW e \in Singles, ProducerStep(e) PROVE SentinelsLast'
<1> USE Groups
<1>0. e \in Events /\ e # Sentinel
  BY DispatchAssumption DEF DispatchAssumption
<1>1. UNCHANGED <<phase, cancelled, worker>>
  BY DEF ProducerStep, Produce, Unblock, BlockTimesOut, CancelProducer
<1>2. CASE queue' = queue /\ waiting' \subseteq waiting
  BY <1>1, <1>2, SentinelsUntouched
<1>3. CASE phase = "running" /\ (queue' = queue \/ queue' = Append(queue, e))
  <2>1. Sentinel \notin ElementsOf(queue) /\ queue \in Seq(Items) /\ e \in Items
    BY <1>0, <1>3 DEF SentinelsLast, RegistryTypes, Items
  <2>4. ElementsOf(Append(queue, e)) = ElementsOf(queue) \union {e}
    BY <2>1, Elements
  <2>2. Sentinel \notin ElementsOf(queue')
    BY <1>0, <1>3, <2>1, <2>4
  <2>3. \A i \in DOMAIN queue' : queue'[i] # Sentinel
    BY <2>2 DEF ElementsOf
  <2> QED  BY <1>1, <1>3, <2>2, <2>3 DEF SentinelsLast
<1>4. CASE Produce(e)
  BY <1>3, <1>4 DEF Produce
<1>5. CASE Unblock(e)
  BY <1>3, <1>5 DEF Unblock, SentinelsLast
<1>6. CASE BlockTimesOut(e) \/ CancelProducer(e)
  BY <1>2, <1>6 DEF BlockTimesOut, CancelProducer
<1> QED  BY <1>4, <1>5, <1>6 DEF ProducerStep

LEMMA SentinelsWorker ==
  ASSUME RegistryTypes, SentinelsLast, NEW w \in Workers, WorkerStep(w) PROVE SentinelsLast'
<1> USE Groups
<1>1. worker \in [Workers -> WorkerType]
  BY DEF RegistryTypes
<1>2. UNCHANGED <<phase, cancelled, waiting>>
  BY DEF WorkerStep, Take, StopWorker, SendEvent, XaddSucceeds, RetryXadd, GiveUp, XaddGivesUp,
         CancelInFlight, CancelIdle
<1>3. CASE SendEvent(w) \/ XaddSucceeds(w) \/ RetryXadd(w) \/ GiveUp(w)
  <2>1. queue' = queue
    BY <1>3 DEF SendEvent, XaddSucceeds, RetryXadd, GiveUp, XaddGivesUp
  <2>2. \A v \in Workers : worker'[v].at = "stopped" <=> worker[v].at = "stopped"
    BY <1>1, <1>3, Records DEF SendEvent, XaddSucceeds, RetryXadd, GiveUp, XaddGivesUp, At, Go, Rest, WorkerType
  <2> QED  BY <1>2, <2>1, <2>2, SentinelsUntouched
<1>4. CASE Take(w)
  <2>1. queue # <<>> /\ queue' = Tail(queue)
    BY <1>4 DEF Take
  <2>2. \A v \in Workers : worker'[v].at = "stopped" <=> worker[v].at = "stopped"
    BY <1>1, <1>4 DEF Take, Publish, At
  <2> QED  BY <1>2, <2>1, <2>2, Popped DEF SentinelsLast
<1>5. CASE StopWorker(w)
  <2>1. queue # <<>> /\ queue' = Tail(queue) /\ Head(queue) = Sentinel
    BY <1>5 DEF StopWorker
  <2>2. OnlySentinels'
    BY <2>1, Popped
  <2>3. Sentinel \in ElementsOf(queue)
    BY <2>1, Elements DEF RegistryTypes
  <2>4. \A v \in Workers : worker[v].at = "stopped" => worker'[v].at = "stopped"
    BY <1>1, <1>5, Records DEF StopWorker
  <2> QED  BY <1>2, <2>1, <2>2, <2>3, <2>4, Popped DEF SentinelsLast
<1>6. CASE CancelInFlight(w) \/ CancelIdle(w)
  <2>1. queue' = queue /\ phase = "stopping" /\ cancelled
    BY <1>6 DEF CancelInFlight, CancelIdle
  <2>2. \A v \in Workers : worker[v].at = "stopped" => worker'[v].at = "stopped"
    BY <1>1, <1>6, Records DEF CancelInFlight, CancelIdle
  <2> QED  BY <1>2, <2>1, <2>2 DEF SentinelsLast
<1> QED  BY <1>3, <1>4, <1>5, <1>6 DEF WorkerStep

LEMMA SentinelsShutdown ==
  ASSUME RegistryTypes, SentinelsLast, ShutdownStep PROVE SentinelsLast'
<1> USE Groups
<1>1. UNCHANGED <<waiting, worker>>
  BY DEF ShutdownStep, Disable, Flush, PutSentinel, CancelWorkers, CloseSink, LastDrainTimesOut,
         FinishClose
<1>2. CASE Disable \/ Flush
  BY <1>1, <1>2 DEF Disable, Flush, SentinelsLast
<1>3. CASE PutSentinel
  <2>1. /\ UNCHANGED <<phase, cancelled>> /\ phase = "stopping"
        /\ queue' = Append(queue, Sentinel)
    BY <1>3 DEF PutSentinel
  <2>2. queue \in Seq(Items) /\ Sentinel \in Items
    BY DEF RegistryTypes, Items
  <2>3. /\ Len(queue') = Len(queue) + 1 /\ queue' \in Seq(Items)
        /\ \A i \in DOMAIN queue : i \in DOMAIN queue' /\ queue'[i] = queue[i]
        /\ queue'[Len(queue) + 1] = Sentinel
    BY <2>1, <2>2
  <2>4. \A i \in DOMAIN queue' : i \in DOMAIN queue \/ i = Len(queue) + 1
    BY <2>2, <2>3
  <2>5. \A i, j \in DOMAIN queue' : i < j /\ queue'[i] = Sentinel => queue'[j] = Sentinel
    <3>1. \A i, j \in DOMAIN queue' : i < j => i \in DOMAIN queue
      BY <2>2, <2>3
    <3> QED  BY <2>3, <2>4, <3>1 DEF SentinelsLast
  <2>6. OnlySentinels => OnlySentinels'
    BY <2>3, <2>4 DEF OnlySentinels
  <2> QED  BY <1>1, <2>1, <2>5, <2>6 DEF SentinelsLast
<1>4. CASE CancelWorkers
  BY <1>1, <1>4 DEF CancelWorkers, SentinelsLast, OnlySentinels
<1>5. CASE CloseSink
  BY <1>1, <1>5 DEF CloseSink, SentinelsLast, OnlySentinels
<1>6. CASE LastDrainTimesOut \/ FinishClose
  BY <1>1, <1>6 DEF LastDrainTimesOut, FinishClose, SentinelsLast, OnlySentinels
<1> QED  BY <1>2, <1>3, <1>4, <1>5, <1>6 DEF ShutdownStep

LEMMA SentinelsStep ==
  ASSUME DispatchTypes, Idle, SentinelsLast, [Next]_vars PROVE SentinelsLast'
<1> USE Groups
<1>0. RegistryTypes
  BY TwoTypes
<1>1. ASSUME UNCHANGED <<phase, queue, cancelled, waiting, worker>> PROVE SentinelsLast'
  BY <1>1, SentinelsUntouched
<1>2. CASE PollerStep
  BY <1>1, <1>2 DEF PollerStep, BatchStart, SendBatch, BatchReplies, BatchFails, CancelPoller
<1>3. CASE BeginDrain \/ FinishDrain \/ (\E d \in DOMAIN drains : DrainEvent(d))
  BY <1>1, <1>3 DEF BeginDrain, FinishDrain, EndDrain, DrainEvent
<1>4. CASE FinishLastDrain
  <2>1. phase = "draining" /\ phase' = "settling" /\ UNCHANGED <<queue, cancelled, waiting, worker>>
    BY <1>4 DEF FinishLastDrain, EndDrain, Idle
  <2> QED  BY <2>1 DEF SentinelsLast, OnlySentinels
<1>5. CASE RedisDown \/ RedisUp \/ RecoveryWindowElapses \/ UNCHANGED vars
  BY <1>1, <1>5 DEF RedisDown, RedisUp, RecoveryWindowElapses, vars
<1> QED
  BY <1>0, <1>2, <1>3, <1>4, <1>5, SentinelsProducer, SentinelsWorker, SentinelsShutdown
     DEF Next, SinkStep

-----------------------------------------------------------------------------
(* No step forgets an event *)

(* What a step of one worker takes from the events the workers carry. *)
LEMMA CarriedStep ==
  ASSUME RegistryTypes, NEW w \in Workers, NEW r, worker' = [worker EXCEPT ![w] = r]
  PROVE  Carried \subseteq Carried' \union {worker[w].event} /\ r.event \in Carried'
<1>1. worker'[w] = r /\ \A v \in Workers : v # w => worker'[v] = worker[v]
  BY DEF RegistryTypes
<1> QED  BY <1>1 DEF Carried

Sunk == evicted \union ElementsOf(buffer)

LEMMA SpillForgetsNothing ==
  ASSUME SinkTypes, NEW es \in Seq(Events), Spill(es)
  PROVE  Sunk \subseteq Sunk' /\ ElementsOf(es) \subseteq Sunk'
BY SpillKeeps DEF SinkTypes, Sunk

LEMMA MayWriteGrows ==
  \A es : MayWrite(es) => written \subseteq written'
BY DEF MayWrite

(* The places of Elsewhere, for steps that change a few of them. *)
LEMMA Places ==
  ASSUME written \subseteq written', cut \subseteq cut',
         Sunk \subseteq Elsewhere', Draining \subseteq Elsewhere',
         Carried \subseteq Elsewhere' \union {Sentinel},
         ElementsOf(queue) \subseteq Elsewhere' \union {Sentinel}
  PROVE  Elsewhere \subseteq Elsewhere' \union {Sentinel}
BY DEF Elsewhere, Settled, Sunk

(* Each part of Elsewhere. *)
LEMMA Parts ==
  /\ written \subseteq Elsewhere /\ cut \subseteq Elsewhere /\ Sunk \subseteq Elsewhere
  /\ Draining \subseteq Elsewhere /\ Carried \subseteq Elsewhere
  /\ ElementsOf(queue) \subseteq Elsewhere
BY DEF Elsewhere, Settled, Sunk

(* The same of the next state. *)
PartsStand ==
  /\ written' \subseteq Elsewhere' /\ cut' \subseteq Elsewhere' /\ Sunk' \subseteq Elsewhere'
  /\ Draining' \subseteq Elsewhere' /\ Carried' \subseteq Elsewhere'
  /\ ElementsOf(queue') \subseteq Elsewhere'

LEMMA PartsNext == PartsStand
BY DEF PartsStand, Elsewhere, Settled, Sunk

LEMMA Still ==
  /\ UNCHANGED <<buffer, evicted>> => Sunk' = Sunk
  /\ UNCHANGED drains => Draining' = Draining
  /\ UNCHANGED worker => Carried' = Carried
BY DEF Sunk, Draining, DrainHolds, Carried

LEMMA WorkerKeeps ==
  ASSUME RegistryTypes, SinkTypes, Idle, NEW w \in Workers, WorkerStep(w)
  PROVE  Elsewhere \subseteq Elsewhere' \union {Sentinel}
<1> USE Groups
<1>0. cut' = cut /\ drains' = drains /\ Draining' = Draining
  BY Still DEF WorkerStep, Take, StopWorker, SendEvent, Connect, XaddSucceeds, RetryXadd, GiveUp,
         XaddGivesUp, CancelInFlight, CancelIdle
<1>1. CASE Take(w)
  <2>0. written' = written /\ queue # <<>> /\ queue' = Tail(queue) /\ At(w, "get")
    BY <1>1 DEF Take
  <2>1. ElementsOf(queue) = {Head(queue)} \union ElementsOf(queue')
    BY <2>0, Elements DEF RegistryTypes
  <2>2. CASE Publish(w) /\ UNCHANGED spilled
    <3> DEFINE r == [at |-> "connect", event |-> Head(queue), attempts |-> 0]
    <3>3. worker' = [worker EXCEPT ![w] = r] /\ r.event = Head(queue)
      BY <2>2 DEF Publish
    <3> HIDE DEF r
    <3>1. /\ Carried \subseteq Carried' \union {worker[w].event}
          /\ Head(queue) \in Carried'
      BY <3>3, CarriedStep
    <3>2. worker[w].event = Sentinel
      BY <2>0 DEF At, Idle
    <3> QED  BY <1>0, <2>0, <2>1, <2>2, <3>1, <3>2, Still, Places, PartsNext DEF PartsStand
  <2>3. CASE Spill(<<Head(queue)>>) /\ UNCHANGED worker
    <3>1. <<Head(queue)>> \in Seq(Events) /\ ElementsOf(<<Head(queue)>>) = {Head(queue)}
      BY <1>1, Elements DEF Take, RegistryTypes, Items
    <3>2. Sunk \subseteq Sunk' /\ Head(queue) \in Sunk'
      BY <2>3, <3>1, SpillForgetsNothing
    <3> QED  BY <1>0, <2>0, <2>1, <2>3, <3>2, Still, Places, PartsNext DEF PartsStand
  <2> QED  BY <1>1, <2>2, <2>3 DEF Take
<1>2. CASE StopWorker(w)
  <2>1. /\ written' = written /\ Sunk' = Sunk /\ queue # <<>> /\ Head(queue) = Sentinel
        /\ queue' = Tail(queue) /\ worker' = [worker EXCEPT ![w] = Stopped] /\ worker[w].at = "get"
    BY <1>2, Still DEF StopWorker, At
  <2>2. ElementsOf(queue) = {Head(queue)} \union ElementsOf(queue')
    BY <2>1, Elements DEF RegistryTypes
  <2>3. Carried \subseteq Carried' \union {worker[w].event} /\ worker[w].event = Sentinel
    BY <2>1, CarriedStep DEF Idle
  <2> QED  BY <1>0, <2>1, <2>2, <2>3, Places, PartsNext DEF PartsStand
<1>3. CASE SendEvent(w) \/ RetryXadd(w)
  <2>1. queue' = queue /\ Sunk' = Sunk /\ written \subseteq written'
    BY <1>3, Still, MayWriteGrows DEF SendEvent, RetryXadd
  <2>2. PICK r : worker' = [worker EXCEPT ![w] = r] /\ r.event = worker[w].event
    <3>1. CASE SendEvent(w)
      <4>1. worker' = [worker EXCEPT ![w] = [worker[w] EXCEPT !.at = "xadd"]]
        BY <3>1 DEF SendEvent, Go, RegistryTypes
      <4>2. [worker[w] EXCEPT !.at = "xadd"].event = worker[w].event
        BY DEF RegistryTypes, WorkerType
      <4> QED  BY <4>1, <4>2
    <3>2. CASE RetryXadd(w)
      <4>1. worker' = [worker EXCEPT ![w] = [worker[w] EXCEPT !.at = "connect", !.attempts = @ + 1]]
        BY <3>2 DEF RetryXadd, RegistryTypes
      <4>2. [worker[w] EXCEPT !.at = "connect", !.attempts = @ + 1].event = worker[w].event
        BY DEF RegistryTypes, WorkerType
      <4> QED  BY <4>1, <4>2
    <3> QED  BY <1>3, <3>1, <3>2
  <2>3. Carried \subseteq Carried'
    BY <2>2, CarriedStep
  <2> QED  BY <1>0, <2>1, <2>3, Places, PartsNext DEF PartsStand
<1>4. CASE XaddSucceeds(w)
  <2>1. /\ queue' = queue /\ Sunk' = Sunk /\ written' = written \union {worker[w].event}
        /\ worker' = [worker EXCEPT ![w] = Resting]
    BY <1>4, Still DEF XaddSucceeds, Rest
  <2>2. Carried \subseteq Carried' \union {worker[w].event}
    BY <2>1, CarriedStep
  <2> QED  BY <1>0, <2>1, <2>2, Places, PartsNext DEF PartsStand
<1>5. CASE GiveUp(w) \/ CancelInFlight(w)
  <2>1. /\ queue' = queue /\ written \subseteq written' /\ Spill(<<worker[w].event>>)
        /\ worker[w].at \in {"connect", "xadd"}
        /\ \E r : worker' = [worker EXCEPT ![w] = r]
    BY <1>5, MayWriteGrows DEF GiveUp, XaddGivesUp, CancelInFlight, At, Rest
  <2>2. Carried \subseteq Carried' \union {worker[w].event}
    BY <2>1, CarriedStep
  <2>3. Sunk \subseteq Sunk' /\ worker[w].event \in Sunk'
    BY <2>1, InFlight, SpillForgetsNothing
  <2> QED  BY <1>0, <2>1, <2>2, <2>3, Places, PartsNext DEF PartsStand
<1>6. CASE CancelIdle(w)
  <2>1. /\ written' = written /\ Sunk' = Sunk /\ queue' = queue
        /\ worker' = [worker EXCEPT ![w] = Stopped] /\ worker[w].at = "get"
    BY <1>6, Still DEF CancelIdle
  <2>2. Carried \subseteq Carried' \union {worker[w].event} /\ worker[w].event = Sentinel
    BY <2>1, CarriedStep DEF Idle
  <2> QED  BY <1>0, <2>1, <2>2, Places, PartsNext DEF PartsStand
<1> QED  BY <1>1, <1>2, <1>3, <1>4, <1>5, <1>6 DEF WorkerStep

LEMMA ProducerKeeps ==
  ASSUME RegistryTypes, SinkTypes, NEW e \in Singles, ProducerStep(e)
  PROVE  Elsewhere \subseteq Elsewhere' \union {Sentinel}
<1> USE Groups
<1>0. e \in Events /\ e \in Items /\ <<e>> \in Seq(Events) /\ queue \in Seq(Items)
  BY DispatchAssumption DEF DispatchAssumption, Items, RegistryTypes
<1>1. /\ UNCHANGED <<written, cut>> /\ Draining' = Draining /\ Carried' = Carried
  BY Still DEF ProducerStep, Produce, Unblock, BlockTimesOut, CancelProducer
<1>2. UNCHANGED <<buffer, evicted>> \/ Spill(<<e>>)
  BY DEF ProducerStep, Produce, Unblock, BlockTimesOut, CancelProducer
<1>3. Sunk \subseteq Sunk'
  BY <1>0, <1>2, SpillForgetsNothing, Still
<1>4. queue' = queue \/ queue' = Append(queue, e)
  BY DEF ProducerStep, Produce, Unblock, BlockTimesOut, CancelProducer
<1>5. ElementsOf(Append(queue, e)) = ElementsOf(queue) \union {e}
  BY <1>0, Elements
<1>6. ElementsOf(queue) \subseteq ElementsOf(queue')
  BY <1>4, <1>5
<1> QED  BY <1>1, <1>3, <1>6, Places, PartsNext DEF PartsStand

LEMMA PollerKeeps ==
  ASSUME RegistryTypes, SinkTypes, PollerStep
  PROVE  Elsewhere \subseteq Elsewhere' \union {Sentinel}
<1> USE Groups
<1>0. poller.batch \in Seq(Events) /\ Batches \subseteq Seq(Events)
  BY DispatchAssumption DEF DispatchAssumption, RegistryTypes, BatchType
<1>1. /\ UNCHANGED <<cut, queue>> /\ Draining' = Draining /\ Carried' = Carried
  BY Still DEF PollerStep, BatchStart, SendBatch, Connect, BatchReplies, BatchFails, CancelPoller
<1>2. written \subseteq written'
  BY MayWriteGrows DEF PollerStep, BatchStart, SendBatch, BatchReplies, BatchFails, CancelPoller
<1>3. UNCHANGED <<buffer, evicted>> \/ \E es \in Seq(Events) : Spill(es)
  BY <1>0 DEF PollerStep, BatchStart, SendBatch, BatchReplies, BatchFails, CancelPoller
<1>4. Sunk \subseteq Sunk'
  BY <1>3, SpillForgetsNothing, Still
<1> QED  BY <1>1, <1>2, <1>4, Places, PartsNext DEF PartsStand

(* What a drain holds, and what another one does. *)
LEMMA DrainingStep ==
  ASSUME SinkTypes, NEW d \in Drains, NEW r, drains' = [drains EXCEPT ![d] = r]
  PROVE  /\ Draining \subseteq Draining' \union DrainHolds(d)
         /\ ElementsOf(r.left) \union ElementsOf(r.failed) \subseteq Draining'
<1>1. drains'[d] = r /\ \A x \in Drains : x # d => drains'[x] = drains[x]
  BY DEF SinkTypes
<1> QED  BY <1>1 DEF Draining, DrainHolds, Drains

LEMMA DrainKeeps ==
  ASSUME RegistryTypes, SinkTypes, Idle, SinkStep
  PROVE  Elsewhere \subseteq Elsewhere' \union {Sentinel}
<1> USE Groups
<1>0. /\ UNCHANGED <<cut, queue>> /\ Carried' = Carried
      /\ DOMAIN drains = Drains /\ "background" \in Drains /\ "final" \in Drains
  BY Still DEF SinkStep, BeginDrain, FinishDrain, FinishLastDrain, EndDrain, DrainEvent, SinkTypes, Drains
<1>1. CASE BeginDrain
  <2>1. written' = written
    BY <1>1 DEF BeginDrain
  <2>2. CASE UNCHANGED <<drains, buffer, onClient>>
    <3>1. Sunk' = Sunk /\ Draining' = Draining
      BY <1>1, <2>2, Still DEF BeginDrain
    <3> QED  BY <1>0, <2>1, <3>1, Places, PartsNext DEF PartsStand
  <2>3. CASE /\ ~drains["background"].active
             /\ drains' = [drains EXCEPT !["background"] =
                                 [active |-> TRUE, left |-> buffer, failed |-> <<>>]]
             /\ buffer' = <<>>
    <3> DEFINE r == [active |-> TRUE, left |-> buffer, failed |-> <<>>]
    <3>1. r.left = buffer /\ r.failed = <<>> /\ drains' = [drains EXCEPT !["background"] = r]
      BY <2>3
    <3> HIDE DEF r
    <3>2. DrainHolds("background") = {}
      BY <1>0, <2>3, Nothing DEF Idle, NoDrain, DrainHolds
    <3>3. Draining \subseteq Draining' /\ ElementsOf(buffer) \subseteq Draining'
      BY <1>0, <3>1, <3>2, DrainingStep
    <3>4. Sunk \subseteq Draining' \union Sunk'
      BY <1>1, <3>3 DEF Sunk, BeginDrain
    <3> QED  BY <1>0, <2>1, <3>3, <3>4, Places, PartsNext DEF PartsStand
  <2> QED  BY <1>1, <2>2, <2>3 DEF BeginDrain
<1>2. ASSUME NEW d \in Drains, EndDrain(d) PROVE Elsewhere \subseteq Elsewhere' \union {Sentinel}
  <2>1. /\ written' = written /\ drains[d].left = <<>> /\ drains[d].failed \in Seq(Events)
        /\ Spill(drains[d].failed) /\ drains' = [drains EXCEPT ![d] = NoDrain]
    BY <1>2 DEF EndDrain, SinkTypes, DrainType
  <2>2. Draining \subseteq Draining' \union ElementsOf(drains[d].failed)
    BY <2>1, DrainingStep, Nothing DEF DrainHolds
  <2>3. Sunk \subseteq Sunk' /\ ElementsOf(drains[d].failed) \subseteq Sunk'
    BY <2>1, SpillForgetsNothing
  <2> QED  BY <1>0, <2>1, <2>2, <2>3, Places, PartsNext DEF PartsStand
<1>3. ASSUME NEW d \in Drains, DrainEvent(d) PROVE Elsewhere \subseteq Elsewhere' \union {Sentinel}
  <2> DEFINE e == Head(drains[d].left)
  <2>0. drains[d] \in DrainType
    BY DEF SinkTypes
  <2>1. /\ drains[d].left \in Seq(Events) /\ drains[d].failed \in Seq(Events) /\ e \in Events
        /\ ElementsOf(drains[d].left) = {e} \union ElementsOf(Tail(drains[d].left))
        /\ ElementsOf(Append(drains[d].failed, e)) = ElementsOf(drains[d].failed) \union {e}
    BY <1>3, <2>0, Elements DEF DrainEvent, DrainType
  <2>2. Sunk' = Sunk
    BY <1>3, Still DEF DrainEvent
  <2>3. CASE written' = written \union {e} /\ drains' = [drains EXCEPT ![d].left = Tail(@)]
    <3> DEFINE r == [drains[d] EXCEPT !.left = Tail(@)]
    <3>1. /\ drains' = [drains EXCEPT ![d] = r]
          /\ r.left = Tail(drains[d].left) /\ r.failed = drains[d].failed
      BY <2>0, <2>3 DEF SinkTypes, DrainType
    <3> HIDE DEF r, e
    <3>2. /\ Draining \subseteq Draining' \union DrainHolds(d)
          /\ ElementsOf(Tail(drains[d].left)) \union ElementsOf(drains[d].failed) \subseteq Draining'
      BY <3>1, DrainingStep
    <3>3. DrainHolds(d) \subseteq {e} \union Draining'
      BY <2>1, <3>2 DEF DrainHolds
    <3> QED  BY <1>0, <2>2, <2>3, <3>2, <3>3, Places, PartsNext DEF PartsStand
  <2>4. CASE /\ MayWrite({e})
             /\ drains' = [drains EXCEPT ![d].left = Tail(@), ![d].failed = Append(@, e)]
    <3> DEFINE r == [drains[d] EXCEPT !.left = Tail(@), !.failed = Append(@, e)]
    <3>1. /\ drains' = [drains EXCEPT ![d] = r] /\ written \subseteq written'
          /\ r.left = Tail(drains[d].left) /\ r.failed = Append(drains[d].failed, e)
      BY <2>0, <2>4, MayWriteGrows DEF SinkTypes, DrainType
    <3> HIDE DEF r, e
    <3>2. /\ Draining \subseteq Draining' \union DrainHolds(d)
          /\ ElementsOf(Tail(drains[d].left)) \union ElementsOf(Append(drains[d].failed, e)) \subseteq Draining'
      BY <3>1, DrainingStep
    <3>3. DrainHolds(d) \subseteq Draining'
      BY <2>1, <3>2 DEF DrainHolds
    <3> QED  BY <1>0, <2>2, <3>1, <3>2, <3>3, Places, PartsNext DEF PartsStand
  <2> QED  BY <1>3, <2>3, <2>4 DEF DrainEvent
<1> QED  BY <1>0, <1>1, <1>2, <1>3 DEF SinkStep, FinishDrain, FinishLastDrain

LEMMA ShutdownKeeps ==
  ASSUME RegistryTypes, SinkTypes, Idle, ShutdownStep
  PROVE  Elsewhere \subseteq Elsewhere' \union {Sentinel}
<1> USE Groups
<1>0. /\ written' = written /\ Carried' = Carried
      /\ DOMAIN drains = Drains /\ "background" \in Drains /\ "final" \in Drains
  BY Still DEF ShutdownStep, Disable, Flush, PutSentinel, CancelWorkers, CloseSink,
               LastDrainTimesOut, FinishClose, SinkTypes, Drains
<1>1. CASE Disable \/ Flush \/ CancelWorkers
  <2>1. Sunk' = Sunk /\ Draining' = Draining /\ cut' = cut /\ queue' = queue
    BY <1>1, Still DEF Disable, Flush, CancelWorkers
  <2> QED  BY <1>0, <2>1, Places, PartsNext DEF PartsStand
<1>2. CASE PutSentinel
  <2>1. Sunk' = Sunk /\ Draining' = Draining /\ cut' = cut /\ queue' = Append(queue, Sentinel)
    BY <1>2, Still DEF PutSentinel
  <2>2. ElementsOf(Append(queue, Sentinel)) = ElementsOf(queue) \union {Sentinel}
    BY Elements DEF RegistryTypes, Items
  <2> QED  BY <1>0, <2>1, <2>2, Places, PartsNext DEF PartsStand
<1>3. CASE CloseSink
  <2>1. cut' = cut /\ queue' = queue /\ evicted' = evicted /\ phase = "stopping"
    BY <1>3 DEF CloseSink
  <2>2. CASE UNCHANGED <<drains, buffer, onClient>>
    <3>1. Sunk' = Sunk /\ Draining' = Draining
      BY <2>1, <2>2, Still
    <3> QED  BY <1>0, <2>1, <3>1, Places, PartsNext DEF PartsStand
  <2>3. CASE /\ drains' = [drains EXCEPT !["final"] =
                                 [active |-> TRUE, left |-> buffer, failed |-> <<>>]]
             /\ buffer' = <<>>
    <3> DEFINE r == [active |-> TRUE, left |-> buffer, failed |-> <<>>]
    <3>1. r.left = buffer /\ r.failed = <<>> /\ drains' = [drains EXCEPT !["final"] = r]
      BY <2>3
    <3> HIDE DEF r
    <3>2. ~drains["final"].active
      BY <2>1 DEF Idle
    <3>3. DrainHolds("final") = {}
      BY <1>0, <3>2, Nothing DEF Idle, NoDrain, DrainHolds
    <3>4. Draining \subseteq Draining' /\ ElementsOf(buffer) \subseteq Draining'
      BY <1>0, <3>1, <3>3, DrainingStep
    <3>5. Sunk \subseteq Draining' \union Sunk'
      BY <2>1, <3>4 DEF Sunk
    <3> QED  BY <1>0, <2>1, <3>4, <3>5, Places, PartsNext DEF PartsStand
  <2> QED  BY <1>3, <2>2, <2>3 DEF CloseSink
<1>4. ASSUME NEW d \in Drains, CutDrain(d), UNCHANGED <<buffer, evicted, queue>>
      PROVE  Elsewhere \subseteq Elsewhere' \union {Sentinel}
  <2>1. cut \subseteq cut' /\ DrainHolds(d) \subseteq cut' /\ Sunk' = Sunk
    BY <1>4, Still DEF CutDrain
  <2>2. Draining \subseteq Draining' \union DrainHolds(d)
    BY <1>4, DrainingStep DEF CutDrain
  <2> QED  BY <1>0, <1>4, <2>1, <2>2, Places, PartsNext DEF PartsStand
<1>5. CASE LastDrainTimesOut \/ FinishClose
  BY <1>0, <1>4, <1>5 DEF LastDrainTimesOut, FinishClose
<1> QED  BY <1>1, <1>2, <1>3, <1>5 DEF ShutdownStep

LEMMA NothingForgotten ==
  ASSUME DispatchTypes, Idle, [Next]_vars
  PROVE  Elsewhere \subseteq Elsewhere' \union {Sentinel}
<1> USE Groups
<1>0. RegistryTypes /\ SinkTypes
  BY TwoTypes
<1>1. CASE RedisDown \/ RedisUp \/ RecoveryWindowElapses \/ UNCHANGED vars
  <2>1. UNCHANGED <<written, cut, queue>> /\ Sunk' = Sunk /\ Draining' = Draining /\ Carried' = Carried
    BY <1>1, Still DEF RedisDown, RedisUp, RecoveryWindowElapses, vars
  <2> QED  BY <2>1, Places, PartsNext DEF PartsStand
<1> QED
  BY <1>0, <1>1, WorkerKeeps, ProducerKeeps, PollerKeeps, DrainKeeps, ShutdownKeeps DEF Next

-----------------------------------------------------------------------------
(* What the registry took charge of *)

LEMMA KeptStep ==
  ASSUME DispatchTypes, Idle, Kept, [Next]_vars PROVE Kept'
<1> USE Groups
<1>0. /\ RegistryTypes /\ SinkTypes /\ accepted \subseteq Events /\ Sentinel \notin Events
      /\ Elsewhere \subseteq Elsewhere' \union {Sentinel}
  BY TwoTypes, DispatchAssumption, NothingForgotten DEF SinkTypes, DispatchAssumption
<1>1. CASE accepted' = accepted /\ again' = again /\ waiting' = waiting
  BY <1>0, <1>1 DEF Kept
<1>2. ASSUME NEW es, ElementsOf(es) \subseteq Elsewhere', Accept(es), waiting' = waiting PROVE Kept'
  <2>1. \A e \in accepted : e \in Elsewhere' \/ e \in waiting \ again
    BY <1>0 DEF Kept
  <2>2. Repeated(es) \subseteq ElementsOf(es)
    BY DEF Repeated
  <2> QED  BY <1>2, <2>1, <2>2 DEF Kept, Accept
<1>3. ASSUME NEW e \in Singles, ProducerStep(e) PROVE Kept'
  <2>0. e \in Events /\ e \in Items /\ <<e>> \in Seq(Events) /\ ElementsOf(<<e>>) = {e}
        /\ queue \in Seq(Items)
    BY <1>0, DispatchAssumption, Elements DEF DispatchAssumption, Items, RegistryTypes
  <2>1. ASSUME Spill(<<e>>) PROVE e \in Elsewhere'
    BY <1>0, <2>0, <2>1, SpillForgetsNothing, PartsNext DEF PartsStand
  <2>2. ASSUME queue' = Append(queue, e) PROVE e \in Elsewhere'
    <3>1. ElementsOf(Append(queue, e)) = ElementsOf(queue) \union {e}
      BY <2>0, Elements
    <3> QED  BY <2>2, <3>1, PartsNext DEF PartsStand
  <2>3. CASE Produce(e)
    <3>1. Accept(<<e>>) /\ e \notin waiting
      BY <2>3 DEF Produce
    <3>2. CASE waiting' = waiting /\ (Spill(<<e>>) \/ queue' = Append(queue, e))
      <4>1. e \in Elsewhere'
        BY <2>1, <2>2, <3>2
      <4>2. ElementsOf(<<e>>) \subseteq Elsewhere'
        BY <2>0, <4>1
      <4> QED  BY <1>2, <3>1, <3>2, <4>2
    <3>3. CASE waiting' = waiting \union {e}
      <4>0. Repeated(<<e>>) \subseteq {e}
        BY <2>0 DEF Repeated
      <4>1. ASSUME NEW x \in accepted', x # e PROVE x \in Elsewhere' \/ x \in waiting' \ again'
        <5>1. x \in accepted /\ (x \in again' => x \in again)
          BY <2>0, <3>1, <4>0, <4>1 DEF Accept
        <5> QED  BY <1>0, <3>1, <3>3, <4>1, <5>1 DEF Kept
      <4>2. CASE e \in accepted
        BY <1>0, <3>1, <4>1, <4>2 DEF Kept
      <4>3. CASE e \notin accepted
        <5>1. e \notin Repeated(<<e>>)
          BY OccurrencesOne DEF Repeated
        <5>2. e \notin again'
          BY <1>0, <3>1, <4>3, <5>1 DEF Accept, SinkTypes
        <5> QED  BY <3>3, <4>1, <5>2 DEF Kept
      <4> QED  BY <4>2, <4>3
    <3> QED  BY <2>3, <3>2, <3>3 DEF Produce
  <2>4. CASE Unblock(e) \/ BlockTimesOut(e)
    <3>1. /\ accepted' = accepted /\ again' = again /\ waiting' = waiting \ {e}
          /\ queue' = Append(queue, e) \/ Spill(<<e>>)
      BY <2>4 DEF Unblock, BlockTimesOut
    <3> QED  BY <1>0, <2>1, <2>2, <3>1 DEF Kept
  <2>5. CASE CancelProducer(e)
    BY <1>0, <2>5 DEF CancelProducer, Kept
  <2> QED  BY <1>3, <2>3, <2>4, <2>5 DEF ProducerStep
<1>4. CASE PollerStep
  <2>1. waiting' = waiting
    BY <1>4 DEF PollerStep, BatchStart, SendBatch, BatchReplies, BatchFails, CancelPoller
  <2>2. poller.batch \in Seq(Events) /\ Batches \subseteq Seq(Events)
    BY <1>0, DispatchAssumption DEF DispatchAssumption, RegistryTypes, BatchType
  <2>3. \/ accepted' = accepted /\ again' = again
        \/ \E es \in Seq(Events) : Spill(es) /\ Accept(es)
    BY <1>4, <2>2 DEF PollerStep, BatchStart, SendBatch, BatchReplies, BatchFails, CancelPoller
  <2>4. ASSUME NEW es \in Seq(Events), Spill(es), Accept(es) PROVE Kept'
    <3>1. ElementsOf(es) \subseteq Elsewhere'
      BY <1>0, <2>4, SpillForgetsNothing, PartsNext DEF PartsStand
    <3> QED  BY <1>2, <2>1, <2>4, <3>1
  <2> QED  BY <1>1, <2>1, <2>3, <2>4
<1>5. ASSUME NEW w \in Workers, WorkerStep(w) PROVE Kept'
  <2>1. accepted' = accepted /\ again' = again /\ waiting' = waiting
    BY <1>5 DEF WorkerStep, Take, StopWorker, SendEvent, XaddSucceeds, RetryXadd, GiveUp, XaddGivesUp,
                CancelInFlight, CancelIdle
  <2> QED  BY <1>1, <2>1
<1>6. CASE SinkStep \/ ShutdownStep
  <2>1. accepted' = accepted /\ again' = again /\ waiting' = waiting
    BY <1>6 DEF SinkStep, BeginDrain, FinishDrain, FinishLastDrain, EndDrain, DrainEvent,
                ShutdownStep, Disable, Flush, PutSentinel, CancelWorkers, CloseSink,
                LastDrainTimesOut, FinishClose
  <2> QED  BY <1>1, <2>1
<1>7. CASE RedisDown \/ RedisUp \/ RecoveryWindowElapses \/ UNCHANGED vars
  BY <1>1, <1>7 DEF RedisDown, RedisUp, RecoveryWindowElapses, vars
<1> QED  BY <1>3, <1>4, <1>5, <1>6, <1>7 DEF Next

(* Buffering events adds at most them. *)
LEMMA SpillCount ==
  ASSUME SinkTypes, NEW es \in Seq(Events), Spill(es), NEW e
  PROVE  Occurrences(e, buffer') <= Occurrences(e, buffer) + Occurrences(e, es)
<1> DEFINE all == buffer \o es
           over == IF Len(all) > BufferSize THEN Len(all) - BufferSize ELSE 0
           gone == SubSeq(all, 1, over)
           kept == SubSeq(all, over + 1, Len(all))
<1>1. /\ all \in Seq(Events) /\ Len(all) \in Nat
      /\ Occurrences(e, all) = Occurrences(e, buffer) + Occurrences(e, es)
  BY OccurrencesConcat DEF SinkTypes
<1>2. BufferSize \in Nat /\ buffer' = kept
  BY DispatchAssumption DEF Spill, DispatchAssumption
<1> HIDE DEF all
<1>3. over \in 0 .. Len(all)
  BY <1>1, <1>2
<1> HIDE DEF over
<1>4. gone \in Seq(Events) /\ kept \in Seq(Events) /\ gone \o kept = all
  BY <1>1, <1>3, Halves
<1> HIDE DEF gone, kept
<1>5. Occurrences(e, all) = Occurrences(e, gone) + Occurrences(e, kept)
  BY <1>4, OccurrencesConcat
<1>6. Occurrences(e, gone) \in Nat /\ Occurrences(e, kept) \in Nat
  BY <1>4, OccurrencesType
<1>7. Occurrences(e, kept) <= Occurrences(e, all)
  BY <1>5, <1>6
<1> QED  BY <1>1, <1>2, <1>7

-----------------------------------------------------------------------------
(* The copies of an event, place by place *)

Carriers(e) == Cardinality({w \in Workers : worker[w].event = e})

Blocked(e) == IF e \in waiting THEN 1 ELSE 0

InDrain(d, e) == Occurrences(e, drains[d].left) + Occurrences(e, drains[d].failed)

InDrains(e) == InDrain("background", e) + InDrain("final", e)

CopiesAddUp ==
  \A e \in Events :
    /\ Carriers(e) \in Nat /\ Blocked(e) \in Nat /\ Occurrences(e, queue) \in Nat
    /\ Occurrences(e, buffer) \in Nat /\ InDrains(e) \in Nat
    /\ \A d \in Drains : InDrain(d, e) \in Nat
    /\ Copies(e) = Carriers(e) + Blocked(e) + Occurrences(e, queue) + Occurrences(e, buffer)
                     + InDrains(e)
    /\ Copies(e) \in Nat

LEMMA CopiesSum == RegistryTypes /\ SinkTypes => CopiesAddUp
<1> SUFFICES ASSUME RegistryTypes, SinkTypes, NEW e \in Events
             PROVE  /\ Carriers(e) \in Nat /\ Blocked(e) \in Nat /\ Occurrences(e, queue) \in Nat
                    /\ Occurrences(e, buffer) \in Nat /\ InDrains(e) \in Nat
                    /\ \A d \in Drains : InDrain(d, e) \in Nat
                    /\ Copies(e) = Carriers(e) + Blocked(e) + Occurrences(e, queue)
                                     + Occurrences(e, buffer) + InDrains(e)
                    /\ Copies(e) \in Nat
  BY DEF CopiesAddUp
<1>1. Carriers(e) \in Nat
  <2>1. IsFiniteSet({w \in Workers : worker[w].event = e})
    BY DispatchAssumption, FS_Subset DEF DispatchAssumption
  <2> QED  BY <2>1, FS_CardinalityType DEF Carriers
<1>2. Blocked(e) \in Nat
  BY DEF Blocked
<1>3. queue \in Seq(Items) /\ buffer \in Seq(Items) /\ buffer \in Seq(Events)
  BY DEF RegistryTypes, SinkTypes, Items
<1>4. /\ Occurrences(e, queue) \in Nat /\ Occurrences(e, buffer) \in Nat
      /\ Occurrences(e, queue \o buffer) = Occurrences(e, queue) + Occurrences(e, buffer)
  BY <1>3, OccurrencesType, OccurrencesConcat
<1>5. ASSUME NEW d \in Drains
      PROVE  /\ InDrain(d, e) \in Nat
             /\ Occurrences(e, drains[d].left \o drains[d].failed) = InDrain(d, e)
  <2>1. drains[d].left \in Seq(Events) /\ drains[d].failed \in Seq(Events)
    BY DEF SinkTypes, DrainType
  <2>2. Occurrences(e, drains[d].left) \in Nat /\ Occurrences(e, drains[d].failed) \in Nat
    BY <2>1, OccurrencesType
  <2> QED  BY <2>1, <2>2, OccurrencesConcat DEF InDrain
<1>6. "background" \in Drains /\ "final" \in Drains
  BY DEF Drains
<1>7. InDrains(e) \in Nat
  BY <1>5, <1>6 DEF InDrains
<1>8. Copies(e) = Carriers(e) + Blocked(e) + Occurrences(e, queue) + Occurrences(e, buffer) + InDrains(e)
  <2>1. Copies(e) = Carriers(e) + Blocked(e) + Occurrences(e, queue \o buffer)
                     + InDrain("background", e) + InDrain("final", e)
    BY <1>5, <1>6 DEF Copies, Carriers, Blocked
  <2>2. InDrain("background", e) \in Nat /\ InDrain("final", e) \in Nat
    BY <1>5, <1>6
  <2> QED  BY <1>1, <1>2, <1>4, <2>1, <2>2 DEF InDrains
<1>9. Copies(e) \in Nat
  BY <1>1, <1>2, <1>4, <1>7, <1>8
<1> QED  BY <1>1, <1>2, <1>4, <1>5, <1>7, <1>8, <1>9

(* What a step leaves alone. *)
LEMMA CopiesStill ==
  ASSUME NEW e
  PROVE  /\ UNCHANGED worker => Carriers(e)' = Carriers(e)
         /\ UNCHANGED waiting => Blocked(e)' = Blocked(e)
         /\ UNCHANGED queue => Occurrences(e, queue)' = Occurrences(e, queue)
         /\ UNCHANGED buffer => Occurrences(e, buffer)' = Occurrences(e, buffer)
         /\ UNCHANGED drains => InDrains(e)' = InDrains(e)
BY DEF Carriers, Blocked, InDrains, InDrain

(* A worker puts down what it holds and picks up another event, or none. *)
LEMMA CarriersStep ==
  ASSUME NEW w \in Workers, \A v \in Workers \ {w} : worker'[v] = worker[v], NEW e
  PROVE  Carriers(e)' = Carriers(e) - (IF worker[w].event = e THEN 1 ELSE 0)
                                    + (IF worker'[w].event = e THEN 1 ELSE 0)
<1> DEFINE S == {v \in Workers : worker[v].event = e}
           N == {v \in Workers : worker'[v].event = e}
<1>2. /\ S \ {w} = N \ {w}
      /\ w \in S <=> worker[w].event = e
      /\ w \in N <=> worker'[w].event = e
  OBVIOUS
<1>3. IsFiniteSet(S) /\ IsFiniteSet(N)
  BY DispatchAssumption, FS_Subset DEF DispatchAssumption
<1>4. Carriers(e) = Cardinality(S) /\ Carriers(e)' = Cardinality(N)
  BY DEF Carriers
<1> HIDE DEF S, N
<1>5. /\ Cardinality(S \ {w}) = IF w \in S THEN Cardinality(S) - 1 ELSE Cardinality(S)
      /\ Cardinality(N \ {w}) = IF w \in N THEN Cardinality(N) - 1 ELSE Cardinality(N)
  BY <1>3, FS_RemoveElement
<1>6. Cardinality(S) \in Nat /\ Cardinality(N) \in Nat
  BY <1>3, FS_CardinalityType
<1>7. (IF w \in S THEN Cardinality(S) - 1 ELSE Cardinality(S))
        = IF w \in N THEN Cardinality(N) - 1 ELSE Cardinality(N)
  BY <1>2, <1>5
<1> QED  BY <1>2, <1>4, <1>6, <1>7

(* A drain begins, ends, or goes on with another record. *)
LEMMA DrainCount ==
  ASSUME CopiesAddUp, CopiesAddUp', NEW d \in Drains,
         \A x \in Drains \ {d} : drains'[x] = drains[x], NEW e \in Events
  PROVE  InDrains(e)' = InDrains(e) - InDrain(d, e) + InDrain(d, e)'
<1>1. \A x \in Drains : InDrain(x, e) \in Nat /\ InDrain(x, e)' \in Nat
  BY DEF CopiesAddUp
<1>2. ASSUME NEW x \in Drains, x # d PROVE InDrain(x, e)' = InDrain(x, e)
  BY <1>2 DEF InDrain
<1>3. /\ Drains = {"background", "final"} /\ InDrains(e) = InDrain("background", e) + InDrain("final", e)
      /\ InDrains(e)' = InDrain("background", e)' + InDrain("final", e)'
  BY DEF Drains, InDrains
<1>4. CASE d = "background"
  <2>1. InDrain("final", e)' = InDrain("final", e)
    BY <1>2, <1>3, <1>4
  <2> QED  BY <1>1, <1>3, <1>4, <2>1
<1>5. CASE d = "final"
  <2>1. InDrain("background", e)' = InDrain("background", e)
    BY <1>2, <1>3, <1>5
  <2> QED  BY <1>1, <1>3, <1>5, <2>1
<1> QED  BY <1>3, <1>4, <1>5

(* Workers move what they take from the queue to the breaker and the buffer. *)
LEMMA WorkerCopies ==
  ASSUME RegistryTypes, SinkTypes, Idle, CopiesAddUp, CopiesAddUp',
         NEW w \in Workers, WorkerStep(w), NEW e \in Events
  PROVE  Copies(e)' <= Copies(e)
<1> USE Groups
<1>0. /\ waiting' = waiting /\ drains' = drains /\ Sentinel # e
      /\ queue \in Seq(Items) /\ worker \in [Workers -> WorkerType]
  BY DispatchAssumption
     DEF WorkerStep, Take, StopWorker, SendEvent, Connect, XaddSucceeds, RetryXadd, GiveUp,
         XaddGivesUp, CancelInFlight, CancelIdle, RegistryTypes, DispatchAssumption
<1>1. Blocked(e)' = Blocked(e) /\ InDrains(e)' = InDrains(e)
  BY <1>0, CopiesStill
<1>2. SUFFICES Carriers(e)' + Occurrences(e, queue)' + Occurrences(e, buffer)'
                 <= Carriers(e) + Occurrences(e, queue) + Occurrences(e, buffer)
  BY <1>1 DEF CopiesAddUp
<1>3. /\ Carriers(e) \in Nat /\ Occurrences(e, queue) \in Nat /\ Occurrences(e, buffer) \in Nat
      /\ Carriers(e)' \in Nat /\ Occurrences(e, queue)' \in Nat /\ Occurrences(e, buffer)' \in Nat
  BY DEF CopiesAddUp
<1>4. Carriers(e)' = Carriers(e) - (IF worker[w].event = e THEN 1 ELSE 0)
                                 + (IF worker'[w].event = e THEN 1 ELSE 0)
  <2>1. \A v \in Workers \ {w} : worker'[v] = worker[v]
    BY <1>0 DEF WorkerStep, Take, Publish, StopWorker, SendEvent, Go, XaddSucceeds, RetryXadd,
                GiveUp, XaddGivesUp, Rest, CancelInFlight, CancelIdle
  <2> QED  BY <2>1, CarriersStep
<1>5. ASSUME queue # <<>>, queue' = Tail(queue)
      PROVE  Occurrences(e, queue) = Occurrences(e, queue)' + (IF Head(queue) = e THEN 1 ELSE 0)
  BY <1>0, <1>5, OccurrencesTail
<1>6. ASSUME NEW x \in Events, Spill(<<x>>)
      PROVE  Occurrences(e, buffer)' <= Occurrences(e, buffer) + (IF x = e THEN 1 ELSE 0)
  <2>1. <<x>> \in Seq(Events) /\ Occurrences(e, <<x>>) = IF x = e THEN 1 ELSE 0
    BY OccurrencesOne
  <2>2. Occurrences(e, buffer') <= Occurrences(e, buffer) + Occurrences(e, <<x>>)
    BY <1>6, <2>1, SpillCount
  <2> QED  BY <2>1, <2>2
<1>7. CASE Take(w)
  <2>1. /\ queue # <<>> /\ queue' = Tail(queue) /\ Head(queue) \in Events /\ worker[w].event # e
    BY <1>0, <1>7, Elements DEF Take, At, Idle, Items
  <2>2. CASE Publish(w) /\ UNCHANGED spilled
    <3>1. worker'[w].event = Head(queue)
      BY <1>0, <2>2 DEF Publish
    <3>2. Carriers(e)' = Carriers(e) + (IF Head(queue) = e THEN 1 ELSE 0)
      BY <1>3, <1>4, <2>1, <3>1
    <3>3. Occurrences(e, buffer)' = Occurrences(e, buffer)
      BY <2>2, CopiesStill
    <3> QED  BY <1>3, <1>5, <2>1, <3>2, <3>3
  <2>3. CASE Spill(<<Head(queue)>>) /\ UNCHANGED worker
    <3>1. Carriers(e)' = Carriers(e)
      BY <2>3, CopiesStill
    <3> QED  BY <1>3, <1>5, <1>6, <2>1, <2>3, <3>1
  <2> QED  BY <1>7, <2>2, <2>3 DEF Take
<1>8. CASE StopWorker(w)
  <2>1. /\ queue # <<>> /\ queue' = Tail(queue) /\ worker'[w].event # e
        /\ buffer' = buffer
    BY <1>0, <1>8, Records DEF StopWorker
  <2>2. Carriers(e)' <= Carriers(e)
    BY <1>3, <1>4, <2>1
  <2>3. Occurrences(e, queue)' <= Occurrences(e, queue)
    BY <1>3, <1>5, <2>1
  <2> QED  BY <1>3, <2>1, <2>2, <2>3, CopiesStill
<1>9. CASE SendEvent(w) \/ RetryXadd(w)
  <2>1. queue' = queue /\ buffer' = buffer
    BY <1>9 DEF SendEvent, RetryXadd
  <2>2. worker'[w].event = worker[w].event
    BY <1>0, <1>9 DEF SendEvent, RetryXadd, Go, WorkerType
  <2>3. Carriers(e)' = Carriers(e)
    BY <1>3, <1>4, <2>2
  <2> QED  BY <1>3, <2>1, <2>3, CopiesStill
<1>10. CASE XaddSucceeds(w) \/ CancelIdle(w)
  <2>1. /\ queue' = queue /\ buffer' = buffer
        /\ worker'[w].event # e
    BY <1>0, <1>10, Records DEF XaddSucceeds, CancelIdle, Rest
  <2>2. Carriers(e)' <= Carriers(e)
    BY <1>3, <1>4, <2>1
  <2> QED  BY <1>3, <2>1, <2>2, CopiesStill
<1>11. CASE GiveUp(w) \/ CancelInFlight(w)
  <2>1. /\ queue' = queue /\ Spill(<<worker[w].event>>) /\ worker[w].event \in Events
        /\ worker'[w].event # e
    BY <1>0, <1>11, Records, InFlight DEF GiveUp, XaddGivesUp, CancelInFlight, At, Rest
  <2>2. Carriers(e)' = Carriers(e) - (IF worker[w].event = e THEN 1 ELSE 0)
    BY <1>3, <1>4, <2>1
  <2>3. Occurrences(e, queue)' = Occurrences(e, queue)
    BY <2>1, CopiesStill
  <2> QED  BY <1>3, <1>6, <2>1, <2>2, <2>3
<1> QED  BY <1>7, <1>8, <1>9, <1>10, <1>11 DEF WorkerStep

(* A producer adds a copy of the event it publishes, and moves it. *)
LEMMA ProducerCopies ==
  ASSUME RegistryTypes, SinkTypes, CopiesAddUp, CopiesAddUp',
         NEW e \in Singles, NEW x \in Events
  PROVE  /\ Produce(e) => Copies(x)' <= Copies(x) + (IF e = x THEN 1 ELSE 0)
         /\ Unblock(e) \/ BlockTimesOut(e) => Copies(x)' <= Copies(x)
         /\ CancelProducer(e) => Copies(x)' = Copies(x) - (IF e = x THEN 1 ELSE 0)
<1> USE Groups
<1> DEFINE one == IF e = x THEN 1 ELSE 0
<1>0. /\ e \in Events /\ e \in Items /\ <<e>> \in Seq(Events) /\ queue \in Seq(Items)
  BY DispatchAssumption DEF DispatchAssumption, RegistryTypes, Items
<1>n. one \in Nat
  OBVIOUS
<1>1. /\ Carriers(x) \in Nat /\ Blocked(x) \in Nat /\ Occurrences(x, queue) \in Nat
      /\ Occurrences(x, buffer) \in Nat /\ InDrains(x) \in Nat
      /\ Carriers(x)' \in Nat /\ Blocked(x)' \in Nat /\ Occurrences(x, queue)' \in Nat
      /\ Occurrences(x, buffer)' \in Nat /\ InDrains(x)' \in Nat
      /\ Copies(x) = Carriers(x) + Blocked(x) + Occurrences(x, queue) + Occurrences(x, buffer)
                       + InDrains(x)
      /\ Copies(x)' = Carriers(x)' + Blocked(x)' + Occurrences(x, queue)'
                        + Occurrences(x, buffer)' + InDrains(x)'
  BY DEF CopiesAddUp
<1>2. ASSUME Spill(<<e>>) PROVE Occurrences(x, buffer)' <= Occurrences(x, buffer) + one
  <2>1. Occurrences(x, <<e>>) = one
    BY OccurrencesOne
  <2>2. Occurrences(x, buffer') <= Occurrences(x, buffer) + Occurrences(x, <<e>>)
    BY <1>0, <1>2, SpillCount
  <2> QED  BY <2>1, <2>2
<1>3. ASSUME queue' = Append(queue, e)
      PROVE  Occurrences(x, queue)' = Occurrences(x, queue) + one
  <2>1. Occurrences(x, Append(queue, e)) = Occurrences(x, queue) + one
    BY <1>0, OccurrencesAppend
  <2> QED  BY <1>3, <2>1
<1>4. ASSUME e \in waiting, waiting' = waiting \ {e} PROVE Blocked(x) = Blocked(x)' + one
  BY <1>4 DEF Blocked
<1>5. ASSUME waiting' = waiting \union {e} PROVE Blocked(x)' <= Blocked(x) + one
  BY <1>5 DEF Blocked
<1>6. ASSUME Produce(e) PROVE Copies(x)' <= Copies(x) + one
  <2>1. Carriers(x)' = Carriers(x) /\ InDrains(x)' = InDrains(x)
    BY <1>6, CopiesStill DEF Produce
  <2>2. CASE Spill(<<e>>) /\ UNCHANGED <<queue, waiting>>
    <3>1. Blocked(x)' = Blocked(x) /\ Occurrences(x, queue)' = Occurrences(x, queue)
      BY <2>2, CopiesStill
    <3>2. Occurrences(x, buffer)' <= Occurrences(x, buffer) + one
      BY <1>2, <2>2
    <3> HIDE DEF one
    <3> QED  BY <1>n, <1>1, <2>1, <3>1, <3>2
  <2>3. CASE queue' = Append(queue, e) /\ UNCHANGED <<waiting, spilled>>
    <3>1. Blocked(x)' = Blocked(x) /\ Occurrences(x, buffer)' = Occurrences(x, buffer)
      BY <2>3, CopiesStill
    <3>2. Occurrences(x, queue)' = Occurrences(x, queue) + one
      BY <1>3, <2>3
    <3> HIDE DEF one
    <3> QED  BY <1>n, <1>1, <2>1, <3>1, <3>2
  <2>4. CASE waiting' = waiting \union {e} /\ UNCHANGED <<queue, spilled>>
    <3>1. Occurrences(x, queue)' = Occurrences(x, queue)
          /\ Occurrences(x, buffer)' = Occurrences(x, buffer)
      BY <2>4, CopiesStill
    <3>2. Blocked(x)' <= Blocked(x) + one
      BY <1>5, <2>4
    <3> HIDE DEF one
    <3> QED  BY <1>n, <1>1, <2>1, <3>1, <3>2
  <2> QED  BY <1>6, <2>2, <2>3, <2>4 DEF Produce
<1>7. ASSUME Unblock(e) \/ BlockTimesOut(e) PROVE Copies(x)' <= Copies(x)
  <2>1. Carriers(x)' = Carriers(x) /\ InDrains(x)' = InDrains(x) /\ Blocked(x) = Blocked(x)' + one
    BY <1>4, <1>7, CopiesStill DEF Unblock, BlockTimesOut
  <2>2. CASE Unblock(e)
    <3>1. queue' = Append(queue, e) /\ Occurrences(x, buffer)' = Occurrences(x, buffer)
      BY <2>2, CopiesStill DEF Unblock
    <3>2. Occurrences(x, queue)' = Occurrences(x, queue) + one
      BY <1>3, <3>1
    <3>3. Occurrences(x, buffer)' = Occurrences(x, buffer)
      BY <3>1
    <3> HIDE DEF one
    <3> QED  BY <1>n, <1>1, <2>1, <3>2, <3>3
  <2>3. CASE BlockTimesOut(e)
    <3>1. Spill(<<e>>) /\ Occurrences(x, queue)' = Occurrences(x, queue)
      BY <2>3, CopiesStill DEF BlockTimesOut
    <3>2. Occurrences(x, buffer)' <= Occurrences(x, buffer) + one
      BY <1>2, <3>1
    <3>3. Occurrences(x, queue)' = Occurrences(x, queue)
      BY <3>1
    <3> HIDE DEF one
    <3> QED  BY <1>n, <1>1, <2>1, <3>2, <3>3
  <2> QED  BY <1>7, <2>2, <2>3
<1>8. ASSUME CancelProducer(e) PROVE Copies(x)' = Copies(x) - one
  <2>1. /\ Carriers(x)' = Carriers(x) /\ InDrains(x)' = InDrains(x) /\ Blocked(x) = Blocked(x)' + one
        /\ Occurrences(x, queue)' = Occurrences(x, queue)
        /\ Occurrences(x, buffer)' = Occurrences(x, buffer)
    BY <1>4, <1>8, CopiesStill DEF CancelProducer
  <2> HIDE DEF one
  <2> QED  BY <1>n, <1>1, <2>1
<1> QED  BY <1>6, <1>7, <1>8

(* The poller adds the copies of the batches it gives up. *)
LEMMA PollerCopies ==
  ASSUME RegistryTypes, SinkTypes, CopiesAddUp, CopiesAddUp', PollerStep
  PROVE  \E es \in Seq(Events) :
           /\ \A x \in Events : Copies(x)' <= Copies(x) + Occurrences(x, es)
           /\ (es = <<>> /\ UNCHANGED <<accepted, again>>) \/ Accept(es)
<1> USE Groups
<1>1. \A x \in Events : /\ Carriers(x)' = Carriers(x) /\ InDrains(x)' = InDrains(x)
                        /\ Blocked(x)' = Blocked(x) /\ Occurrences(x, queue)' = Occurrences(x, queue)
  BY CopiesStill DEF PollerStep, BatchStart, SendBatch, Connect, BatchReplies, BatchFails,
                     CancelPoller
<1>2. poller.batch \in Seq(Events) /\ Batches \subseteq Seq(Events)
  BY DispatchAssumption DEF DispatchAssumption, RegistryTypes, BatchType
<1>3. \/ UNCHANGED buffer /\ UNCHANGED <<accepted, again>>
      \/ \E es \in Seq(Events) : Spill(es) /\ Accept(es)
  BY <1>2 DEF PollerStep, BatchStart, SendBatch, BatchReplies, BatchFails, CancelPoller
<1>4. CASE UNCHANGED buffer /\ UNCHANGED <<accepted, again>>
  <2>1. ASSUME NEW x \in Events PROVE Copies(x)' <= Copies(x) + Occurrences(x, <<>>)
    <3>1. Occurrences(x, buffer)' = Occurrences(x, buffer)
      BY <1>4, CopiesStill
    <3>2. Occurrences(x, <<>>) = 0
      BY FS_EmptySet DEF Occurrences
    <3> QED  BY <1>1, <3>1, <3>2 DEF CopiesAddUp
  <2>2. <<>> \in Seq(Events)
    OBVIOUS
  <2> QED  BY <1>4, <2>1, <2>2
<1>5. ASSUME NEW es \in Seq(Events), Spill(es), Accept(es)
      PROVE  \A x \in Events : Copies(x)' <= Copies(x) + Occurrences(x, es)
  <2> SUFFICES ASSUME NEW x \in Events PROVE Copies(x)' <= Copies(x) + Occurrences(x, es)
    OBVIOUS
  <2>1. Occurrences(x, buffer') <= Occurrences(x, buffer) + Occurrences(x, es)
    BY <1>5, SpillCount
  <2>2. Occurrences(x, es) \in Nat
    BY OccurrencesType
  <2>3. /\ Carriers(x) \in Nat /\ Blocked(x) \in Nat /\ Occurrences(x, queue) \in Nat
        /\ Occurrences(x, buffer) \in Nat /\ InDrains(x) \in Nat
        /\ Occurrences(x, buffer)' \in Nat
        /\ Copies(x) = Carriers(x) + Blocked(x) + Occurrences(x, queue) + Occurrences(x, buffer)
                         + InDrains(x)
        /\ Copies(x)' = Carriers(x)' + Blocked(x)' + Occurrences(x, queue)'
                          + Occurrences(x, buffer)' + InDrains(x)'
    BY DEF CopiesAddUp
  <2>4. /\ Carriers(x)' = Carriers(x) /\ InDrains(x)' = InDrains(x)
        /\ Blocked(x)' = Blocked(x) /\ Occurrences(x, queue)' = Occurrences(x, queue)
    BY <1>1
  <2> QED  BY <2>1, <2>2, <2>3, <2>4
<1> QED  BY <1>3, <1>4, <1>5

(* A drain holds what it took from the buffer, or gives it back. *)
LEMMA DrainCopies ==
  ASSUME RegistryTypes, SinkTypes, Idle, CopiesAddUp, CopiesAddUp', SinkStep \/ ShutdownStep,
         NEW e \in Events
  PROVE  Copies(e)' <= Copies(e)
<1> USE Groups
<1> DEFINE full == [active |-> TRUE, left |-> buffer, failed |-> <<>>]
<1>0. /\ waiting' = waiting /\ worker' = worker
      /\ drains \in [Drains -> DrainType] /\ buffer \in Seq(Events) /\ queue \in Seq(Items)
      /\ "background" \in Drains /\ "final" \in Drains /\ DOMAIN drains = Drains
  BY DEF SinkStep, BeginDrain, FinishDrain, FinishLastDrain, EndDrain, DrainEvent,
         ShutdownStep, Disable, Flush, PutSentinel, CancelWorkers, CloseSink, LastDrainTimesOut,
         FinishClose, SinkTypes, RegistryTypes, Drains
<1>1. Carriers(e)' = Carriers(e) /\ Blocked(e)' = Blocked(e)
  BY <1>0, CopiesStill
<1>2. SUFFICES Occurrences(e, queue)' + Occurrences(e, buffer)' + InDrains(e)'
                 <= Occurrences(e, queue) + Occurrences(e, buffer) + InDrains(e)
  BY <1>1 DEF CopiesAddUp
<1>3. /\ Occurrences(e, queue) \in Nat /\ Occurrences(e, buffer) \in Nat /\ InDrains(e) \in Nat
      /\ Occurrences(e, queue)' \in Nat /\ Occurrences(e, buffer)' \in Nat /\ InDrains(e)' \in Nat
      /\ \A d \in Drains : InDrain(d, e) \in Nat
  BY DEF CopiesAddUp
<1>4. Occurrences(e, <<>>) = 0
  BY FS_EmptySet DEF Occurrences
<1>5. ASSUME UNCHANGED <<buffer, drains>>, UNCHANGED queue \/ queue' = Append(queue, Sentinel)
      PROVE  Occurrences(e, queue)' + Occurrences(e, buffer)' + InDrains(e)'
               <= Occurrences(e, queue) + Occurrences(e, buffer) + InDrains(e)
  <2>1. Occurrences(e, buffer)' = Occurrences(e, buffer) /\ InDrains(e)' = InDrains(e)
    BY <1>5, CopiesStill
  <2>2. Occurrences(e, queue)' = Occurrences(e, queue)
    <3>1. Sentinel \in Items /\ Sentinel # e
      BY DispatchAssumption DEF Items, DispatchAssumption
    <3>2. Occurrences(e, Append(queue, Sentinel)) = Occurrences(e, queue) + 0
      BY <1>0, <3>1, OccurrencesAppend
    <3>3. CASE queue' = queue
      BY <3>3, CopiesStill
    <3>4. CASE queue' = Append(queue, Sentinel)
      BY <1>3, <3>2, <3>4
    <3> QED  BY <1>5, <3>3, <3>4
  <2> QED  BY <1>3, <2>1, <2>2
<1>6. ASSUME NEW d \in Drains, drains' = [drains EXCEPT ![d] = full], buffer' = <<>>, queue' = queue
      PROVE  Occurrences(e, queue)' + Occurrences(e, buffer)' + InDrains(e)'
               <= Occurrences(e, queue) + Occurrences(e, buffer) + InDrains(e)
  <2>1. /\ \A x \in Drains \ {d} : drains'[x] = drains[x]
        /\ drains'[d].left = buffer /\ drains'[d].failed = <<>>
    BY <1>0, <1>6
  <2>2. InDrains(e)' = InDrains(e) - InDrain(d, e) + InDrain(d, e)'
    BY <2>1, DrainCount
  <2>3. InDrain(d, e)' = Occurrences(e, buffer)
    BY <1>3, <1>4, <2>1 DEF InDrain
  <2>4. Occurrences(e, buffer)' = 0 /\ Occurrences(e, queue)' = Occurrences(e, queue)
    BY <1>4, <1>6
  <2> QED  BY <1>3, <2>2, <2>3, <2>4
<1>7. ASSUME NEW d \in Drains, drains' = [drains EXCEPT ![d] = NoDrain], queue' = queue,
             buffer' = buffer \/ (drains[d].left = <<>> /\ Spill(drains[d].failed))
      PROVE  Occurrences(e, queue)' + Occurrences(e, buffer)' + InDrains(e)'
               <= Occurrences(e, queue) + Occurrences(e, buffer) + InDrains(e)
  <2>1. /\ \A x \in Drains \ {d} : drains'[x] = drains[x]
        /\ drains'[d].left = <<>> /\ drains'[d].failed = <<>>
    BY <1>0, <1>7 DEF NoDrain
  <2>2. InDrains(e)' = InDrains(e) - InDrain(d, e) + 0
    <3>1. InDrain(d, e)' = 0
      BY <1>4, <2>1 DEF InDrain
    <3> QED  BY <2>1, <3>1, DrainCount
  <2>3. Occurrences(e, queue)' = Occurrences(e, queue)
    BY <1>7, CopiesStill
  <2>4. Occurrences(e, buffer)' <= Occurrences(e, buffer) + InDrain(d, e)
    <3>1. CASE buffer' = buffer
      BY <1>3, <3>1, CopiesStill
    <3>2. CASE drains[d].left = <<>> /\ Spill(drains[d].failed)
      <4>1. drains[d].failed \in Seq(Events)
        BY <1>0 DEF DrainType
      <4>2. Occurrences(e, buffer') <= Occurrences(e, buffer) + Occurrences(e, drains[d].failed)
        BY <3>2, <4>1, SpillCount
      <4>3. Occurrences(e, drains[d].failed) \in Nat
        BY <4>1, OccurrencesType
      <4>4. InDrain(d, e) = Occurrences(e, drains[d].failed)
        BY <1>4, <3>2, <4>3 DEF InDrain
      <4> QED  BY <4>2, <4>4
    <3> QED  BY <1>7, <3>1, <3>2
  <2> QED  BY <1>3, <2>1, <2>2, <2>3, <2>4
<1>8. CASE SinkStep
  <2>1. CASE BeginDrain
    BY <1>0, <1>5, <1>6, <2>1 DEF BeginDrain
  <2>2. CASE FinishDrain \/ FinishLastDrain
    BY <1>0, <1>7, <2>2 DEF FinishDrain, FinishLastDrain, EndDrain
  <2>3. ASSUME NEW d \in Drains, DrainEvent(d)
        PROVE  Occurrences(e, queue)' + Occurrences(e, buffer)' + InDrains(e)'
                 <= Occurrences(e, queue) + Occurrences(e, buffer) + InDrains(e)
    <3> DEFINE x == Head(drains[d].left)
               one == IF x = e THEN 1 ELSE 0
    <3>0. drains[d] \in DrainType /\ drains[d].left # <<>> /\ queue' = queue /\ buffer' = buffer
      BY <1>0, <2>3 DEF DrainEvent
    <3>1. drains[d].left \in Seq(Events) /\ drains[d].failed \in Seq(Events)
      BY <3>0 DEF DrainType
    <3>2. x \in Events /\ Tail(drains[d].left) \in Seq(Events) /\ Append(drains[d].failed, x) \in Seq(Events)
      BY <3>0, <3>1
    <3>3. /\ Occurrences(e, drains[d].left) = Occurrences(e, Tail(drains[d].left)) + one
          /\ Occurrences(e, Append(drains[d].failed, x)) = Occurrences(e, drains[d].failed) + one
      BY <3>0, <3>1, <3>2, OccurrencesTail, OccurrencesAppend
    <3>4. /\ \A y \in Drains \ {d} : drains'[y] = drains[y]
          /\ drains'[d].left = Tail(drains[d].left)
          /\ \/ drains'[d].failed = drains[d].failed
             \/ drains'[d].failed = Append(drains[d].failed, x)
      BY <1>0, <2>3, <3>0 DEF DrainEvent, DrainType
    <3>5. InDrains(e)' = InDrains(e) - InDrain(d, e) + InDrain(d, e)'
      BY <3>4, DrainCount
    <3>6. /\ Occurrences(e, Tail(drains[d].left)) \in Nat /\ Occurrences(e, drains[d].failed) \in Nat
          /\ one \in Nat
      BY <3>1, <3>2, OccurrencesType
    <3>7. InDrain(d, e) = Occurrences(e, Tail(drains[d].left)) + one + Occurrences(e, drains[d].failed)
      BY <3>3 DEF InDrain
    <3>8. InDrain(d, e)' <= InDrain(d, e)
      <4>1. InDrain(d, e)' = Occurrences(e, Tail(drains[d].left)) + Occurrences(e, drains'[d].failed)
        BY <3>4 DEF InDrain
      <4> HIDE DEF one, x
      <4>2. CASE drains'[d].failed = drains[d].failed
        BY <3>6, <3>7, <4>1, <4>2
      <4>3. CASE drains'[d].failed = Append(drains[d].failed, x)
        BY <3>3, <3>6, <3>7, <4>1, <4>3
      <4> QED  BY <3>4, <4>2, <4>3
    <3>9. Occurrences(e, queue)' = Occurrences(e, queue) /\ Occurrences(e, buffer)' = Occurrences(e, buffer)
      BY <3>0, CopiesStill
    <3>10. InDrain(d, e) \in Nat /\ InDrain(d, e)' \in Nat
      BY DEF CopiesAddUp
    <3> QED  BY <1>3, <3>5, <3>8, <3>9, <3>10
  <2> QED  BY <1>0, <1>8, <2>1, <2>2, <2>3 DEF SinkStep
<1>9. CASE ShutdownStep
  <2>1. CASE Disable \/ Flush \/ CancelWorkers \/ PutSentinel
    BY <1>5, <2>1 DEF Disable, Flush, CancelWorkers, PutSentinel
  <2>2. CASE CloseSink
    BY <1>0, <1>5, <1>6, <2>2 DEF CloseSink
  <2>3. CASE LastDrainTimesOut \/ FinishClose
    <3>1. /\ queue' = queue /\ buffer' = buffer
          /\ \/ drains' = [drains EXCEPT !["final"] = NoDrain]
             \/ drains' = [drains EXCEPT !["background"] = NoDrain]
      BY <2>3 DEF LastDrainTimesOut, FinishClose, CutDrain
    <3>2. CASE drains' = [drains EXCEPT !["final"] = NoDrain]
      BY <1>0, <1>7, <3>1, <3>2
    <3>3. CASE drains' = [drains EXCEPT !["background"] = NoDrain]
      BY <1>0, <1>7, <3>1, <3>3
    <3> QED  BY <3>1, <3>2, <3>3
  <2> QED  BY <1>9, <2>1, <2>2, <2>3 DEF ShutdownStep
<1> QED  BY <1>8, <1>9

(* An event the registry never took charge of is nowhere, and one it took   *)
(* charge of once has one copy at most.                                      *)
Single ==
  \A e \in Events : /\ e \notin accepted => Copies(e) = 0
                    /\ e \notin again => Copies(e) <= 1

LEMMA AcceptedCopies ==
  ASSUME SinkTypes, CopiesAddUp, CopiesAddUp', Single, NEW es \in Seq(Events), Accept(es),
         \A x \in Events : Copies(x)' <= Copies(x) + Occurrences(x, es)
  PROVE  Single'
<1> SUFFICES ASSUME NEW x \in Events
             PROVE  /\ x \notin accepted' => Copies(x)' = 0
                    /\ x \notin again' => Copies(x)' <= 1
  BY DEF Single
<1>0. (x \notin accepted => Copies(x) = 0) /\ (x \notin again => Copies(x) <= 1)
  BY DEF Single
<1>1. Copies(x) \in Nat /\ Copies(x)' \in Nat /\ Occurrences(x, es) \in Nat
  <2>1. Copies(x) \in Nat /\ Copies(x)' \in Nat
    BY DEF CopiesAddUp
  <2> QED  BY <2>1, OccurrencesType
<1>2. x \notin ElementsOf(es) => Occurrences(x, es) = 0
  BY OccurrencesNone
<1>3. x \notin Repeated(es) => Occurrences(x, es) <= 1
  BY <1>1, <1>2 DEF Repeated
<1>4. /\ accepted' = accepted \union ElementsOf(es)
      /\ again' = again \union (accepted \intersect ElementsOf(es)) \union Repeated(es)
  BY DEF Accept
<1>5. Copies(x)' <= Copies(x) + Occurrences(x, es)
  OBVIOUS
<1>6. ASSUME x \notin accepted' PROVE Copies(x)' = 0
  <2>1. Copies(x) = 0 /\ Occurrences(x, es) = 0
    BY <1>0, <1>2, <1>4, <1>6
  <2> QED  BY <1>1, <1>5, <2>1
<1>7. ASSUME x \notin again' PROVE Copies(x)' <= 1
  <2>1. CASE x \notin accepted
    <3>1. Copies(x) = 0 /\ Occurrences(x, es) <= 1
      BY <1>0, <1>3, <1>4, <1>7, <2>1
    <3> QED  BY <1>1, <1>5, <3>1
  <2>2. CASE x \in accepted
    <3>1. Copies(x) <= 1 /\ Occurrences(x, es) = 0
      BY <1>0, <1>2, <1>4, <1>7, <2>2
    <3> QED  BY <1>1, <1>5, <3>1
  <2> QED  BY <2>1, <2>2
<1> QED  BY <1>6, <1>7

LEMMA SingleStep ==
  ASSUME IInv, DispatchTypes', Single, [Next]_vars PROVE Single'
<1> USE Groups
<1>1. RegistryTypes /\ SinkTypes /\ Idle /\ CopiesAddUp /\ CopiesAddUp'
  <2>1. RegistryTypes' /\ SinkTypes'
    BY TwoTypes, PTL
  <2>2. RegistryTypes' /\ SinkTypes' => CopiesAddUp'
    BY CopiesSum, PTL
  <2> QED  BY <2>1, <2>2, TwoTypes, CopiesSum DEF IInv
<1>2. \A x \in Events : Copies(x) \in Nat /\ Copies(x)' \in Nat
  BY <1>1 DEF CopiesAddUp
<1>3. ASSUME UNCHANGED <<accepted, again>>, \A x \in Events : Copies(x)' <= Copies(x)
      PROVE  Single'
  BY <1>2, <1>3 DEF Single
<1>4. ASSUME NEW e \in Singles, ProducerStep(e) PROVE Single'
  <2>1. CASE Produce(e)
    <3>1. <<e>> \in Seq(Events) /\ Accept(<<e>>)
      BY <2>1, DispatchAssumption DEF Produce, DispatchAssumption
    <3>2. \A x \in Events : Copies(x)' <= Copies(x) + Occurrences(x, <<e>>)
      BY <1>1, <2>1, ProducerCopies, OccurrencesOne
    <3> QED  BY <1>1, <3>1, <3>2, AcceptedCopies
  <2>2. CASE Unblock(e) \/ BlockTimesOut(e)
    <3>1. \A x \in Events : Copies(x)' <= Copies(x)
      BY <1>1, <2>2, ProducerCopies
    <3> QED  BY <1>3, <2>2, <3>1 DEF Unblock, BlockTimesOut
  <2>3. CASE CancelProducer(e)
    <3>1. \A x \in Events : Copies(x)' = Copies(x) - (IF e = x THEN 1 ELSE 0)
      BY <1>1, <2>3, ProducerCopies
    <3>2. again' = again /\ accepted' = IF e \in again THEN accepted ELSE accepted \ {e}
      BY <2>3 DEF CancelProducer
    <3> SUFFICES ASSUME NEW x \in Events
                 PROVE  /\ x \notin accepted' => Copies(x)' = 0
                        /\ x \notin again' => Copies(x)' <= 1
      BY DEF Single
    <3>0. /\ x \notin accepted => Copies(x) = 0
          /\ x \notin again => Copies(x) <= 1
          /\ Copies(x) \in Nat /\ Copies(x)' \in Nat
          /\ Copies(x)' = Copies(x) - (IF e = x THEN 1 ELSE 0)
      BY <1>2, <3>1 DEF Single
    <3>3. CASE x = e
      BY <3>0, <3>2, <3>3
    <3>4. CASE x # e
      BY <3>0, <3>2, <3>4
    <3> QED  BY <3>3, <3>4
  <2> QED  BY <1>4, <2>1, <2>2, <2>3 DEF ProducerStep
<1>5. ASSUME NEW w \in Workers, WorkerStep(w) PROVE Single'
  <2>1. \A x \in Events : Copies(x)' <= Copies(x)
    BY <1>1, <1>5, WorkerCopies
  <2>2. UNCHANGED <<accepted, again>>
    BY <1>5 DEF WorkerStep, Take, StopWorker, SendEvent, XaddSucceeds, RetryXadd, GiveUp,
                XaddGivesUp, CancelInFlight, CancelIdle
  <2> QED  BY <1>3, <2>1, <2>2
<1>6. CASE PollerStep
  <2>1. PICK es \in Seq(Events) :
          /\ \A x \in Events : Copies(x)' <= Copies(x) + Occurrences(x, es)
          /\ (es = <<>> /\ UNCHANGED <<accepted, again>>) \/ Accept(es)
    BY <1>1, <1>6, PollerCopies
  <2>2. CASE es = <<>> /\ UNCHANGED <<accepted, again>>
    <3>1. ASSUME NEW x \in Events PROVE Copies(x)' <= Copies(x)
      <4>1. Occurrences(x, es) = 0
        BY <2>2, FS_EmptySet DEF Occurrences
      <4> QED  BY <1>2, <2>1, <4>1
    <3> QED  BY <1>3, <2>2, <3>1
  <2>3. CASE Accept(es)
    BY <1>1, <2>1, <2>3, AcceptedCopies
  <2> QED  BY <2>1, <2>2, <2>3
<1>7. CASE SinkStep \/ ShutdownStep
  <2>1. \A x \in Events : Copies(x)' <= Copies(x)
    BY <1>1, <1>7, DrainCopies
  <2>2. UNCHANGED <<accepted, again>>
    BY <1>7 DEF SinkStep, BeginDrain, FinishDrain, FinishLastDrain, EndDrain, DrainEvent,
                ShutdownStep, Disable, Flush, PutSentinel, CancelWorkers, CloseSink,
                LastDrainTimesOut, FinishClose
  <2> QED  BY <1>3, <2>1, <2>2
<1>8. CASE RedisDown \/ RedisUp \/ RecoveryWindowElapses \/ UNCHANGED vars
  <2>1. UNCHANGED <<worker, waiting, queue, buffer, drains, accepted, again>>
    BY <1>8 DEF RedisDown, RedisUp, RecoveryWindowElapses, vars
  <2>2. ASSUME NEW x \in Events PROVE Copies(x)' <= Copies(x)
    BY <1>1, <1>2, <2>1, CopiesStill DEF CopiesAddUp
  <2> QED  BY <1>3, <2>1, <2>2
<1> QED  BY <1>4, <1>5, <1>6, <1>7, <1>8 DEF Next

-----------------------------------------------------------------------------
(* The theorems *)

LEMMA InitIInv == Init => IInv
<1> SUFFICES ASSUME Init PROVE IInv
  OBVIOUS
<1>1. RegistryTypes /\ SinkTypes
  <2>1. Cardinality(Workers) \in Nat
    BY DispatchAssumption, FS_CardinalityType DEF DispatchAssumption
  <2>2. <<>> \in Seq(Items) /\ <<>> \in Seq(Events) /\ Len(<<>>) = 0
    OBVIOUS
  <2>3. QueueSize \in Nat /\ BufferSize \in Nat /\ MaxCalls \in Nat /\ MaxFaults \in Nat
    BY DispatchAssumption DEF DispatchAssumption
  <2>4. RegistryTypes
    <3>1. worker \in [Workers -> WorkerType] /\ poller \in BatchType
      BY Records DEF Init
    <3>2. queue \in Seq(Items) /\ Len(queue) <= QueueSize
      BY <2>2, <2>3 DEF Init
    <3>3. phase = "running" /\ keys \subseteq Events /\ waiting \subseteq Events
      BY DEF Init
    <3>4. stops \in 0 .. Cardinality(Workers) /\ calls \in 0 .. MaxCalls
      BY <2>1, <2>3 DEF Init
    <3>5. cancelled \in BOOLEAN
      BY DEF Init
    <3> QED  BY <3>1, <3>2, <3>3, <3>4, <3>5 DEF RegistryTypes
  <2>5. SinkTypes
    <3>1. drains \in [Drains -> DrainType]
      BY Records DEF Init, Drains
    <3>2. buffer \in Seq(Events) /\ Len(buffer) <= BufferSize
      BY <2>2, <2>3 DEF Init
    <3>3. /\ written \subseteq Events /\ onClient \subseteq Callers \union Drains
          /\ evicted \subseteq Events /\ accepted \subseteq Events /\ again \subseteq accepted
          /\ confirmed \subseteq Events /\ cut \subseteq Events
      BY DEF Init
    <3>4. drainTasks \in Nat /\ faults \in 0 .. MaxFaults
      BY <2>3 DEF Init
    <3>5. up \in BOOLEAN /\ connected \in BOOLEAN /\ everReset \in BOOLEAN
      BY DEF Init
    <3> QED  BY <3>1, <3>2, <3>3, <3>4, <3>5 DEF SinkTypes
  <2> QED  BY <2>4, <2>5
<1>2. Idle
  BY Records DEF Init, Idle, NoDrain
<1>3. SentinelsLast /\ Kept
  BY Records, Nothing DEF Init, SentinelsLast, Kept
<1> QED  BY <1>1, <1>2, <1>3, TwoTypes DEF IInv

(* The inductive invariant of the dispatch: what each task holds, where the *)
(* sentinels of the shutdown stand, and where an accepted event is.         *)
THEOREM Invariance == Spec => []IInv
<1>1. IInv /\ [Next]_vars => IInv'
  BY TypesStep, IdleStep, SentinelsStep, KeptStep DEF IInv
<1> QED  BY <1>1, InitIInv, PTL DEF Spec

(* Queue, buffer, client and drains keep their types and their limits, and  *)
(* the breaker its own, for any number of workers.                          *)
THEOREM TypeCorrect == Spec => []TypeOK
<1>1. BP!ThresholdsAssumption
  BY DispatchAssumption DEF DispatchAssumption, BP!ThresholdsAssumption
<1>2. BP!Spec => []BP!TypeOK
  BY <1>1, BP!TypeCorrect
<1>3. BP!TypeOK => B!TypeOK
  BY DEF B!TypeOK, BP!TypeOK
<1>4. IInv => DispatchTypes
  BY DEF IInv
<1>5. B!TypeOK /\ DispatchTypes => TypeOK
  BY DEF TypeOK
<1> QED  BY <1>2, <1>3, <1>4, <1>5, Invariance, SameBreaker, BreakerAsSpecified, PTL

(* Every event publish_all or a failed batch took charge of is in the       *)
(* stream, evicted, cut off by close(), or held where the code still looks  *)
(* for it: the queue is empty of events once a graceful shutdown is over.   *)
THEOREM NothingDropped == Spec => []EventsKept
<1>1. IInv => EventsKept
  <2> SUFFICES ASSUME IInv, NEW e \in accepted PROVE e \in Settled \union InProcess
    BY DEF EventsKept
  <2>1. e \in Events /\ e # Sentinel /\ SinkTypes
    BY TwoTypes, DispatchAssumption DEF IInv, SinkTypes, DispatchAssumption
  <2>2. e \in Elsewhere \/ e \in waiting
    BY DEF IInv, Kept
  <2>3. CASE e \in ElementsOf(queue) /\ phase = "closed" /\ ~cancelled
    <3>1. OnlySentinels
      BY <2>3, DispatchAssumption DEF IInv, SentinelsLast, DispatchAssumption
    <3> QED  BY <2>1, <2>3, <3>1 DEF OnlySentinels, ElementsOf
  <2> QED  BY <2>2, <2>3 DEF InProcess, Elsewhere, Carried, Draining
<1> QED  BY <1>1, Invariance, PTL

LEMMA InitSingle == Init => Single
<1> SUFFICES ASSUME Init, NEW e \in Events PROVE Copies(e) = 0
  BY DEF Single
<1>1. Occurrences(e, <<>>) = 0
  BY FS_EmptySet DEF Occurrences
<1>2. RegistryTypes /\ SinkTypes /\ CopiesAddUp
  BY InitIInv, TwoTypes, CopiesSum DEF IInv
<1>3. Carriers(e) = 0
  <2>1. {w \in Workers : worker[w].event = e} = {}
    BY DispatchAssumption DEF Init, Resting, DispatchAssumption
  <2> QED  BY <2>1, FS_EmptySet DEF Carriers
<1>4. Blocked(e) = 0 /\ Occurrences(e, queue) = 0 /\ Occurrences(e, buffer) = 0
  BY <1>1 DEF Init, Blocked
<1>5. InDrains(e) = 0
  BY <1>1 DEF Init, InDrains, InDrain, NoDrain
<1> QED  BY <1>2, <1>3, <1>4, <1>5 DEF CopiesAddUp

(* An event the registry took charge of once is in one place at a time: at  *)
(* one worker, behind one producer, or once in the queue, the buffer and    *)
(* the drains together.  No failure, timeout, cancellation or shutdown      *)
(* buffers it twice, so that no drain replays it twice.                     *)
THEOREM BufferedOnce == Spec => []OneCopy
<1>1. Init => IInv /\ Single
  BY InitIInv, InitSingle
<1>2. IInv /\ Single /\ [Next]_vars => (IInv /\ Single)'
  <2>1. ASSUME IInv, Single, [Next]_vars PROVE IInv' /\ Single'
    <3>1. IInv' /\ DispatchTypes'
      BY <2>1, TypesStep, IdleStep, SentinelsStep, KeptStep DEF IInv
    <3> QED  BY <2>1, <3>1, SingleStep
  <2> QED  BY <2>1
<1>3. Single => OneCopy
  BY DEF Single, OneCopy
<1> QED  BY <1>1, <1>2, <1>3, PTL DEF Spec
=============================================================================
