------------------------- MODULE DurableOutboxProofs -------------------------
(***************************************************************************)
(* Theorems about DurableOutbox, for every set of events, every batch and  *)
(* every limit: no producer is told of an event that can be lost, no       *)
(* caller of publish is forgotten, a clean close drops no                  *)
(* acknowledgement, the sink implements OutboxPromise, and what becomes    *)
(* accepted in a step is one transaction, so that a flow record and its    *)
(* watch copy are accepted together.                                       *)
(*                                                                         *)
(* The argument rests on IInv: what a drain works on (batch, sent, stored, *)
(* acked, failed) are rows of its own lane that are still in the table, a  *)
(* row is in at most one of the four outcomes, and an answered row is at   *)
(* the broker.  Settlement, the only step that deletes rows, then deletes  *)
(* rows the broker holds.                                                  *)
(***************************************************************************)
EXTENDS DurableOutbox, WellFoundedInduction, TLAPS

-----------------------------------------------------------------------------
(* The inductive invariant *)

(* A drain publishes exactly while it holds rows. *)
PublishersHoldRows == \A l \in Lanes : drain[l] = "publishing" <=> batch[l] # {}

(* What a lane's drain holds belongs to that lane. *)
BatchInLane == \A l \in Lanes : \A r \in batch[l] : Lane(r) = l

(* Every row being published is in the batch of its lane's drain. *)
OutcomesInBatch ==
  \A r \in sent \union stored \union acked \union failed : r \in batch[Lane(r)]

(* A row of a batch has at most one outcome. *)
OutcomesDisjoint ==
  /\ sent \intersect stored = {} /\ sent \intersect acked = {} /\ sent \intersect failed = {}
  /\ stored \intersect acked = {} /\ stored \intersect failed = {}
  /\ acked \intersect failed = {}

(* The broker answers only for what it holds. *)
AnsweredAtBroker == \A r \in stored \union acked : Identity(r.msg) \in Delivered

(* An acknowledged row holds shutdown off until it is settled. *)
AckHoldsShutdown == \A r \in acked : ~settleSafe[Lane(r)]

(* AUTOINCREMENT: sequence numbers identify rows and are never reused. *)
SeqsIdentify ==
  /\ \A r, q \in rows : r.seq = q.seq => r = q
  /\ \A r \in rows : r.seq <= lastSeq

(* A committed transaction left every one of its events accepted. *)
CommittedIsAccepted ==
  txn.phase = "committed" => \A m \in ElementsOf(txn.msgs) : Identity(m) \in Accepted

(* Nothing is admitted without the lock, nor once close has begun. *)
AdmissionHolds ==
  /\ LockFree => txn.kind # "group"
  /\ ~Running => LockFree /\ queue = <<>>

IInv ==
  /\ TypeOK
  /\ PublishersHoldRows
  /\ BatchInLane
  /\ OutcomesInBatch
  /\ OutcomesDisjoint
  /\ AnsweredAtBroker
  /\ AckHoldsShutdown
  /\ SeqsIdentify
  /\ CommittedIsAccepted
  /\ ErrorHasFailedRows
  /\ AdmissionHolds
  /\ CallersCounted
  /\ NothingLost

-----------------------------------------------------------------------------
(* Lemmas about the operators *)

(* Every topic has a lane. *)
LEMMA LaneType == \A t : LaneOf(t) \in Lanes
BY DEF LaneOf, Lanes

NatLess == {p \in Nat \X Nat : p[1] < p[2]}

(* The order of the naturals, as a relation, is well founded. *)
LEMMA NatLessWellFounded == IsWellFoundedOn(NatLess, Nat)
BY NatLessThanWellFounded DEF OpToRel, NatLess

(* A nonempty set of naturals has a least element. *)
LEMMA LeastNatural ==
  ASSUME NEW S \in SUBSET Nat, S # {}
  PROVE  \E n \in S : \A k \in S : n <= k
<1>1. PICK n \in S : \A k \in S : ~ (<<k, n>> \in NatLess)
  BY NatLessWellFounded, WFMin
<1>2. SUFFICES ASSUME NEW k \in S PROVE n <= k
  OBVIOUS
<1>3. k \in Nat /\ n \in Nat
  OBVIOUS
<1>4. ~ (<<k, n>> \in NatLess)
  BY <1>1
<1> QED BY <1>3, <1>4 DEF NatLess

(* Admission of a batch leaves every event of the batch in the table, under *)
(* its own key, and adds only events of the batch: _admit_prepared inserts  *)
(* the first occurrence of every key the table does not hold.               *)
LEMMA AdmitInserts ==
  ASSUME rows \subseteq Row, lastSeq \in Nat, NEW ms \in Seq(Message),
         SeqsIdentify, Admit(ms)
  PROVE  /\ rows \subseteq rows' /\ rows' \subseteq Row /\ lastSeq' \in Nat
         /\ SeqsIdentify'
         /\ \A m \in ElementsOf(ms) : \E r \in rows' : SameKey(r.msg, m)
<1>1. Inserted(ms) \subseteq DOMAIN ms /\ DOMAIN ms = 1..Len(ms) /\ Len(ms) \in Nat
  BY DEF Inserted, Unmatched
<1>2. \A i \in DOMAIN ms : ms[i] \in Message
  BY <1>1
<1>3. rows \subseteq rows' /\ rows' \subseteq Row /\ lastSeq' \in Nat
  BY <1>1, <1>2 DEF Admit, Row
<1>4. SeqsIdentify'
  <2>1. \A r \in rows' : r.seq <= lastSeq'
    BY <1>1 DEF Admit, SeqsIdentify, Row
  <2>2. \A r, q \in rows' : r.seq = q.seq => r = q
    BY <1>1 DEF Admit, SeqsIdentify, Row
  <2> QED BY <2>1, <2>2 DEF SeqsIdentify
<1>5. ASSUME NEW i \in DOMAIN ms
      PROVE  \E r \in rows' : SameKey(r.msg, ms[i])
  <2>1. CASE i \notin Unmatched(ms)
    BY <2>1, <1>3 DEF Unmatched
  <2>2. CASE i \in Unmatched(ms)
    <3> DEFINE S == {j \in 1..i : SameKey(ms[j], ms[i])}
    <3>1. S \in SUBSET Nat /\ i \in S
      BY <1>1 DEF SameKey
    <3>2. PICK j \in S : \A k \in S : j <= k
      BY <3>1, LeastNatural
    <3>3. j \in DOMAIN ms /\ SameKey(ms[j], ms[i])
      BY <1>1
    <3>4. j \in Unmatched(ms)
      BY <2>2, <3>3 DEF Unmatched, SameKey
    <3>5. j \in Inserted(ms)
      <4>1. SUFFICES ASSUME NEW k \in 1..(j - 1), SameKey(ms[k], ms[j]) PROVE FALSE
        BY <3>4 DEF Inserted
      <4>2. k \in S
        BY <1>1, <3>3, <4>1 DEF SameKey
      <4> QED BY <3>1, <3>2, <4>2
    <3>6. [seq |-> lastSeq + j, msg |-> ms[j]] \in rows'
      BY <3>5 DEF Admit
    <3> QED BY <3>3, <3>6
  <2> QED BY <2>1, <2>2
<1> QED BY <1>3, <1>4, <1>5 DEF ElementsOf

(* Flow records and their copies for the watch lane are events. *)
LEMMA WatchCopiesType == ASSUME NEW b \in FlowBatches PROVE WithWatchCopies(b) \in Seq(Message)
<1>1. b \in Seq(Message) /\ "heber:watch" \in Topics
  BY ConstantsAssumption
<1>2. ASSUME NEW m \in Message PROVE WatchCopy(m) \in Message
  BY <1>1 DEF WatchCopy, Message
<1>3. [i \in 1..Len(b) |-> WatchCopy(b[i])] \in Seq(Message)
  BY <1>1, <1>2
<1> QED BY <1>1, <1>3 DEF WithWatchCopies

(* What the broker stores never shrinks, and only a store changes it. *)
LEMMA DeliveredUnchanged == UNCHANGED stream => Delivered' = Delivered
BY DEF Delivered, ElementsOf

(* A stored row's identity is at the broker, and nothing else is new there. *)
LEMMA StoreDelivers ==
  ASSUME IInv, NEW r \in rows, BrokerStore(r)
  PROVE  /\ stream' \in [Lanes -> Seq(Row)]
         /\ Delivered' = Delivered \union {Identity(r.msg)}
<1>1. stream \in [Lanes -> Seq(Row)] /\ r \in Row /\ Lane(r) \in Lanes
  BY LaneType DEF IInv, TypeOK, Lane
<1>2. CASE Identity(r.msg) \in Delivered
  <2>1. stream' = stream
    BY <1>2 DEF BrokerStore
  <2> QED BY <1>1, <1>2, <2>1, DeliveredUnchanged
<1>3. CASE Identity(r.msg) \notin Delivered
  <2>1. stream' = [stream EXCEPT ![Lane(r)] = Append(@, r)]
    BY <1>3 DEF BrokerStore
  <2>2. stream' \in [Lanes -> Seq(Row)]
    BY <1>1, <2>1
  <2>3. ASSUME NEW l \in Lanes
        PROVE  ElementsOf(stream'[l]) =
                 ElementsOf(stream[l]) \union (IF l = Lane(r) THEN {r} ELSE {})
    <3>1. CASE l # Lane(r)
      BY <1>1, <2>1, <3>1 DEF ElementsOf
    <3>2. CASE l = Lane(r)
      <4> DEFINE s == stream[l]
      <4>1. s \in Seq(Row) /\ stream'[l] = Append(s, r)
        BY <1>1, <2>1, <3>2
      <4>2. /\ DOMAIN Append(s, r) = 1..(Len(s) + 1) /\ DOMAIN s = 1..Len(s) /\ Len(s) \in Nat
            /\ \A i \in 1..Len(s) : Append(s, r)[i] = s[i]
            /\ Append(s, r)[Len(s) + 1] = r
        BY <1>1, <4>1
      <4> HIDE DEF s
      <4>3. {Append(s, r)[i] : i \in 1..(Len(s) + 1)} = {s[i] : i \in 1..Len(s)} \union {r}
        BY <4>2
      <4>4. ElementsOf(Append(s, r)) = ElementsOf(s) \union {r}
        BY <4>2, <4>3 DEF ElementsOf
      <4> QED BY <3>2, <4>1, <4>4 DEF s
    <3> QED BY <3>1, <3>2
  <2> QED BY <1>1, <2>2, <2>3 DEF Delivered
<1> QED BY <1>2, <1>3

(* Steps that touch neither the table, nor the broker, nor what the drains  *)
(* hold, keep the invariant if they keep the types, what is committed, and  *)
(* which drains publish.                                                    *)
Quiet == UNCHANGED <<durable, settleSafe, failedSeqs, degraded, batch, publishing, told>>

LEMMA QuietSteps ==
  ASSUME IInv, Quiet, TypeOK', PublishersHoldRows', CommittedIsAccepted',
         CallersCounted', AdmissionHolds'
  PROVE  IInv'
BY DeliveredUnchanged
   DEF IInv, Quiet, durable, publishing, BatchInLane, OutcomesInBatch, OutcomesDisjoint,
       AnsweredAtBroker, AckHoldsShutdown, SeqsIdentify, ErrorHasFailedRows, NothingLost,
       Accepted, Promised, LaneRows

(* The requests of a group leave the queue, and keep their order. *)
LEMMA GroupLengths ==
  ASSUME queue \in Seq(Message), BeginGroup
  PROVE  /\ txn'.kind = "group" /\ txn'.msgs \in Seq(Message) /\ queue' \in Seq(Message)
         /\ Len(queue) = Len(queue') + Len(txn'.msgs)
<1> DEFINE n == IF Len(queue) < GroupLimit THEN Len(queue) ELSE GroupLimit
<1>1. /\ txn' = [phase |-> "running", kind |-> "group", msgs |-> SubSeq(queue, 1, n)]
      /\ queue' = SubSeq(queue, n + 1, Len(queue))
  BY DEF BeginGroup
<1>2. Len(queue) \in Nat /\ n \in 0..Len(queue)
  <2>1. Len(queue) \in Nat /\ GroupLimit \in Nat \ {0}
    BY ConstantsAssumption
  <2> QED BY <2>1
<1> HIDE DEF n
<1>3. /\ SubSeq(queue, 1, n) \in Seq(Message) /\ Len(SubSeq(queue, 1, n)) = n
      /\ SubSeq(queue, n + 1, Len(queue)) \in Seq(Message)
      /\ Len(SubSeq(queue, n + 1, Len(queue))) = Len(queue) - n
  BY <1>2
<1>4. /\ txn'.kind = "group" /\ txn'.msgs = SubSeq(queue, 1, n)
      /\ Len(txn'.msgs) = n /\ Len(queue') = Len(queue) - n
  BY <1>1, <1>3
<1>5. Len(queue) = Len(queue') + Len(txn'.msgs)
  BY <1>2, <1>4
<1> QED BY <1>1, <1>3, <1>4, <1>5

(* A request leaves the queue into a transaction or with its result, and    *)
(* the callers of a transaction leave it with theirs.                       *)
LEMMA CountedStep ==
  ASSUME TypeOK, AdmissionHolds, CallersCounted, [Next]_vars
  PROVE  AdmissionHolds' /\ CallersCounted' /\ waiting' \in Nat
<1> DEFINE Kept == AdmissionHolds' /\ CallersCounted' /\ waiting' \in Nat
<1> USE DEF AdmissionHolds, CallersCounted, GroupCallers, LockFree, Running
<1>0. /\ queue \in Seq(Message) /\ txn.msgs \in Seq(Message) /\ waiting \in Nat
      /\ Len(queue) \in Nat /\ Len(txn.msgs) \in Nat /\ Len(<<>>) = 0
  <2>1. queue \in Seq(Message) /\ txn.msgs \in Seq(Message) /\ waiting \in Nat
    BY DEF TypeOK
  <2> QED BY <2>1
<1>1. CASE AdmissionStep
  <2>1. ASSUME NEW m \in Singles, Publish(m) PROVE Kept
    <3>1. queue' = Append(queue, m) /\ Len(queue') = Len(queue) + 1
      BY <1>0, <2>1, ConstantsAssumption DEF Publish
    <3> QED BY <1>0, <2>1, <3>1 DEF Publish
  <2>2. ASSUME NEW ms, BeginBatch(ms) PROVE Kept
    BY <1>0, <2>2 DEF BeginBatch
  <2>3. CASE BeginGroup
    <3>1. txn'.phase = "running" /\ waiting' = waiting /\ process' = process
      BY <2>3 DEF BeginGroup, history
    <3> QED BY <1>0, <2>3, <3>1, GroupLengths DEF BeginGroup
  <2>4. CASE CommitTxn
    BY <1>0, <2>4 DEF CommitTxn, TypeOK, history
  <2>5. CASE ReportCommitted \/ RejectTxn
    BY <1>0, <2>5 DEF ReportCommitted, RejectTxn, NoTxn
  <2>6. CASE CancelBatch \/ OrphanEnds
    BY <1>0, <2>6 DEF CancelBatch, OrphanEnds, NoTxn, history
  <2> QED BY <1>1, <2>1, <2>2, <2>3, <2>4, <2>5, <2>6 DEF AdmissionStep
<1>2. CASE UNCHANGED <<process, queue, txn, waiting>>
  BY <1>0, <1>2
<1>3. ASSUME NEW l \in Lanes, LaneStep(l) PROVE Kept
  BY <1>2, <1>3 DEF LaneStep, ClearWake, ReadPending, ReadRaises, WakeUp, Settle, SettleWith,
                    SettleRaises, EndBatch, admitting, history
<1>4. ASSUME NEW r \in rows, RowStep(r) PROVE Kept
  BY <1>2, <1>4 DEF RowStep, Send, BrokerStore, Ack, PublishFails, admitting, history
<1>5. CASE ProcessStep
  <2>1. CASE BeginClose
    BY <1>0, <2>1 DEF BeginClose
  <2>2. CASE CancelDrains \/ CloseTimesOut
    BY <1>0, <2>2 DEF CancelDrains, CloseTimesOut, StopDrains, history
  <2>3. CASE Crash
    BY <1>0, <2>3 DEF Crash, Fresh, NoTxn
  <2>4. CASE Restart
    BY <1>0, <2>4 DEF Restart, Fresh, NoTxn, Alive, history
  <2> QED BY <1>5, <2>1, <2>2, <2>3, <2>4 DEF ProcessStep
<1>6. CASE UNCHANGED vars
  BY <1>2, <1>6 DEF vars, admitting, history
<1> QED BY <1>1, <1>3, <1>4, <1>5, <1>6 DEF Next

-----------------------------------------------------------------------------
(* The invariant is inductive *)

(* An empty table, an empty broker and idle drains satisfy the invariant. *)
THEOREM InitIInv == Init => IInv
<1> SUFFICES ASSUME Init PROVE IInv
  OBVIOUS
<1>1. TypeOK
  <2>1. /\ rows \subseteq Row /\ lastSeq \in Nat
        /\ stream \in [Lanes -> Seq(Row)]
        /\ queue \in Seq(Message) /\ orphan \in Seq(Message)
    BY DEF Init
  <2>2. txn \in [phase: {"none", "running", "committed"}, kind: {"none", "group", "batch"},
                 msgs: Seq(Message)]
    BY DEF Init, NoTxn
  <2>3. /\ drain \in [Lanes -> {"off", "died", "top", "reading", "parked", "publishing"}]
        /\ wake \in [Lanes -> BOOLEAN] /\ settleSafe \in [Lanes -> BOOLEAN]
        /\ failedSeqs \in [Lanes -> SUBSET Nat] /\ degraded \in [Lanes -> BOOLEAN]
        /\ batch \in [Lanes -> SUBSET rows]
    BY DEF Init
  <2>4. calls \in 0..MaxCalls /\ faults \in 0..MaxFaults
    BY ConstantsAssumption DEF Init
  <2> QED BY <2>1, <2>2, <2>3, <2>4 DEF Init, TypeOK
<1>2. Delivered = {}
  BY DEF Init, Delivered, ElementsOf
<1>3. /\ PublishersHoldRows /\ BatchInLane /\ OutcomesInBatch /\ OutcomesDisjoint
      /\ AckHoldsShutdown
  BY DEF Init, PublishersHoldRows, BatchInLane, OutcomesInBatch, OutcomesDisjoint, AckHoldsShutdown
<1>4. AnsweredAtBroker /\ SeqsIdentify /\ CommittedIsAccepted
  BY DEF Init, AnsweredAtBroker, SeqsIdentify, CommittedIsAccepted, NoTxn
<1>5. ErrorHasFailedRows /\ NothingLost
  BY DEF Init, ErrorHasFailedRows, NothingLost, Promised
<1>6. AdmissionHolds /\ CallersCounted
  BY DEF Init, NoTxn, AdmissionHolds, CallersCounted, GroupCallers, LockFree, Running
<1> QED BY <1>1, <1>3, <1>4, <1>5, <1>6 DEF IInv

(* Admission steps. *)
LEMMA AdmissionIInv == IInv /\ AdmissionStep => IInv'
<1> SUFFICES ASSUME IInv, AdmissionStep PROVE IInv'
  OBVIOUS
<1> USE ConstantsAssumption DEF IInv
<1>c. AdmissionHolds' /\ CallersCounted' /\ waiting' \in Nat
  BY CountedStep DEF Next
<1> USE <1>c
<1>1. ASSUME NEW m \in Singles, Publish(m) PROVE IInv'
  <2>1. Quiet /\ PublishersHoldRows' /\ CommittedIsAccepted'
    BY <1>1, DeliveredUnchanged
       DEF Publish, Quiet, draining, PublishersHoldRows, CommittedIsAccepted, Accepted, durable
  <2>2. TypeOK'
    BY <1>1 DEF Publish, TypeOK, Call, durable, draining, publishing
  <2> QED BY <2>1, <2>2, QuietSteps
<1>2. ASSUME NEW ms \in Seq(Message), BeginBatch(ms) PROVE IInv'
  <2>1. Quiet /\ PublishersHoldRows' /\ CommittedIsAccepted'
    BY <1>2 DEF BeginBatch, Quiet, draining, PublishersHoldRows, CommittedIsAccepted
  <2>2. TypeOK'
    BY <1>2 DEF BeginBatch, TypeOK, Call, durable, draining, publishing
  <2> QED BY <2>1, <2>2, QuietSteps
<1>3. ASSUME BeginGroup PROVE IInv'
  <2>1. Quiet /\ PublishersHoldRows' /\ CommittedIsAccepted'
    BY <1>3 DEF BeginGroup, Quiet, draining, PublishersHoldRows, history, CommittedIsAccepted
  <2>2. TypeOK'
    <3>1. /\ txn' \in [phase: {"none", "running", "committed"}, kind: {"none", "group", "batch"},
                       msgs: Seq(Message)]
          /\ queue' \in Seq(Message)
      BY <1>3, GroupLengths DEF BeginGroup, TypeOK
    <3> QED BY <1>3, <3>1 DEF BeginGroup, TypeOK, durable, draining, publishing, history
  <2> QED BY <2>1, <2>2, QuietSteps
<1>4. ASSUME RejectTxn PROVE IInv'
  <2>1. Quiet /\ PublishersHoldRows' /\ CommittedIsAccepted'
    BY <1>4 DEF RejectTxn, Quiet, draining, PublishersHoldRows, CommittedIsAccepted, NoTxn
  <2>2. TypeOK'
    BY <1>4 DEF RejectTxn, TypeOK, Fault, NoTxn, durable, draining, publishing
  <2> QED BY <2>1, <2>2, QuietSteps
<1>5. ASSUME CancelBatch PROVE IInv'
  <2>1. Quiet /\ PublishersHoldRows' /\ CommittedIsAccepted'
    BY <1>5 DEF CancelBatch, Quiet, draining, PublishersHoldRows, CommittedIsAccepted, NoTxn
  <2>2. TypeOK'
    BY <1>5 DEF CancelBatch, TypeOK, Fault, NoTxn, durable, draining, publishing
  <2> QED BY <2>1, <2>2, QuietSteps
<1>6. ASSUME NEW ms \in Seq(Message), Admit(ms),
             UNCHANGED <<stream, drain, settleSafe, failedSeqs, degraded, batch, publishing, told>>,
             TypeOK', CommittedIsAccepted'
      PROVE  IInv'
  <2>1. rows \subseteq rows' /\ SeqsIdentify'
    BY <1>6, AdmitInserts DEF TypeOK
  <2> QED BY <1>6, <2>1, DeliveredUnchanged
          DEF publishing, PublishersHoldRows, BatchInLane, OutcomesInBatch, OutcomesDisjoint, AnsweredAtBroker,
              AckHoldsShutdown, ErrorHasFailedRows, NothingLost, Accepted, Promised,
              LaneRows, SeqsOf
<1>7. ASSUME CommitTxn PROVE IInv'
  <2>1. txn.msgs \in Seq(Message) /\ Admit(txn.msgs)
    BY <1>7 DEF CommitTxn, TypeOK
  <2>2. /\ rows \subseteq rows' /\ rows' \subseteq Row /\ lastSeq' \in Nat
        /\ \A m \in ElementsOf(txn.msgs) : \E r \in rows' : SameKey(r.msg, m)
    BY <2>1, AdmitInserts DEF TypeOK
  <2>3. TypeOK'
    BY <1>7, <2>2 DEF CommitTxn, TypeOK, draining, publishing, history
  <2>4. CommittedIsAccepted'
    BY <1>7, <2>2
       DEF CommitTxn, CommittedIsAccepted, Accepted, SameKey, Identity, TypeOK
  <2> QED BY <1>6, <1>7, <2>1, <2>3, <2>4 DEF CommitTxn, draining, history
<1>8. ASSUME OrphanEnds PROVE IInv'
  <2>1. CASE Admit(orphan)
    <3>1. rows \subseteq rows' /\ rows' \subseteq Row /\ lastSeq' \in Nat
      BY <2>1, AdmitInserts DEF TypeOK
    <3>2. TypeOK'
      BY <1>8, <3>1 DEF OrphanEnds, TypeOK, draining, publishing, history
    <3>3. CommittedIsAccepted'
      BY <1>8, <3>1, DeliveredUnchanged DEF OrphanEnds, CommittedIsAccepted, Accepted
    <3> QED BY <1>6, <1>8, <2>1, <3>2, <3>3 DEF OrphanEnds, draining, history, TypeOK
  <2>2. CASE UNCHANGED <<rows, lastSeq>>
    <3>1. Quiet /\ PublishersHoldRows' /\ CommittedIsAccepted'
      BY <1>8, <2>2, DeliveredUnchanged
         DEF OrphanEnds, Quiet, durable, draining, PublishersHoldRows, history, CommittedIsAccepted, Accepted
    <3>2. TypeOK'
      BY <1>8, <2>2 DEF OrphanEnds, TypeOK, draining, publishing, history
    <3> QED BY <3>1, <3>2, QuietSteps
  <2> QED BY <1>8, <2>1, <2>2 DEF OrphanEnds
<1>9. ASSUME ReportCommitted PROVE IInv'
  <2>1. /\ UNCHANGED <<rows, lastSeq, stream, settleSafe, failedSeqs, degraded, batch, publishing>>
        /\ Delivered' = Delivered
    BY <1>9, DeliveredUnchanged DEF ReportCommitted, durable
  <2>2. TypeOK'
    <3>1. drain' \in [Lanes -> {"off", "died", "top", "reading", "parked", "publishing"}]
          /\ wake' \in [Lanes -> BOOLEAN]
      BY <1>9 DEF ReportCommitted, StartDrain, TypeOK
    <3>2. told' \subseteq Message
      BY <1>9 DEF ReportCommitted, TypeOK, ElementsOf
    <3> QED BY <1>9, <2>1, <3>1, <3>2 DEF ReportCommitted, TypeOK, NoTxn, publishing
  <2>3. NothingLost'
    BY <1>9, <2>1 DEF ReportCommitted, CommittedIsAccepted, NothingLost, Promised, Accepted
  <2>4. CommittedIsAccepted'
    BY <1>9 DEF ReportCommitted, CommittedIsAccepted, NoTxn
  <2>5. PublishersHoldRows'
    BY <1>9, <2>1 DEF ReportCommitted, StartDrain, PublishersHoldRows, TypeOK
  <2> QED BY <2>1, <2>2, <2>3, <2>4, <2>5
          DEF publishing, BatchInLane, OutcomesInBatch, OutcomesDisjoint, AnsweredAtBroker,
              AckHoldsShutdown, SeqsIdentify, ErrorHasFailedRows, LaneRows
<1> QED BY <1>1, <1>2, <1>3, <1>4, <1>5, <1>7, <1>8, <1>9, WatchCopiesType DEF AdmissionStep

(* One iteration of a drain. *)
LEMMA LaneIInv == ASSUME IInv, NEW l \in Lanes, LaneStep(l) PROVE IInv'
<1> USE DEF IInv
<1>c. AdmissionHolds' /\ CallersCounted' /\ waiting' \in Nat
  BY CountedStep DEF Next
<1> USE <1>c
<1>1. ASSUME ClearWake(l) \/ WakeUp(l) \/ ReadRaises(l) PROVE IInv'
  <2>1. Quiet /\ CommittedIsAccepted'
    BY <1>1, DeliveredUnchanged
       DEF ClearWake, WakeUp, ReadRaises, Quiet, admitting, history, durable,
           CommittedIsAccepted, Accepted
  <2>2. PublishersHoldRows'
    BY <1>1, ZenonT(80) DEF ClearWake, WakeUp, ReadRaises, PublishersHoldRows, TypeOK
  <2>3. TypeOK'
    <3>1. /\ drain' \in [Lanes -> {"off", "died", "top", "reading", "parked", "publishing"}]
          /\ wake' \in [Lanes -> BOOLEAN]
      BY <1>1 DEF ClearWake, WakeUp, ReadRaises, TypeOK
    <3>2. calls' \in 0..MaxCalls /\ faults' \in 0..MaxFaults
      BY <1>1, ConstantsAssumption DEF ClearWake, WakeUp, ReadRaises, Fault, history, TypeOK
    <3>3. UNCHANGED admitting
      BY <1>1 DEF ClearWake, WakeUp, ReadRaises
    <3> QED BY <2>1, <3>1, <3>2, <3>3 DEF Quiet, TypeOK, durable, admitting, publishing
  <2> QED BY <2>1, <2>2, <2>3, QuietSteps
<1>2. ASSUME ReadPending(l) PROVE IInv'
  <2>1. /\ UNCHANGED <<durable, admitting, settleSafe, failedSeqs, degraded, publishing, history>>
        /\ batch' = [batch EXCEPT ![l] = Pending(l)]
        /\ Delivered' = Delivered
    BY <1>2, DeliveredUnchanged DEF ReadPending, durable
  <2>2. Pending(l) \subseteq LaneRows(rows, l)
    BY DEF Pending
  <2>3. batch[l] = {}
    BY <1>2 DEF ReadPending, PublishersHoldRows
  <2>4. TypeOK'
    <3>1. drain' \in [Lanes -> {"off", "died", "top", "reading", "parked", "publishing"}]
      BY <1>2 DEF ReadPending, TypeOK
    <3>2. batch' \in [Lanes -> SUBSET rows]
      BY <2>1, <2>2 DEF TypeOK, LaneRows
    <3>3. UNCHANGED wake
      BY <1>2 DEF ReadPending
    <3> QED BY <2>1, <3>1, <3>2, <3>3 DEF TypeOK, durable, admitting, publishing, history
  <2>5. PublishersHoldRows'
    BY <1>2, <2>1 DEF ReadPending, PublishersHoldRows, TypeOK
  <2>6. BatchInLane' /\ OutcomesInBatch'
    BY <2>1, <2>2, <2>3, LaneType
       DEF BatchInLane, OutcomesInBatch, TypeOK, LaneRows, publishing, Lane
  <2> QED BY <2>1, <2>4, <2>5, <2>6
          DEF durable, admitting, publishing, history, OutcomesDisjoint, AnsweredAtBroker,
              AckHoldsShutdown, SeqsIdentify, CommittedIsAccepted, ErrorHasFailedRows,
              NothingLost, Accepted, Promised, LaneRows
<1>3. ASSUME Settle(l) \/ SettleRaises(l) PROVE IInv'
  <2> DEFINE gone == rows \ rows'
  <2>1. /\ Answered(l) /\ EndBatch(l)
        /\ rows' \subseteq rows /\ gone \subseteq batch[l] \intersect acked
    BY <1>3 DEF Settle, SettleWith, SettleRaises
  <2>2. /\ UNCHANGED <<lastSeq, stream, admitting, wake, sent, stored, told, calls>>
        /\ batch' = [batch EXCEPT ![l] = {}] /\ settleSafe' = [settleSafe EXCEPT ![l] = TRUE]
        /\ drain' = [drain EXCEPT ![l] = "top"]
        /\ acked' = acked \ batch[l] /\ failed' = failed \ batch[l]
    BY <2>1 DEF EndBatch
  <2>3. batch[l] \subseteq acked \union failed
    BY <2>1 DEF Answered
  <2>4. Delivered' = Delivered /\ Accepted' = Accepted
    BY <2>1, <2>2, DeliveredUnchanged DEF Accepted, AnsweredAtBroker
  <2>5. ASSUME NEW k \in Lanes, k # l PROVE batch'[k] \subseteq rows'
    BY <2>1, <2>2, <2>5 DEF BatchInLane, TypeOK
  <2>6. sent' \subseteq rows' /\ stored' \subseteq rows' /\ acked' \subseteq rows'
        /\ failed' \subseteq rows'
    BY <2>1, <2>2 DEF OutcomesDisjoint, TypeOK
  <2>7. ErrorHasFailedRows' /\ failedSeqs' \in [Lanes -> SUBSET Nat]
        /\ degraded' \in [Lanes -> BOOLEAN]
    <3>1. CASE Settle(l)
      <4> DEFINE D == SeqsOf(batch[l] \intersect acked)
      <4>1. /\ rows' = rows \ (batch[l] \intersect acked)
            /\ failedSeqs' = [failedSeqs EXCEPT ![l] = @ \ D]
            /\ degraded' = [degraded EXCEPT ![l] = @ /\ failedSeqs'[l] # {}]
        BY <3>1 DEF Settle, SettleWith
      <4>2. /\ failedSeqs' \in [Lanes -> SUBSET Nat] /\ degraded' \in [Lanes -> BOOLEAN]
            /\ failedSeqs'[l] = failedSeqs[l] \ D
            /\ \A k \in Lanes \ {l} : failedSeqs'[k] = failedSeqs[k] /\ degraded'[k] = degraded[k]
        BY <4>1 DEF TypeOK
      <4>3. degraded'[l] <=> failedSeqs'[l] # {}
        BY <4>1, <4>2 DEF TypeOK, ErrorHasFailedRows
      <4>4. failedSeqs'[l] \subseteq SeqsOf(LaneRows(rows', l))
        BY <4>1, <4>2 DEF ErrorHasFailedRows, SeqsOf, LaneRows
      <4>5. ASSUME NEW k \in Lanes, k # l PROVE LaneRows(rows', k) = LaneRows(rows, k)
        BY <4>1, <4>5 DEF BatchInLane, LaneRows
      <4> QED BY <4>2, <4>3, <4>4, <4>5 DEF ErrorHasFailedRows
    <3>2. CASE SettleRaises(l)
      <4>1. /\ rows' = rows /\ batch[l] # {}
            /\ failedSeqs' = [failedSeqs EXCEPT ![l] = @ \union SeqsOf(batch[l])]
            /\ degraded' = [degraded EXCEPT ![l] = TRUE]
        BY <2>1, <3>2 DEF SettleRaises, Answered, PublishersHoldRows
      <4>2. batch[l] \subseteq LaneRows(rows, l)
        BY DEF TypeOK, BatchInLane, LaneRows
      <4>3. SeqsOf(batch[l]) \subseteq Nat /\ SeqsOf(batch[l]) # {}
            /\ SeqsOf(batch[l]) \subseteq SeqsOf(LaneRows(rows, l))
        BY <4>1, <4>2 DEF TypeOK, SeqsOf, LaneRows, Row
      <4>4. failedSeqs' \in [Lanes -> SUBSET Nat] /\ degraded' \in [Lanes -> BOOLEAN]
        BY <4>1, <4>3 DEF TypeOK
      <4>5. ASSUME NEW k \in Lanes
            PROVE  /\ degraded'[k] <=> failedSeqs'[k] # {}
                   /\ failedSeqs'[k] \subseteq SeqsOf(LaneRows(rows, k))
        BY <4>1, <4>3 DEF TypeOK, ErrorHasFailedRows
      <4> QED BY <4>1, <4>4, <4>5 DEF ErrorHasFailedRows
    <3> QED BY <1>3, <3>1, <3>2
  <2>8. TypeOK'
    <3>1. rows' \subseteq Row
      BY <2>1 DEF TypeOK
    <3>2. batch' \in [Lanes -> SUBSET rows']
      BY <2>2, <2>5 DEF TypeOK
    <3>3. /\ drain' \in [Lanes -> {"off", "died", "top", "reading", "parked", "publishing"}]
          /\ settleSafe' \in [Lanes -> BOOLEAN]
      BY <2>2 DEF TypeOK
    <3>4. faults' \in 0..MaxFaults
      BY <1>3, ConstantsAssumption DEF Settle, SettleWith, SettleRaises, Fault, TypeOK
    <3> QED BY <2>2, <2>6, <2>7, <3>1, <3>2, <3>3, <3>4 DEF TypeOK, admitting
  <2>9. PublishersHoldRows' /\ BatchInLane' /\ OutcomesInBatch' /\ OutcomesDisjoint'
    BY <2>2, <2>3, LaneType
       DEF PublishersHoldRows, BatchInLane, OutcomesInBatch, OutcomesDisjoint, TypeOK, Lane
  <2>10. AnsweredAtBroker' /\ AckHoldsShutdown' /\ SeqsIdentify'
    BY <2>1, <2>2, <2>4, LaneType
       DEF AnsweredAtBroker, AckHoldsShutdown, SeqsIdentify, OutcomesInBatch, TypeOK, Lane
  <2>11. CommittedIsAccepted' /\ NothingLost'
    BY <2>2, <2>4 DEF CommittedIsAccepted, NothingLost, Promised, admitting
  <2> QED BY <2>7, <2>8, <2>9, <2>10, <2>11
<1> QED BY <1>1, <1>2, <1>3 DEF LaneStep

(* One row on its way to the broker and back. *)
LEMMA RowIInv == ASSUME IInv, NEW r \in rows, RowStep(r) PROVE IInv'
<1> USE DEF IInv
<1>c. AdmissionHolds' /\ CallersCounted' /\ waiting' \in Nat
  BY CountedStep DEF Next
<1> USE <1>c
<1>a. r \in Row /\ Lane(r) \in Lanes /\ r.seq \in Nat
  BY LaneType DEF TypeOK, Lane, Row
<1>1. ASSUME Send(r) PROVE IInv'
  <2>1. /\ UNCHANGED <<durable, admitting, draining, stored, acked, failed, history>>
        /\ sent' = sent \union {r}
        /\ r \in batch[Lane(r)] /\ r \notin stored \union acked \union failed
        /\ Delivered' = Delivered
    BY <1>1, DeliveredUnchanged DEF Send, Waiting, durable
  <2>2. TypeOK'
    BY <2>1 DEF TypeOK, durable, admitting, draining, history
  <2> QED BY <2>1, <2>2
          DEF durable, admitting, draining, history, PublishersHoldRows, BatchInLane,
              OutcomesInBatch, OutcomesDisjoint, AnsweredAtBroker, AckHoldsShutdown,
              SeqsIdentify, CommittedIsAccepted, ErrorHasFailedRows, NothingLost, Accepted,
              Promised, LaneRows
<1>2. ASSUME BrokerStore(r) PROVE IInv'
  <2>1. /\ UNCHANGED <<rows, lastSeq, admitting, draining, acked, failed, history>>
        /\ r \in sent /\ sent' = sent \ {r} /\ stored' = stored \union {r}
    BY <1>2 DEF BrokerStore
  <2>2. stream' \in [Lanes -> Seq(Row)] /\ Delivered' = Delivered \union {Identity(r.msg)}
    BY <1>2, StoreDelivers
  <2>3. TypeOK'
    BY <2>1, <2>2 DEF TypeOK, admitting, draining, history
  <2> QED BY <2>1, <2>2, <2>3
          DEF admitting, draining, history, PublishersHoldRows, BatchInLane,
              OutcomesInBatch, OutcomesDisjoint, AnsweredAtBroker, AckHoldsShutdown,
              SeqsIdentify, CommittedIsAccepted, ErrorHasFailedRows, NothingLost, Accepted,
              Promised, LaneRows
<1>3. ASSUME Ack(r) PROVE IInv'
  <2>1. /\ UNCHANGED <<durable, admitting, drain, wake, failedSeqs, degraded, batch, sent,
                       failed, history>>
        /\ r \in stored /\ stored' = stored \ {r} /\ acked' = acked \union {r}
        /\ settleSafe' = [settleSafe EXCEPT ![Lane(r)] = FALSE]
        /\ Delivered' = Delivered
    BY <1>3, DeliveredUnchanged DEF Ack, durable
  <2>2. TypeOK'
    BY <1>a, <2>1 DEF TypeOK, durable, admitting, history
  <2>3. AckHoldsShutdown'
    BY <1>a, <2>1, LaneType DEF AckHoldsShutdown, TypeOK, Lane
  <2> QED BY <2>1, <2>2, <2>3
          DEF durable, admitting, history, PublishersHoldRows, BatchInLane, OutcomesInBatch,
              OutcomesDisjoint, AnsweredAtBroker, SeqsIdentify, CommittedIsAccepted,
              ErrorHasFailedRows, NothingLost, Accepted, Promised, LaneRows
<1>4. ASSUME PublishFails(r) PROVE IInv'
  <2>1. /\ UNCHANGED <<durable, admitting, drain, wake, settleSafe, batch, acked, told, calls>>
        /\ r \in sent \union stored
        /\ sent' = sent \ {r} /\ stored' = stored \ {r} /\ failed' = failed \union {r}
        /\ failedSeqs' = [failedSeqs EXCEPT ![Lane(r)] = @ \union {r.seq}]
        /\ degraded' = [degraded EXCEPT ![Lane(r)] = TRUE]
        /\ Delivered' = Delivered
    BY <1>4, DeliveredUnchanged DEF PublishFails, durable
  <2>2. faults' \in 0..MaxFaults
    BY <1>4, ConstantsAssumption DEF PublishFails, Fault, TypeOK
  <2>3. TypeOK'
    BY <1>a, <2>1, <2>2 DEF TypeOK, durable, admitting
  <2>4. r.seq \in SeqsOf(LaneRows(rows, Lane(r)))
    BY DEF SeqsOf, LaneRows
  <2>5. ASSUME NEW k \in Lanes
        PROVE  /\ degraded'[k] <=> failedSeqs'[k] # {}
               /\ failedSeqs'[k] \subseteq SeqsOf(LaneRows(rows, k))
    BY <1>a, <2>1, <2>4 DEF TypeOK, ErrorHasFailedRows
  <2>6. ErrorHasFailedRows'
    BY <2>1, <2>5 DEF ErrorHasFailedRows, durable
  <2> QED BY <2>1, <2>3, <2>6
          DEF durable, admitting, PublishersHoldRows, BatchInLane, OutcomesInBatch,
              OutcomesDisjoint, AnsweredAtBroker, AckHoldsShutdown, SeqsIdentify,
              CommittedIsAccepted, NothingLost, Accepted, Promised
<1> QED BY <1>1, <1>2, <1>3, <1>4 DEF RowStep

(* Close, crash and restart. *)
LEMMA ProcessIInv == IInv /\ ProcessStep => IInv'
<1> SUFFICES ASSUME IInv, ProcessStep PROVE IInv'
  OBVIOUS
<1> USE DEF IInv
<1>c. AdmissionHolds' /\ CallersCounted' /\ waiting' \in Nat
  BY CountedStep DEF Next
<1> USE <1>c
<1>1. ASSUME BeginClose PROVE IInv'
  <2>1. Quiet /\ PublishersHoldRows' /\ CommittedIsAccepted'
    BY <1>1, DeliveredUnchanged
       DEF BeginClose, Quiet, PublishersHoldRows, CommittedIsAccepted, Accepted, durable
  <2>2. TypeOK'
    BY <1>1, ConstantsAssumption DEF BeginClose, TypeOK, Fault, durable, publishing
  <2> QED BY <2>1, <2>2, QuietSteps
<1>2. ASSUME CancelDrains \/ CloseTimesOut PROVE IInv'
  <2>1. /\ UNCHANGED <<durable, queue, txn, poisoned, wake, settleSafe, failedSeqs, degraded,
                       history>>
        /\ process' \in {"closed", "timedout"}
        /\ StopDrains /\ Delivered' = Delivered
    BY <1>2, DeliveredUnchanged DEF CancelDrains, CloseTimesOut, durable
  <2>2. TypeOK'
    BY <2>1 DEF StopDrains, TypeOK, durable, history
  <2> QED BY <2>1, <2>2
          DEF StopDrains, durable, history, PublishersHoldRows, BatchInLane, OutcomesInBatch,
              OutcomesDisjoint, AnsweredAtBroker, AckHoldsShutdown, SeqsIdentify,
              CommittedIsAccepted, ErrorHasFailedRows, NothingLost, Accepted, Promised,
              LaneRows
<1>3. ASSUME Crash \/ Restart PROVE IInv'
  <2>1. /\ UNCHANGED <<durable, told, calls>>
        /\ process' \in {"running", "down"}
        /\ drain' \in [Lanes -> {"off", "top"}]
        /\ Fresh /\ Delivered' = Delivered
    BY <1>3, DeliveredUnchanged DEF Crash, Restart, durable, history
  <2>2. faults' \in 0..MaxFaults
    BY <1>3, ConstantsAssumption DEF Crash, Restart, Fault, history, TypeOK
  <2>3. TypeOK'
    <3>1. /\ queue' \in Seq(Message) /\ orphan' \in Seq(Message)
          /\ txn' \in [phase: {"none", "running", "committed"}, kind: {"none", "group", "batch"},
                       msgs: Seq(Message)]
      BY <2>1 DEF Fresh, NoTxn
    <3>2. drain' \in [Lanes -> {"off", "died", "top", "reading", "parked", "publishing"}]
      BY <2>1
    <3>3. /\ wake' \in [Lanes -> BOOLEAN] /\ settleSafe' \in [Lanes -> BOOLEAN]
          /\ failedSeqs' \in [Lanes -> SUBSET Nat] /\ degraded' \in [Lanes -> BOOLEAN]
          /\ batch' \in [Lanes -> SUBSET rows']
      BY <2>1 DEF Fresh
    <3> QED BY <2>1, <2>2, <3>1, <3>2, <3>3 DEF Fresh, TypeOK, durable
  <2> QED BY <2>1, <2>3
          DEF Fresh, NoTxn, durable, PublishersHoldRows, BatchInLane, OutcomesInBatch,
              OutcomesDisjoint, AnsweredAtBroker, AckHoldsShutdown, SeqsIdentify,
              CommittedIsAccepted, ErrorHasFailedRows, NothingLost, Accepted, Promised,
              LaneRows
<1> QED BY <1>1, <1>2, <1>3 DEF ProcessStep

(* Every step, and every stutter, keeps the invariant. *)
THEOREM NextIInv == IInv /\ [Next]_vars => IInv'
<1> SUFFICES ASSUME IInv, [Next]_vars PROVE IInv'
  OBVIOUS
<1>c. AdmissionHolds' /\ CallersCounted' /\ waiting' \in Nat
  BY CountedStep DEF IInv
<1>1. CASE UNCHANGED vars
  <2>1. Quiet
    BY <1>1 DEF vars, durable, draining, publishing, history, Quiet
  <2>2. TypeOK' /\ PublishersHoldRows' /\ CommittedIsAccepted'
    BY <1>1, DeliveredUnchanged
       DEF vars, durable, admitting, draining, publishing, history, IInv, TypeOK,
           PublishersHoldRows, CommittedIsAccepted, Accepted
  <2> QED BY <1>c, <2>1, <2>2, QuietSteps
<1> QED BY <1>1, AdmissionIInv, LaneIInv, RowIInv, ProcessIInv DEF Next

(* The invariant holds in every reachable state. *)
THEOREM Invariance == Spec => []IInv
BY InitIInv, NextIInv, PTL DEF Spec

-----------------------------------------------------------------------------
(* What follows for the sink *)

(* Every variable keeps its type. *)
THEOREM TypeCorrect == Spec => []TypeOK
<1>1. IInv => TypeOK
  BY DEF IInv
<1> QED BY <1>1, Invariance, PTL

(* No event a producer was told is admitted is ever lost, whatever crashes, *)
(* closes, times out or fails, for every number of events and of faults.    *)
THEOREM PromisesAreKept == Spec => []NothingLost
<1>1. IInv => NothingLost
  BY DEF IInv
<1> QED BY <1>1, Invariance, PTL

(* No caller of publish is forgotten by the sink that runs: whoever has no  *)
(* result yet is in the queue or in the transaction.                        *)
THEOREM NobodyForgotten == Spec => []CallersCounted
<1>1. IInv => CallersCounted
  BY DEF IInv
<1> QED BY <1>1, Invariance, PTL

(* A lane has a delivery error exactly while rows that failed since the     *)
(* start of the process are in the table.                                   *)
THEOREM ErrorsEnd == Spec => []ErrorHasFailedRows
<1>1. IInv => ErrorHasFailedRows
  BY DEF IInv
<1> QED BY <1>1, Invariance, PTL

(* What a step does to the table, the broker and the promises: nothing, add *)
(* rows, promise, delete acknowledged rows, or store one row at the broker. *)
LEMMA StepKinds ==
  ASSUME IInv, Next
  PROVE  \/ UNCHANGED <<rows, stream, told>>
         \/ rows \subseteq rows' /\ UNCHANGED <<stream, told>>
         \/ told \subseteq told' /\ UNCHANGED <<rows, stream>>
         \/ rows' \subseteq rows /\ rows \ rows' \subseteq acked /\ UNCHANGED <<stream, told>>
         \/ \E r \in rows : BrokerStore(r)
<1>1. CASE AdmissionStep
  <2>1. CASE CommitTxn
    BY <2>1, AdmitInserts DEF CommitTxn, IInv, TypeOK, history
  <2>2. CASE OrphanEnds
    BY <2>2, AdmitInserts DEF OrphanEnds, IInv, TypeOK, history
  <2>3. CASE ReportCommitted
    BY <2>3 DEF ReportCommitted, durable
  <2> QED BY <1>1, <2>1, <2>2, <2>3
          DEF AdmissionStep, Publish, BeginBatch, BeginGroup, RejectTxn, CancelBatch,
              durable, history
<1>2. ASSUME NEW l \in Lanes, LaneStep(l)
      PROVE  \/ UNCHANGED <<rows, stream, told>>
             \/ /\ rows' \subseteq rows /\ rows \ rows' \subseteq acked
                /\ UNCHANGED <<stream, told>>
  BY <1>2 DEF LaneStep, ClearWake, ReadPending, ReadRaises, WakeUp, Settle, SettleWith,
              SettleRaises, EndBatch, durable, history
<1>3. ASSUME NEW r \in rows, RowStep(r)
      PROVE  UNCHANGED <<rows, stream, told>> \/ BrokerStore(r)
  BY <1>3 DEF RowStep, Send, Ack, PublishFails, durable, history
<1>4. CASE ProcessStep
  BY <1>4 DEF ProcessStep, BeginClose, CancelDrains, CloseTimesOut, Crash, Restart,
              durable, history
<1> QED BY <1>1, <1>2, <1>3, <1>4 DEF Next

(* No step deletes a row the broker does not hold. *)
THEOREM DeletesDelivered == Spec => DeletedOnlyWhenDelivered
<1> DEFINE P == \A r \in rows : r \notin rows' => Identity(r.msg) \in Delivered
<1>1. ASSUME IInv, Next PROVE P
  <2>1. rows \ rows' \subseteq acked
    BY <1>1, StepKinds DEF BrokerStore
  <2> QED BY <1>1, <2>1 DEF IInv, AnsweredAtBroker
<1>2. IInv /\ [Next]_vars => [P]_vars
  BY <1>1
<1> QED BY <1>2, Invariance, PTL DEF Spec, DeletedOnlyWhenDelivered

(* A close that reports success cancelled no drain holding an acknowledged, *)
(* unsettled row.                                                           *)
THEOREM CloseIsClean == Spec => CloseKeepsAcks
<1> DEFINE P == process = "closing" /\ process' = "closed" => acked = {}
<1>1. ASSUME IInv, Next, process = "closing", process' = "closed" PROVE acked = {}
  <2>1. CancelDrains
    <3>1. CASE AdmissionStep
      BY <1>1, <3>1 DEF AdmissionStep, Publish, BeginBatch, BeginGroup, CommitTxn,
                        ReportCommitted, RejectTxn, CancelBatch, OrphanEnds
    <3>2. ASSUME NEW l \in Lanes, LaneStep(l) PROVE FALSE
      BY <1>1, <3>2 DEF LaneStep, ClearWake, ReadPending, ReadRaises, WakeUp, Settle,
                        SettleWith, SettleRaises, EndBatch, admitting
    <3>3. ASSUME NEW r \in rows, RowStep(r) PROVE FALSE
      BY <1>1, <3>3 DEF RowStep, Send, BrokerStore, Ack, PublishFails, admitting
    <3>4. CASE ProcessStep
      BY <1>1, <3>4 DEF ProcessStep, BeginClose, CloseTimesOut, Crash, Restart, Alive
    <3> QED BY <1>1, <3>1, <3>2, <3>3, <3>4 DEF Next
  <2> QED BY <1>1, <2>1, LaneType DEF CancelDrains, IInv, AckHoldsShutdown, Lane
<1>2. IInv /\ [Next]_vars => [P]_vars
  BY <1>1
<1> QED BY <1>2, Invariance, PTL DEF Spec, CloseKeepsAcks

(* The identities of a set of events are identities. *)
LEMMA IdentityType == ASSUME NEW m \in Message PROVE Identity(m) \in Identities
BY LaneType DEF Identity, Identities, Message

(* The state functions of the mapping have the types OutboxPromise expects. *)
LEMMA IdentitySets ==
  ASSUME TypeOK
  PROVE  Delivered \subseteq Accepted /\ Accepted \subseteq Identities /\ Promised \subseteq Identities
<1>1. ASSUME NEW l \in Lanes, NEW r \in ElementsOf(stream[l]) PROVE r \in Row
  BY <1>1 DEF TypeOK, ElementsOf
<1>2. ASSUME NEW r \in Row PROVE Identity(r.msg) \in Identities
  BY <1>2, IdentityType DEF Row
<1>3. Delivered \subseteq Identities
  BY <1>1, <1>2 DEF Delivered
<1>4. Promised \subseteq Identities
  BY IdentityType DEF TypeOK, Promised
<1> QED BY <1>2, <1>3, <1>4 DEF Accepted, TypeOK

(* The sink implements the abstract promise: what is in the table or at the *)
(* broker is accepted, and is never taken back.                             *)
THEOREM Refinement == Spec => ImplementsPromise
<1>1. Init => Abstract!Init
  BY DEF Init, Abstract!Init, Accepted, Promised, Delivered, ElementsOf
<1>2. IInv /\ IInv' /\ [Next]_vars => [Abstract!Next]_(Abstract!vars)
  <2> SUFFICES ASSUME IInv, IInv', [Next]_vars, ~ UNCHANGED Abstract!vars
               PROVE  Abstract!Next
    OBVIOUS
  <2>1. Next
    BY DeliveredUnchanged DEF vars, durable, history, Abstract!vars, Accepted, Promised
  <2>2. CASE rows \subseteq rows' /\ UNCHANGED <<stream, told>>
    <3>1. Delivered' = Delivered /\ Promised' = Promised /\ Accepted' = Accepted \union Accepted'
      BY <2>2, DeliveredUnchanged DEF Promised, Accepted
    <3>2. \A r \in rows' : Identity(r.msg) \in Identities
      BY IdentityType DEF IInv, TypeOK, Row
    <3>3. Accepted' \in SUBSET Identities
      BY <3>1, <3>2, IdentitySets DEF IInv, Accepted
    <3> QED BY <3>1, <3>3 DEF Abstract!Next, Abstract!Accept
  <2>3. CASE told \subseteq told' /\ UNCHANGED <<rows, stream>>
    <3>1. Delivered' = Delivered /\ Accepted' = Accepted /\ Promised' = Promised \union Promised'
      BY <2>3, DeliveredUnchanged DEF Promised, Accepted
    <3>2. Promised' \subseteq Accepted /\ Accepted \subseteq Identities
      BY <3>1, IdentitySets DEF IInv, NothingLost
    <3>3. Promised' \in SUBSET Identities
      BY <3>2
    <3> QED BY <3>1, <3>2, <3>3 DEF Abstract!Next, Abstract!Promise
  <2>4. CASE \E r \in rows : BrokerStore(r)
    <3>1. PICK r \in rows : BrokerStore(r)
      BY <2>4
    <3>2. Delivered' = Delivered \union {Identity(r.msg)} /\ Promised' = Promised /\ rows' = rows
      BY <3>1, StoreDelivers DEF BrokerStore, Promised, history
    <3>3. Identity(r.msg) \in Accepted /\ Accepted' = Accepted /\ Accepted \subseteq Identities
      BY <3>2, IdentitySets DEF IInv, Accepted
    <3>4. Identity(r.msg) \notin Delivered
      BY <3>2, <3>3 DEF Abstract!vars
    <3> QED BY <3>2, <3>3, <3>4 DEF Abstract!Next, Abstract!Deliver
  <2>5. CASE rows' \subseteq rows /\ rows \ rows' \subseteq acked /\ UNCHANGED <<stream, told>>
    <3>1. Delivered' = Delivered /\ Promised' = Promised
      BY <2>5, DeliveredUnchanged DEF Promised
    <3>2. Accepted' = Accepted
      BY <2>5, <3>1 DEF Accepted, IInv, AnsweredAtBroker
    <3> QED BY <3>1, <3>2 DEF Abstract!vars
  <2>6. CASE UNCHANGED <<rows, stream, told>>
    BY <2>6, DeliveredUnchanged DEF Abstract!vars, Accepted, Promised
  <2> QED BY <2>1, <2>2, <2>3, <2>4, <2>5, <2>6, StepKinds
<1> QED BY <1>1, <1>2, Invariance, PTL DEF Spec, ImplementsPromise, Abstract!Spec

-----------------------------------------------------------------------------
(* What one transaction admits *)

(* What admit_many is ever given: a group of queued events, a batch, or flow *)
(* records with their watch copies.                                         *)
Transactions ==
  Seq(Singles) \union Batches \union {WithWatchCopies(b) : b \in FlowBatches}

OnlyTransactions ==
  queue \in Seq(Singles) /\ txn.msgs \in Transactions /\ orphan \in Transactions

Ids(ms) == {Identity(m) : m \in ElementsOf(ms)}

(* A step that admits, admits all of one transaction. *)
AdmitsWhole == \E ms \in Transactions : Accepted' = Accepted \union Ids(ms)

(* The empty group, which no step admits, stands for admitting nothing. *)
LEMMA NothingIsWhole == <<>> \in Transactions /\ Ids(<<>>) = {}
BY DEF Transactions, Ids, ElementsOf

LEMMA TransactionsType == Transactions \subseteq Seq(Message)
<1>1. Seq(Singles) \subseteq Seq(Message)
  BY ConstantsAssumption
<1> QED BY <1>1, WatchCopiesType, ConstantsAssumption DEF Transactions

(* The events of a flow transaction: the records and their watch copies. *)
LEMMA FlowElements ==
  ASSUME NEW b \in Seq(Message)
  PROVE  ElementsOf(WithWatchCopies(b)) = ElementsOf(b) \union {WatchCopy(m) : m \in ElementsOf(b)}
<1> DEFINE w == [i \in 1..Len(b) |-> WatchCopy(b[i])]
<1>1. /\ Len(b) \in Nat /\ DOMAIN b = 1..Len(b) /\ DOMAIN w = 1..Len(b)
      /\ \A i \in 1..Len(b) : w[i] = WatchCopy(b[i])
  OBVIOUS
<1>2. w \in Seq({WatchCopy(b[i]) : i \in 1..Len(b)}) /\ Len(w) = Len(b)
  OBVIOUS
<1> HIDE DEF w
<1>3. /\ DOMAIN (b \o w) = 1..(Len(b) + Len(b))
      /\ \A i \in 1..Len(b) : (b \o w)[i] = b[i] /\ (b \o w)[Len(b) + i] = w[i]
  BY <1>1, <1>2
<1>4. \A i \in 1..(Len(b) + Len(b)) : i \in 1..Len(b) \/ \E j \in 1..Len(b) : i = Len(b) + j
  <2>1. ASSUME NEW i \in 1..(Len(b) + Len(b)), i \notin 1..Len(b)
        PROVE  i - Len(b) \in 1..Len(b) /\ i = Len(b) + (i - Len(b))
    BY <1>1, <2>1
  <2> QED BY <2>1
<1>5. \A j \in 1..Len(b) : j \in 1..(Len(b) + Len(b)) /\ Len(b) + j \in 1..(Len(b) + Len(b))
  BY <1>1
<1>6. ElementsOf(b \o w) = ElementsOf(b) \union {WatchCopy(m) : m \in ElementsOf(b)}
  <2> DEFINE s == b \o w
  <2>1. /\ ElementsOf(s) = {s[i] : i \in 1..(Len(b) + Len(b))}
        /\ ElementsOf(b) = {b[i] : i \in 1..Len(b)}
        /\ \A i \in 1..Len(b) : s[i] = b[i] /\ s[Len(b) + i] = WatchCopy(b[i])
    BY <1>1, <1>3 DEF ElementsOf
  <2> HIDE DEF s
  <2>2. ASSUME NEW i \in 1..(Len(b) + Len(b))
        PROVE  s[i] \in ElementsOf(b) \union {WatchCopy(m) : m \in ElementsOf(b)}
    <3>1. CASE i \in 1..Len(b)
      BY <2>1, <3>1
    <3>2. CASE \E j \in 1..Len(b) : i = Len(b) + j
      BY <2>1, <3>2
    <3> QED BY <1>4, <3>1, <3>2
  <2>3. ASSUME NEW i \in 1..Len(b)
        PROVE  b[i] \in ElementsOf(s) /\ WatchCopy(b[i]) \in ElementsOf(s)
    BY <1>5, <2>1
  <2>4. ElementsOf(s) = ElementsOf(b) \union {WatchCopy(m) : m \in ElementsOf(b)}
    BY <2>1, <2>2, <2>3, ZenonT(80)
  <2> QED BY <2>4 DEF s
<1> QED BY <1>6 DEF WithWatchCopies, w

(* A transaction holds both copies of a flow record, or neither: the other  *)
(* publications have other message ids, and the other flow records of the   *)
(* same id are in the same lane.                                            *)
LEMMA TransactionsPair ==
  ASSUME NEW ms \in Transactions, NEW m \in FlowOnly
  PROVE  Identity(m) \in Ids(ms) <=> Identity(WatchCopy(m)) \in Ids(ms)
<1>1. /\ m \in FlowEvents /\ m \in Message
      /\ \A n \in FlowEvents : n \in Message
      /\ \A n \in FlowEvents : n.id = m.id => LaneOf(n.topic) = LaneOf(m.topic)
      /\ \A n \in Unpaired : Identity(n) # Identity(m) /\ Identity(n) # Identity(WatchCopy(m))
  BY ConstantsAssumption DEF FlowOnly, FlowEvents, ElementsOf
<1>2. \A n \in Message : /\ Identity(n) = <<LaneOf(n.topic), n.id>>
                          /\ Identity(WatchCopy(n)) = <<"watch", n.id>>
  BY DEF Identity, WatchCopy, Message, LaneOf
<1>3. CASE ms \in Seq(Singles) \union Batches
  <2>1. ElementsOf(ms) \subseteq Unpaired
    BY <1>3 DEF Unpaired, ElementsOf
  <2> QED BY <1>1, <2>1 DEF Ids
<1>4. ASSUME NEW b \in FlowBatches, ms = WithWatchCopies(b)
      PROVE  Identity(m) \in Ids(ms) <=> Identity(WatchCopy(m)) \in Ids(ms)
  <2>1. /\ ElementsOf(ms) = ElementsOf(b) \union {WatchCopy(n) : n \in ElementsOf(b)}
        /\ ElementsOf(b) \subseteq FlowEvents
    BY <1>4, ConstantsAssumption, FlowElements DEF FlowEvents
  <2>2. ASSUME Identity(m) \in Ids(ms) PROVE Identity(WatchCopy(m)) \in Ids(ms)
    <3>1. PICK n \in ElementsOf(b) : \/ Identity(n) = Identity(m)
                                     \/ Identity(WatchCopy(n)) = Identity(m)
      BY <2>1, <2>2 DEF Ids
    <3>2. n.id = m.id
      BY <1>1, <1>2, <2>1, <3>1
    <3>3. Identity(WatchCopy(n)) = Identity(WatchCopy(m))
      BY <1>1, <1>2, <2>1, <3>2
    <3> QED BY <2>1, <3>3 DEF Ids
  <2>3. ASSUME Identity(WatchCopy(m)) \in Ids(ms) PROVE Identity(m) \in Ids(ms)
    <3>1. PICK n \in ElementsOf(b) : \/ Identity(n) = Identity(WatchCopy(m))
                                     \/ Identity(WatchCopy(n)) = Identity(WatchCopy(m))
      BY <2>1, <2>3 DEF Ids
    <3>2. n.id = m.id
      BY <1>1, <1>2, <2>1, <3>1
    <3>3. Identity(n) = Identity(m)
      BY <1>1, <1>2, <2>1, <3>2
    <3> QED BY <2>1, <3>3 DEF Ids
  <2> QED BY <2>2, <2>3
<1> QED BY <1>3, <1>4 DEF Transactions

(* Committing a transaction makes its identities accepted and no others. *)
LEMMA AdmitAccepts ==
  ASSUME IInv, NEW ms \in Seq(Message), Admit(ms), UNCHANGED stream
  PROVE  Accepted' = Accepted \union Ids(ms)
<1>1. Delivered' = Delivered
  BY DeliveredUnchanged
<1>2. /\ rows \subseteq rows' /\ \A m \in ElementsOf(ms) : \E r \in rows' : SameKey(r.msg, m)
  BY AdmitInserts DEF IInv, TypeOK
<1>3. \A r \in rows' : r \in rows \/ r.msg \in ElementsOf(ms)
  BY DEF Admit, Inserted, Unmatched, ElementsOf
<1>4. Accepted' \subseteq Accepted \union Ids(ms)
  BY <1>1, <1>3 DEF Accepted, Ids
<1>5. ASSUME NEW m \in ElementsOf(ms) PROVE Identity(m) \in Accepted'
  BY <1>2 DEF Accepted, SameKey, Identity
<1>6. Accepted \subseteq Accepted'
  BY <1>1, <1>2 DEF Accepted
<1> QED BY <1>4, <1>5, <1>6 DEF Ids

LEMMA InitTransactions == Init => OnlyTransactions
BY NothingIsWhole DEF Init, NoTxn, OnlyTransactions

LEMMA TransactionsStep ==
  ASSUME TypeOK, OnlyTransactions, [Next]_vars PROVE OnlyTransactions'
<1>0. /\ <<>> \in Seq(Singles) /\ <<>> \in Transactions /\ NoTxn.msgs = <<>>
      /\ [txn EXCEPT !.phase = "committed"].msgs = txn.msgs
  BY NothingIsWhole DEF TypeOK, NoTxn
<1> USE DEF OnlyTransactions, admitting
<1>1. CASE AdmissionStep
  <2>1. ASSUME NEW m \in Singles, Publish(m) PROVE OnlyTransactions'
    BY <2>1 DEF Publish
  <2>2. ASSUME NEW ms \in Transactions, BeginBatch(ms) PROVE OnlyTransactions'
    BY <2>2 DEF BeginBatch
  <2>3. CASE BeginGroup
    <3> DEFINE n == IF Len(queue) < GroupLimit THEN Len(queue) ELSE GroupLimit
    <3>1. /\ txn' = [phase |-> "running", kind |-> "group", msgs |-> SubSeq(queue, 1, n)]
          /\ queue' = SubSeq(queue, n + 1, Len(queue))
          /\ orphan' = orphan
      BY <2>3 DEF BeginGroup
    <3>2. queue \in Seq(Singles) /\ Len(queue) \in Nat /\ n \in 0..Len(queue)
      BY ConstantsAssumption
    <3> HIDE DEF n
    <3>3. SubSeq(queue, 1, n) \in Seq(Singles) /\ SubSeq(queue, n + 1, Len(queue)) \in Seq(Singles)
      BY <3>2
    <3> QED BY <3>1, <3>3 DEF Transactions
  <2>4. CASE CommitTxn \/ ReportCommitted \/ RejectTxn \/ CancelBatch \/ OrphanEnds
    <3>1. CASE CommitTxn \/ ReportCommitted
      BY <1>0, <3>1 DEF CommitTxn, ReportCommitted
    <3>2. CASE RejectTxn
      BY <1>0, <3>2 DEF RejectTxn
    <3>3. CASE CancelBatch
      BY <1>0, <3>3 DEF CancelBatch
    <3>4. CASE OrphanEnds
      BY <1>0, <3>4 DEF OrphanEnds
    <3> QED BY <2>4, <3>1, <3>2, <3>3, <3>4
  <2>5. \A b \in Batches : b \in Transactions
    BY DEF Transactions
  <2>6. \A b \in FlowBatches : WithWatchCopies(b) \in Transactions
    BY DEF Transactions
  <2> QED BY <1>1, <2>1, <2>2, <2>3, <2>4, <2>5, <2>6 DEF AdmissionStep
<1>2. ASSUME NEW l \in Lanes, LaneStep(l) PROVE UNCHANGED <<queue, txn, orphan>>
  BY <1>2 DEF LaneStep, ClearWake, ReadPending, ReadRaises, WakeUp, Settle, SettleWith,
              SettleRaises, EndBatch
<1>3. ASSUME NEW r \in rows, RowStep(r) PROVE UNCHANGED <<queue, txn, orphan>>
  BY <1>3 DEF RowStep, Send, BrokerStore, Ack, PublishFails
<1>4. CASE ProcessStep
  <2>1. CASE BeginClose
    BY <1>0, <2>1 DEF BeginClose
  <2>2. CASE CancelDrains \/ CloseTimesOut
    BY <1>0, <2>2 DEF CancelDrains, CloseTimesOut, StopDrains
  <2>3. CASE Crash \/ Restart
    BY <1>0, <2>3 DEF Crash, Restart, Fresh
  <2> QED BY <1>4, <2>1, <2>2, <2>3 DEF ProcessStep
<1>5. CASE UNCHANGED vars
  BY <1>5 DEF vars
<1> QED BY <1>1, <1>2, <1>3, <1>4, <1>5 DEF Next

(* Only a commit makes anything accepted, and settlement, which deletes     *)
(* rows, leaves their identities at the broker.                             *)
LEMMA WholeStep == ASSUME IInv, OnlyTransactions, [Next]_vars PROVE AdmitsWhole
<1>1. SUFFICES ASSUME Accepted' # Accepted PROVE AdmitsWhole
  BY NothingIsWhole DEF AdmitsWhole
<1>2. ~ UNCHANGED <<rows, stream>>
  BY <1>1, DeliveredUnchanged DEF Accepted
<1>3. Next
  BY <1>2 DEF vars, durable
<1>4. CASE AdmissionStep
  <2>1. \E ms \in Transactions : Admit(ms) /\ UNCHANGED stream
    BY <1>2, <1>4 DEF AdmissionStep, Publish, BeginBatch, BeginGroup, CommitTxn, ReportCommitted,
                      RejectTxn, CancelBatch, OrphanEnds, durable, OnlyTransactions
  <2> QED BY <2>1, TransactionsType, AdmitAccepts DEF AdmitsWhole
<1>5. ASSUME NEW l \in Lanes, LaneStep(l) PROVE FALSE
  <2>1. UNCHANGED stream /\ rows' \subseteq rows /\ rows \ rows' \subseteq acked
    BY <1>5 DEF LaneStep, ClearWake, ReadPending, ReadRaises, WakeUp, Settle, SettleWith,
                SettleRaises, EndBatch, durable
  <2> QED BY <1>1, <2>1, DeliveredUnchanged DEF Accepted, IInv, AnsweredAtBroker
<1>6. ASSUME NEW r \in rows, RowStep(r) PROVE FALSE
  <2>1. BrokerStore(r)
    BY <1>2, <1>6 DEF RowStep, Send, Ack, PublishFails, durable
  <2>2. rows' = rows /\ Delivered' = Delivered \union {Identity(r.msg)}
    BY <2>1, StoreDelivers DEF BrokerStore
  <2> QED BY <1>1, <2>2 DEF Accepted
<1>7. ~ ProcessStep
  BY <1>2 DEF ProcessStep, BeginClose, CancelDrains, CloseTimesOut, Crash, Restart, durable
<1> QED BY <1>3, <1>4, <1>5, <1>6, <1>7 DEF Next

(* The outbox accepts transactions whole: whatever step runs, of a caller,  *)
(* an abandoned thread, a drain or the broker, the identities that become   *)
(* accepted are none, or all those of one group, batch or flow transaction. *)
THEOREM AdmissionIsAtomic == Spec => [][AdmitsWhole]_vars
<1>1. Init => IInv /\ OnlyTransactions
  BY InitIInv, InitTransactions
<1>2. IInv /\ OnlyTransactions /\ [Next]_vars => (IInv /\ OnlyTransactions)'
  BY NextIInv, TransactionsStep DEF IInv
<1>3. IInv /\ OnlyTransactions /\ [Next]_vars => [AdmitsWhole]_vars
  BY WholeStep
<1> QED BY <1>1, <1>2, <1>3, PTL DEF Spec

LEMMA PairStep ==
  ASSUME FlowPairAtomic, AdmitsWhole PROVE FlowPairAtomic'
<1> SUFFICES ASSUME NEW m \in FlowOnly
             PROVE  Identity(m) \in Accepted' <=> Identity(WatchCopy(m)) \in Accepted'
  BY DEF FlowPairAtomic
<1>1. PICK ms \in Transactions : Accepted' = Accepted \union Ids(ms)
  BY DEF AdmitsWhole
<1>2. Identity(m) \in Ids(ms) <=> Identity(WatchCopy(m)) \in Ids(ms)
  BY TransactionsPair
<1>3. Identity(m) \in Accepted <=> Identity(WatchCopy(m)) \in Accepted
  BY DEF FlowPairAtomic
<1> QED BY <1>1, <1>2, <1>3

(* A flow record and its watch copy are accepted together, however calls    *)
(* are cancelled, threads abandoned and processes killed.                   *)
THEOREM FlowPairsTogether == Spec => []FlowPairAtomic
<1>1. Init => IInv /\ OnlyTransactions /\ FlowPairAtomic
  <2>1. Init => Accepted = {}
    BY DEF Init, Accepted, Delivered, ElementsOf
  <2> QED BY <2>1, InitIInv, InitTransactions DEF FlowPairAtomic
<1>2. IInv /\ OnlyTransactions /\ FlowPairAtomic /\ [Next]_vars
        => (IInv /\ OnlyTransactions /\ FlowPairAtomic)'
  <2>1. ASSUME IInv, OnlyTransactions, FlowPairAtomic, [Next]_vars PROVE FlowPairAtomic'
    BY <2>1, WholeStep, PairStep
  <2> QED BY <2>1, NextIInv, TransactionsStep DEF IInv
<1> QED BY <1>1, <1>2, PTL DEF Spec
=============================================================================
