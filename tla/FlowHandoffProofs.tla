------------------------- MODULE FlowHandoffProofs -------------------------
(***************************************************************************)
(* What module FlowHandoff promises of the replay log and of the hand-off, *)
(* for any number of connections, events, requests and faults.             *)
(*                                                                         *)
(* Holes.  An event that is not appended leaves no trace in the log        *)
(* itself.  The invariant IInv says that a marker follows it before the    *)
(* next event does (MissedAreMarked), so that a range over it contains the *)
(* marker, unless the marker has been trimmed, and then the start of the   *)
(* range has been trimmed before it.                                       *)
(*                                                                         *)
(* Queues.  What a connection is still to be sent lies in three queues: in *)
(* its live sends, behind the barrier of a request, and in what the task   *)
(* of a replay is sending.  The invariant QInv adds to IInv that each      *)
(* queue is in the order of the log and ends where the poller has handed   *)
(* over (Arranged); that what an only resumption is owed and has not been  *)
(* sent lies in one of them, or is with the poller, and is later than all  *)
(* that was sent (NoneSkipped); and that what is queued was not sent,      *)
(* except for the end of the range (NoneRepeated).  Each step is proved to *)
(* keep it: those of a request, of a connection, and of the poller.        *)
(*                                                                         *)
(* Order.  SInv is a second layer over QInv.  A range that was read leaves *)
(* out nothing of what is owed up to its end (RangeIsRead), and the        *)
(* barrier holds back only what was asked for (HeldIsAsked), so what the   *)
(* flush finds that was not replayed is later than the range; and what     *)
(* waits stays later than all that was sent (WaitingIsLater), the last     *)
(* event of the log by QInv.                                               *)
(***************************************************************************)
EXTENDS FlowHandoff, FiniteSetTheorems, TLAPS

One(b) == IF b THEN 1 ELSE 0

(* The log, and where its trimmed part ends. *)
LogOK ==
  /\ log \in Seq(0 .. MaxEvents)
  /\ trimmed \in Nat
  /\ trimmed = 0 \/ trimmed + MaxLen <= Len(log)
  /\ gap \in BOOLEAN /\ poller \in {"idle", "answered"}
  /\ next \in 1 .. MaxEvents + 1 /\ faults \in 0 .. MaxFaults
  /\ poller = "answered" => next <= MaxEvents

(* Each event has at most one marker and one entry, and one more for each   *)
(* time it is published again after a restart.                              *)
LogIsShort ==
  Len(log) + One(gap) <= 2 * (next - 1) + One(poller = "answered") + 1 + faults

(* A missing event is followed by a marker, or by nothing yet. *)
MissedAreMarked ==
  \A p \in missed :
    \/ p = Len(log) /\ gap
    \/ p \in 0 .. Len(log) - 1 /\ log[p + 1] = 0

LogInv == LogOK /\ LogIsShort /\ MissedAreMarked

Fields == {"at", "after", "through"}

(* A replay has its start and an end within the log. *)
ReplayOK(r, length) ==
  /\ Fields \subseteq DOMAIN r
  /\ r.at \in Places /\ r.after \in Nat
  /\ r.through \in 0 .. length

Replays ==
  /\ DOMAIN replay = Conns
  /\ \A c \in Conns : DOMAIN replay[c] = Asked
  /\ \A c \in Conns, n \in Asked : ReplayOK(replay[c][n], Len(log))

(* What was read for a client has no hole. *)
Whole(r, holes) ==
  r.at \in {"sending", "flushing", "done"} =>
    \A p \in holes : ~(r.after <= p /\ p < r.through)

AllWhole == \A c \in Conns, n \in Asked : Whole(replay[c][n], missed)

IInv == LogInv /\ Replays /\ AllWhole

-----------------------------------------------------------------------------
(* The log *)

LEMMA InitLog == ASSUME FlowAssumption, Init PROVE LogInv
BY DEF FlowAssumption, Init, LogInv, LogOK, LogIsShort, MissedAreMarked, One

(* What the steps of the connections leave of the log. *)
Quiet ==
  /\ UNCHANGED <<log, trimmed, gap, poller, next, missed>>
  /\ faults' = faults \/ Fault

LEMMA QuietLog == ASSUME FlowAssumption, LogInv, Quiet PROVE LogInv'
BY DEF FlowAssumption, LogInv, LogOK, LogIsShort, MissedAreMarked, One, Quiet, Fault

(* XADD keeps the shape of the log, and what was in it. *)
LEMMA XaddLog ==
  ASSUME FlowAssumption, LogOK, NEW e \in 0 .. MaxEvents, Xadd(e)
  PROVE  /\ log' \in Seq(0 .. MaxEvents)
         /\ Len(log') = Len(log) + 1
         /\ log'[Len(log) + 1] = e
         /\ \A i \in 1 .. Len(log) : log'[i] = log[i]
         /\ trimmed' \in Nat
         /\ trimmed' = 0 \/ trimmed' + MaxLen <= Len(log')
<1>1. /\ log' \in Seq(0 .. MaxEvents)
      /\ Len(log') = Len(log) + 1
      /\ log'[Len(log) + 1] = e
      /\ \A i \in 1 .. Len(log) : log'[i] = log[i]
  BY DEF LogOK, Xadd
<1>2. /\ trimmed' \in Nat
      /\ trimmed' = 0 \/ trimmed' + MaxLen <= Len(log')
  BY <1>1 DEF FlowAssumption, LogOK, Xadd
<1> QED  BY <1>1, <1>2

(* A marker ends the wait of the last missing event; without a gap none     *)
(* waits.                                                                   *)
LEMMA XaddMarks ==
  ASSUME FlowAssumption, LogOK, MissedAreMarked, NEW e \in 0 .. MaxEvents, Xadd(e),
         e = 0 \/ ~gap, NEW p \in missed
  PROVE  p \in 0 .. Len(log') - 1 /\ log'[p + 1] = 0
<1>1. /\ Len(log') = Len(log) + 1 /\ log'[Len(log) + 1] = e
      /\ \A i \in 1 .. Len(log) : log'[i] = log[i]
  BY XaddLog
<1>2. Len(log) \in Nat
  BY DEF LogOK
<1>3. CASE p = Len(log) /\ gap
  BY <1>1, <1>2, <1>3
<1>4. CASE p \in 0 .. Len(log) - 1 /\ log[p + 1] = 0
  <2>1. p + 1 \in 1 .. Len(log)
    BY <1>2, <1>4
  <2> QED  BY <1>1, <1>2, <1>4, <2>1
<1> QED  BY <1>3, <1>4 DEF MissedAreMarked

(* Each step of the poller, and the restart, keeps what is said of the log. *)
LEMMA PollerLog ==
  ASSUME FlowAssumption, LogInv, DeliverStep \/ AppendFails \/ AnswerLost \/ Restart
  PROVE  LogInv'
<1> USE DEF LogInv
<1>0. Len(log) \in Nat /\ 0 \in 0 .. MaxEvents /\ MaxEvents \in Nat /\ MaxFaults \in Nat
  BY DEF FlowAssumption, LogOK
<1>1. CASE Unavailable
  BY <1>0, <1>1 DEF Unavailable, Miss, LogOK, LogIsShort, MissedAreMarked, One
<1>2. CASE MarkGap
  <2>1. Xadd(0)
    BY <1>2 DEF MarkGap
  <2> HIDE DEF Xadd
  <2>2. LogOK'
    BY <1>0, <1>2, <2>1, XaddLog DEF MarkGap, LogOK
  <2>3. LogIsShort'
    BY <1>0, <1>2, <2>1, XaddLog DEF MarkGap, LogOK, LogIsShort, One
  <2>4. MissedAreMarked'
    <3>1. \A p \in missed : p \in 0 .. Len(log') - 1 /\ log'[p + 1] = 0
      BY <1>0, <2>1, XaddMarks
    <3> QED  BY <1>2, <3>1 DEF MarkGap, MissedAreMarked
  <2> QED  BY <2>2, <2>3, <2>4
<1>3. CASE AppendEvent
  <2>1. Xadd(next) /\ next \in 0 .. MaxEvents
    BY <1>0, <1>3 DEF AppendEvent, LogOK
  <2>2. LogOK'
    BY <1>0, <1>3, <2>1, XaddLog DEF AppendEvent, LogOK
  <2>3. LogIsShort'
    BY <1>0, <1>3, <2>1, XaddLog DEF AppendEvent, LogOK, LogIsShort, One
  <2>4. MissedAreMarked'
    <3>1. ~gap
      BY <1>3 DEF AppendEvent
    <3>2. \A p \in missed : p \in 0 .. Len(log') - 1 /\ log'[p + 1] = 0
      BY <2>1, <3>1, XaddMarks
    <3> QED  BY <1>3, <3>2 DEF AppendEvent, MissedAreMarked
  <2> QED  BY <2>2, <2>3, <2>4
<1>4. CASE Deliver
  <2>1. /\ UNCHANGED <<log, trimmed, gap, missed, faults>>
        /\ poller = "answered" /\ poller' = "idle" /\ next' = next + 1
    BY <1>4 DEF Deliver, store
  <2> QED  BY <1>0, <2>1 DEF LogOK, LogIsShort, MissedAreMarked, One
<1>5. CASE AppendFails
  <2>1. Miss /\ faults' = faults + 1 /\ faults < MaxFaults /\ poller = "idle"
        /\ next <= MaxEvents /\ poller' = poller
    BY <1>5 DEF AppendFails, Fault
  <2>2. CASE UNCHANGED <<log, trimmed>>
    BY <1>0, <2>1, <2>2 DEF Miss, LogOK, LogIsShort, MissedAreMarked, One
  <2>3. CASE gap /\ Xadd(0)
    <3>1. LogOK'
      BY <1>0, <2>1, <2>3, XaddLog DEF Miss, LogOK
    <3>2. LogIsShort'
      BY <1>0, <2>1, <2>3, XaddLog DEF Miss, LogOK, LogIsShort, One
    <3>3. MissedAreMarked'
      <4>1. \A p \in missed : p \in 0 .. Len(log') - 1 /\ log'[p + 1] = 0
        BY <1>0, <2>3, XaddMarks
      <4> QED  BY <2>1, <4>1 DEF Miss, MissedAreMarked
    <3> QED  BY <3>1, <3>2, <3>3
  <2> QED  BY <1>5, <2>2, <2>3 DEF AppendFails
<1>6. CASE AnswerLost
  BY <1>0, <1>6 DEF AnswerLost, Fault, LogOK, LogIsShort, MissedAreMarked, One
<1>7. CASE Restart
  BY <1>0, <1>7 DEF Restart, Fault, LogOK, LogIsShort, MissedAreMarked, One
<1> QED  BY <1>1, <1>2, <1>3, <1>4, <1>5, <1>6, <1>7 DEF DeliverStep

-----------------------------------------------------------------------------
(* The steps of the connections *)

AskStep(c) ==
  \E S \in Requests :
    \/ Subscribe(c, S) \/ Unsubscribe(c, S)
    \/ \E after \in {0, Now} \union {i \in DOMAIN log : log[i] # 0} :
         SubscribeResuming(c, S, after)

ConnStep(c) ==
  Connect(c) \/ Disconnect(c) \/ SendLive(c) \/ LiveTimesOut(c) \/ AskStep(c)

RequestStep(c, n) == PrepareStep(c, n) \/ ReplayStep(c, n)

PollerStep == DeliverStep \/ AppendFails \/ AnswerLost \/ Restart

LEMMA Kinds ==
  ASSUME Next
  PROVE  PollerStep \/ \E c \in Conns : ConnStep(c) \/ \E n \in Asked : RequestStep(c, n)
BY DEF Next, PollerStep, ConnStep, AskStep, RequestStep

LEMMA ConnQuiet == ASSUME NEW c \in Conns, ConnStep(c) PROVE Quiet
<1> USE DEF Quiet, store, feed, fanout
<1>1. CASE Connect(c)          BY <1>1 DEF Connect
<1>2. CASE Disconnect(c)       BY <1>2 DEF Disconnect
<1>3. CASE SendLive(c)         BY <1>3 DEF SendLive
<1>4. CASE LiveTimesOut(c)     BY <1>4 DEF LiveTimesOut
<1>5. CASE AskStep(c)          BY <1>5 DEF AskStep, Subscribe, Unsubscribe, SubscribeResuming
<1> QED  BY <1>1, <1>2, <1>3, <1>4, <1>5 DEF ConnStep

LEMMA RequestQuiet ==
  ASSUME NEW c \in Conns, NEW n \in Asked, RequestStep(c, n) PROVE Quiet
<1> USE DEF Quiet, store, feed
<1>1. CASE HighWatermark(c, n)  BY <1>1 DEF HighWatermark
<1>2. CASE ResumeRefused(c, n)  BY <1>2 DEF ResumeRefused
<1>3. CASE StartReplay(c, n)    BY <1>3 DEF StartReplay
<1>4. CASE ReadRange(c, n)      BY <1>4 DEF ReadRange
<1>5. CASE ReplayFails(c, n)    BY <1>5 DEF ReplayFails, ReadFails
<1>6. CASE SendReplayed(c, n)   BY <1>6 DEF SendReplayed
<1>7. CASE NextBatch(c, n)      BY <1>7 DEF NextBatch
<1>8. CASE SendHeld(c, n)       BY <1>8 DEF SendHeld
<1> QED
  BY <1>1, <1>2, <1>3, <1>4, <1>5, <1>6, <1>7, <1>8 DEF RequestStep, PrepareStep, ReplayStep

LEMMA LogKept == ASSUME FlowAssumption, LogInv, [Next]_vars PROVE LogInv'
<1>1. CASE UNCHANGED vars
  <2>1. Quiet  BY <1>1 DEF Quiet, vars, store, feed
  <2> QED  BY <2>1, QuietLog
<1>2. CASE Next
  BY <1>2, Kinds, PollerLog, ConnQuiet, RequestQuiet, QuietLog DEF PollerStep
<1> QED  BY <1>1, <1>2

-----------------------------------------------------------------------------
(* What a step makes of a replay *)

Evolves(r, s) ==
  /\ Fields \subseteq DOMAIN s
  /\ \/ s.at \in Places /\ s.through = 0 /\ s.after \in Nat
     \/ /\ s.after = r.after
        /\ \/ s.at = "prepared" /\ s.through = Len(log)
           \/ s.at = "reading" /\ s.through = r.through
           \/ r.at = "reading" /\ s.at = "sending" /\ ~Refused(r) /\ s.through = r.through
           \/ s.at = r.at /\ s.through = r.through
           \/ /\ r.at \in {"sending", "flushing"} /\ s.at \in {"flushing", "done"}
              /\ s.through = r.through

Evolution ==
  /\ DOMAIN replay' = Conns
  /\ \A c \in Conns : DOMAIN replay'[c] = Asked
  /\ \A c \in Conns, n \in Asked : Evolves(replay[c][n], replay'[c][n])

LEMMA SameEvolves ==
  ASSUME Replays, NEW c \in Conns, NEW n \in Asked PROVE Evolves(replay[c][n], replay[c][n])
BY DEF Replays, ReplayOK, Evolves

LEMMA SameEvolution == ASSUME Replays, UNCHANGED replay PROVE Evolution
BY SameEvolves DEF Replays, Evolution

(* A step that touches one replay. *)
LEMMA OneEvolves ==
  ASSUME Replays, NEW c \in Conns, NEW n \in Asked,
         NEW s, replay' = [replay EXCEPT ![c][n] = s], Evolves(replay[c][n], s)
  PROVE  Evolution
<1>1. /\ DOMAIN replay' = Conns
      /\ \A d \in Conns : DOMAIN replay'[d] = Asked
      /\ \A d \in Conns, m \in Asked :
            replay'[d][m] = IF d = c /\ m = n THEN s ELSE replay[d][m]
  BY DEF Replays
<1> QED  BY <1>1, SameEvolves DEF Evolution

LEMMA FreshEvolves ==
  ASSUME NEW r PROVE Evolves(r, NoReplay) /\ DOMAIN NoAsk = Asked
                     /\ \A n \in Asked : NoAsk[n] = NoReplay
BY DEF Evolves, Fields, Places, NoReplay, NoAsk

(* A connection that is gone has no replays. *)
LEMMA DroppedEvolves ==
  ASSUME Replays, NEW gone \in SUBSET Conns, DOMAIN replay' = Conns,
         \A c \in Conns : replay'[c] = IF c \in gone THEN NoAsk ELSE replay[c]
  PROVE  Evolution
BY FreshEvolves, SameEvolves DEF Replays, Evolution

LEMMA PollerEvolves == ASSUME Replays, PollerStep PROVE Evolution
<1>1. CASE UNCHANGED replay
  BY <1>1, SameEvolution
<1>2. CASE Restart
  <2>1. replay' = [c \in Conns |-> NoAsk]
    BY <1>2 DEF Restart
  <2> QED  BY <2>1, FreshEvolves DEF Replays, Evolution
<1>3. CASE Deliver
  <2> DEFINE held == {c \in {d \in Conns : IsOf(Len(log), symbols[d])} : pending[c] # 0}
             With(c) == [replay[c] EXCEPT ![pending[c]].buffered = Append(@, Len(log))]
  <2>1. replay' = [c \in Conns |-> IF c \in held THEN With(c) ELSE replay[c]]
    BY <1>3 DEF Deliver
  <2>2. ASSUME NEW c \in Conns, NEW n \in Asked
        PROVE  DOMAIN With(c) = Asked /\ Evolves(replay[c][n], With(c)[n])
    <3>1. DOMAIN replay[c] = Asked /\ Fields \subseteq DOMAIN replay[c][n]
      BY DEF Replays, ReplayOK
    <3>2. CASE n = pending[c]
      <4>1. With(c)[n] = [replay[c][n] EXCEPT !.buffered = Append(@, Len(log))]
        BY <3>1, <3>2
      <4> QED  BY <3>1, <4>1 DEF Evolves, Fields
    <3>3. CASE n # pending[c]
      BY <3>1, <3>3, SameEvolves
    <3> QED  BY <3>1, <3>2, <3>3
  <2>3. ASSUME NEW c \in Conns
        PROVE  DOMAIN With(c) = Asked /\ DOMAIN replay[c] = Asked
    BY DEF Replays
  <2> HIDE DEF held, With
  <2>4. /\ DOMAIN replay' = Conns
        /\ \A c \in Conns : replay'[c] = IF c \in held THEN With(c) ELSE replay[c]
    BY <2>1
  <2> QED  BY <2>2, <2>3, <2>4, SameEvolves DEF Evolution
<1>4. CASE Unavailable \/ MarkGap \/ AppendEvent \/ AppendFails \/ AnswerLost
  <2>1. UNCHANGED replay
    BY <1>4 DEF Unavailable, MarkGap, AppendEvent, AppendFails, AnswerLost, fanout
  <2> QED  BY <1>1, <2>1
<1> QED  BY <1>2, <1>3, <1>4 DEF PollerStep, DeliverStep

LEMMA ConnEvolves ==
  ASSUME FlowAssumption, LogOK, Replays, NEW c \in Conns, ConnStep(c) PROVE Evolution
<1>1. CASE UNCHANGED replay
  BY <1>1, SameEvolution
<1>2. CASE Disconnect(c)
  <2>1. replay' = [replay EXCEPT ![c] = NoAsk]
    BY <1>2 DEF Disconnect
  <2>2. /\ DOMAIN replay' = Conns
        /\ \A d \in Conns : replay'[d] = IF d \in {c} THEN NoAsk ELSE replay[d]
    BY <2>1 DEF Replays
  <2>3. {c} \in SUBSET Conns
    OBVIOUS
  <2> QED  BY <2>2, <2>3, DroppedEvolves
<1>3. ASSUME NEW S \in Requests, NEW after \in {0, Now} \union {i \in DOMAIN log : log[i] # 0},
             SubscribeResuming(c, S, after)
      PROVE  Evolution
  <2> DEFINE n == asks[c] + 1
             s == [NoReplay EXCEPT !.at = "preparing", !.of = S, !.after = after]
  <2>1. replay' = [replay EXCEPT ![c][n] = s]
    BY <1>3 DEF SubscribeResuming
  <2>2. after \in Nat
    BY DEF FlowAssumption, LogOK, Now
  <2>3. \A r : Evolves(r, s)
    BY <2>2 DEF Evolves, Fields, Places, NoReplay
  <2> HIDE DEF s, n
  <2>4. /\ DOMAIN replay' = Conns
        /\ \A d \in Conns : DOMAIN replay'[d] = Asked
        /\ \A d \in Conns, m \in Asked :
              replay'[d][m] = IF d = c /\ m = n THEN s ELSE replay[d][m]
    BY <2>1 DEF Replays
  <2> QED  BY <2>3, <2>4, SameEvolves DEF Evolution
<1>4. CASE Connect(c) \/ SendLive(c) \/ LiveTimesOut(c)
  <2>1. UNCHANGED replay
    BY <1>4 DEF Connect, SendLive, LiveTimesOut, fanout
  <2> QED  BY <1>1, <2>1
<1>5. ASSUME NEW S \in Requests, Subscribe(c, S) \/ Unsubscribe(c, S) PROVE Evolution
  <2>1. UNCHANGED replay
    BY <1>5 DEF Subscribe, Unsubscribe
  <2> QED  BY <1>1, <2>1
<1> QED  BY <1>2, <1>3, <1>4, <1>5 DEF ConnStep, AskStep

LEMMA RequestEvolves ==
  ASSUME LogOK, Replays, NEW c \in Conns, NEW n \in Asked, RequestStep(c, n) PROVE Evolution
<1> DEFINE r == replay[c][n]
<1>0. Fields \subseteq DOMAIN r /\ r.at \in Places /\ r.after \in Nat
  BY DEF Replays, ReplayOK
<1>1. CASE HighWatermark(c, n)
  <2>1. replay' = [replay EXCEPT ![c][n] = [r EXCEPT !.at = "prepared", !.through = Len(log)]]
    BY <1>1 DEF HighWatermark, Replays
  <2>2. Evolves(r, [r EXCEPT !.at = "prepared", !.through = Len(log)])
    BY <1>0 DEF Evolves, Fields
  <2> QED  BY <2>1, <2>2, OneEvolves
<1>2. CASE ResumeRefused(c, n)
  <2>1. replay' = [replay EXCEPT ![c][n] = [NoReplay EXCEPT !.at = "refused"]]
    BY <1>2 DEF ResumeRefused
  <2>2. Evolves(r, [NoReplay EXCEPT !.at = "refused"])
    BY DEF Evolves, Fields, Places, NoReplay
  <2> QED  BY <2>1, <2>2, OneEvolves
<1>3. CASE StartReplay(c, n)
  <2>1. CASE replay' = [replay EXCEPT ![c][n].at = "reading"]
    <3>1. replay' = [replay EXCEPT ![c][n] = [r EXCEPT !.at = "reading"]]
      BY <2>1 DEF Replays
    <3>2. Evolves(r, [r EXCEPT !.at = "reading"])
      BY <1>0 DEF Evolves, Fields
    <3> QED  BY <3>1, <3>2, OneEvolves
  <2>2. CASE replay' = [replay EXCEPT ![c][n] = [NoReplay EXCEPT !.at = "done"]]
    <3>1. Evolves(r, [NoReplay EXCEPT !.at = "done"])
      BY DEF Evolves, Fields, Places, NoReplay
    <3> QED  BY <2>2, <3>1, OneEvolves
  <2> QED  BY <1>3, <2>1, <2>2 DEF StartReplay
<1>4. CASE ReadRange(c, n)
  <2>1. PICK t : replay' = [replay EXCEPT ![c][n].at = "sending", ![c][n].todo = t]
    BY <1>4 DEF ReadRange
  <2>2. replay' = [replay EXCEPT ![c][n] = [r EXCEPT !.at = "sending", !.todo = t]]
    BY <2>1 DEF Replays
  <2>3. r.at = "reading" /\ ~Refused(r)
    BY <1>4 DEF ReadRange
  <2>4. Evolves(r, [r EXCEPT !.at = "sending", !.todo = t])
    BY <1>0, <2>3 DEF Evolves, Fields
  <2> QED  BY <2>2, <2>4, OneEvolves
<1>5. CASE ReplayFails(c, n)
  <2>1. replay' = [replay EXCEPT ![c][n] = [NoReplay EXCEPT !.at = "done"]]
    BY <1>5 DEF ReplayFails
  <2>2. Evolves(r, [NoReplay EXCEPT !.at = "done"])
    BY DEF Evolves, Fields, Places, NoReplay
  <2> QED  BY <2>1, <2>2, OneEvolves
<1>6. CASE SendReplayed(c, n)
  <2>1. PICK t, p : replay' = [replay EXCEPT ![c][n].todo = t, ![c][n].replayed = p]
    BY <1>6 DEF SendReplayed, Replays
  <2>2. replay' = [replay EXCEPT ![c][n] = [r EXCEPT !.todo = t, !.replayed = p]]
    BY <2>1 DEF Replays
  <2>3. Evolves(r, [r EXCEPT !.todo = t, !.replayed = p])
    BY <1>0 DEF Evolves, Fields
  <2> QED  BY <2>2, <2>3, OneEvolves
<1>7. CASE NextBatch(c, n)
  <2>1. r.at \in {"sending", "flushing"}
    BY <1>7 DEF NextBatch
  <2>2. CASE \E t : replay' = [replay EXCEPT ![c][n].at = "flushing", ![c][n].buffered = <<>>,
                                            ![c][n].todo = t]
    <3>1. PICK t : replay' = [replay EXCEPT ![c][n].at = "flushing", ![c][n].buffered = <<>>,
                                            ![c][n].todo = t]
      BY <2>2
    <3> DEFINE s == [r EXCEPT !.at = "flushing", !.buffered = <<>>, !.todo = t]
    <3>2. replay' = [replay EXCEPT ![c][n] = s]
      BY <3>1 DEF Replays
    <3>3. Evolves(r, s)
      BY <1>0, <2>1 DEF Evolves, Fields
    <3> QED  BY <3>2, <3>3, OneEvolves
  <2>3. CASE replay' = [replay EXCEPT ![c][n].at = "done", ![c][n].buffered = <<>>,
                                      ![c][n].replayed = {}]
    <3> DEFINE s == [r EXCEPT !.at = "done", !.buffered = <<>>, !.replayed = {}]
    <3>1. replay' = [replay EXCEPT ![c][n] = s]
      BY <2>3 DEF Replays
    <3>2. Evolves(r, s)
      BY <1>0, <2>1 DEF Evolves, Fields
    <3> QED  BY <3>1, <3>2, OneEvolves
  <2> QED  BY <1>7, <2>2, <2>3 DEF NextBatch
<1>8. CASE SendHeld(c, n)
  <2>1. replay' = [replay EXCEPT ![c][n] = [r EXCEPT !.todo = Tail(@)]]
    BY <1>8 DEF SendHeld, Replays
  <2>2. Evolves(r, [r EXCEPT !.todo = Tail(@)])
    BY <1>0 DEF Evolves, Fields
  <2> QED  BY <2>1, <2>2, OneEvolves
<1> QED
  BY <1>1, <1>2, <1>3, <1>4, <1>5, <1>6, <1>7, <1>8 DEF RequestStep, PrepareStep, ReplayStep

-----------------------------------------------------------------------------
(* A step that evolves the replays keeps what is said of them *)

LEMMA EndOfTime == ASSUME FlowAssumption, LogInv PROVE Len(log) \in Nat /\ Len(log) < Now
BY DEF FlowAssumption, LogInv, LogOK, LogIsShort, One, Now

(* The range over a missing event is refused: its marker is in it, or its   *)
(* start has been trimmed.                                                  *)
LEMMA HoleRefused ==
  ASSUME FlowAssumption, LogInv, NEW r, ReplayOK(r, Len(log)),
         NEW p \in missed, r.after <= p, p < r.through
  PROVE  Refused(r)
<1>1. /\ r.after \in Nat /\ r.through \in Nat /\ r.through <= Len(log)
      /\ Len(log) \in Nat /\ Len(log) < Now /\ trimmed \in Nat /\ Now \in Nat
  BY EndOfTime DEF FlowAssumption, ReplayOK, LogInv, LogOK, Now
<1>2. p \in 0 .. Len(log) - 1 /\ log[p + 1] = 0
  BY <1>1 DEF LogInv, MissedAreMarked
<1>3. ~Trivial(r)
  BY <1>1, <1>2 DEF Trivial
<1>4. CASE trimmed < p + 1
  <2>1. p + 1 \in Entries(r.after, r.through)
    BY <1>1, <1>2, <1>4 DEF Entries
  <2> QED  BY <1>2, <1>3, <2>1 DEF Refused
<1>5. CASE p + 1 <= trimmed
  <2>1. TooOld(r.after)
    BY <1>1, <1>2, <1>5 DEF TooOld, LogInv, LogOK, FlowAssumption
  <2> QED  BY <1>3, <2>1 DEF Refused
<1> QED  BY <1>1, <1>2, <1>4, <1>5

LEMMA ReplaysKept ==
  ASSUME LogOK, LogOK', Len(log) <= Len(log'), Replays, Evolution PROVE Replays'
<1> SUFFICES ASSUME NEW c \in Conns, NEW n \in Asked
             PROVE  ReplayOK(replay'[c][n], Len(log'))
  BY DEF Replays, Evolution
<1>1. ReplayOK(replay[c][n], Len(log)) /\ Evolves(replay[c][n], replay'[c][n])
  BY DEF Replays, Evolution
<1>2. Len(log) \in Nat /\ Len(log') \in Nat
  BY DEF LogOK
<1> QED  BY <1>1, <1>2 DEF ReplayOK, Evolves, Places

LEMMA WholeKept ==
  ASSUME FlowAssumption, LogInv, Replays, AllWhole, Evolution,
         Len(log) <= Len(log'), LogOK', missed' \subseteq missed \union {Len(log')}
  PROVE  AllWhole'
<1> SUFFICES ASSUME NEW c \in Conns, NEW n \in Asked
             PROVE  Whole(replay'[c][n], missed')
  BY DEF AllWhole
<1> DEFINE r == replay[c][n]
           s == replay'[c][n]
<1>1. ReplayOK(r, Len(log)) /\ Evolves(r, s) /\ Whole(r, missed)
  BY DEF Replays, Evolution, AllWhole
<1>2. Len(log) \in Nat /\ Len(log') \in Nat
  BY DEF LogInv, LogOK
<1>3. \A p \in missed : p \in Nat
  BY <1>2 DEF LogInv, MissedAreMarked
<1>4. SUFFICES ASSUME s.at \in {"sending", "flushing", "done"}, NEW p \in missed'
               PROVE  ~(s.after <= p /\ p < s.through)
  BY DEF Whole
<1>5. CASE s.through = 0
  BY <1>2, <1>3, <1>5
<1>6. CASE s.after = r.after /\ s.through = r.through
  <2>1. CASE p = Len(log')
    BY <1>1, <1>2, <1>6, <2>1 DEF ReplayOK
  <2>2. CASE p \in missed /\ r.at \in {"sending", "flushing", "done"}
    BY <1>1, <1>6, <2>2 DEF Whole
  <2>3. CASE p \in missed /\ ~Refused(r)
    BY <1>1, <1>6, <2>3, HoleRefused
  <2>4. r.at \in {"sending", "flushing", "done"} \/ ~Refused(r) \/ s.through = 0
    BY <1>1, <1>4 DEF Evolves
  <2> QED  BY <1>5, <2>1, <2>2, <2>3, <2>4
<1> QED  BY <1>1, <1>4, <1>5, <1>6 DEF Evolves

(* A step of the poller adds to the log, and misses at its end at most. *)
LEMMA LogGrows ==
  ASSUME FlowAssumption, LogInv, [Next]_vars
  PROVE  Len(log) <= Len(log') /\ missed' \subseteq missed \union {Len(log')}
<1>0. Len(log) \in Nat /\ 0 \in 0 .. MaxEvents
  BY DEF FlowAssumption, LogInv, LogOK
<1>1. CASE UNCHANGED <<log, missed>>
  BY <1>0, <1>1
<1>2. ASSUME NEW e \in 0 .. MaxEvents, Xadd(e) PROVE Len(log) <= Len(log')
  BY <1>0, <1>2, XaddLog DEF LogInv
<1>3. CASE Quiet
  BY <1>1, <1>3 DEF Quiet
<1>4. CASE Unavailable
  BY <1>0, <1>4 DEF Unavailable, Miss
<1>5. CASE AppendFails
  BY <1>0, <1>2, <1>5 DEF AppendFails, Miss
<1>6. CASE MarkGap
  BY <1>0, <1>2, <1>6 DEF MarkGap
<1>7. CASE AppendEvent
  <2>1. next \in 0 .. MaxEvents
    BY <1>7 DEF AppendEvent, LogInv, LogOK
  <2> QED  BY <1>2, <1>7, <2>1 DEF AppendEvent
<1>8. CASE AnswerLost \/ Restart \/ Deliver
  BY <1>1, <1>8 DEF AnswerLost, Restart, Deliver, store
<1>9. CASE UNCHANGED vars
  BY <1>1, <1>9 DEF vars, store, feed
<1> QED
  BY <1>3, <1>4, <1>5, <1>6, <1>7, <1>8, <1>9, Kinds, ConnQuiet, RequestQuiet
     DEF PollerStep, DeliverStep

-----------------------------------------------------------------------------
(* The theorems *)

LEMMA InitIInv == ASSUME FlowAssumption, Init PROVE IInv
<1>1. LogInv
  BY InitLog
<1>2. Replays /\ AllWhole
  BY DEF Init, Replays, ReplayOK, Fields, Places, AllWhole, Whole, NoAsk, NoReplay
<1> QED  BY <1>1, <1>2 DEF IInv

LEMMA NextIInv == ASSUME FlowAssumption, IInv, [Next]_vars PROVE IInv'
<1>1. LogInv'
  BY LogKept DEF IInv
<1>2. Evolution
  <2>1. CASE UNCHANGED vars
    BY <2>1, SameEvolution DEF IInv, vars, fanout
  <2>2. CASE Next
    BY <2>2, Kinds, PollerEvolves, ConnEvolves, RequestEvolves DEF IInv, LogInv
  <2> QED  BY <2>1, <2>2
<1>3. Len(log) <= Len(log') /\ missed' \subseteq missed \union {Len(log')}
  BY LogGrows DEF IInv
<1>4. Replays' /\ AllWhole'
  BY <1>1, <1>2, <1>3, ReplaysKept, WholeKept DEF IInv, LogInv
<1> QED  BY <1>1, <1>4 DEF IInv

(* The inductive invariant of the replay log and the replays read from it:  *)
(* append marks a gap before the next event, and nothing is read over one.  *)
THEOREM Invariance == Spec => []IInv
<1>1. Init => IInv
  BY InitIInv, FlowAssumption
<1>2. IInv /\ [Next]_vars => IInv'
  BY NextIInv, FlowAssumption
<1> QED  BY <1>1, <1>2, PTL DEF Spec

(* replay() raises FlowReplayIncompleteError for every range that crosses   *)
(* an event the log has lost, trimmed markers and restarts included: no     *)
(* client is sent a replay with a hole it is not told of.                   *)
THEOREM NoHoleIsSent == Spec => []GapFailsClosed
<1>1. IInv => GapFailsClosed
  BY DEF IInv, AllWhole, Whole, GapFailsClosed, Served
<1> QED  BY <1>1, Invariance, PTL

-----------------------------------------------------------------------------
(* Lemmas about increasing sequences *)

NatLess == {p \in Nat \X Nat : p[1] < p[2]}

(* The order of the naturals, as a relation, is well founded. *)
LEMMA NatLessWellFounded == IsWellFoundedOn(NatLess, Nat)
BY NatLessThanWellFounded DEF OpToRel, NatLess

(* A nonempty set of naturals has a least element. *)
LEMMA LeastNatural ==
  ASSUME NEW S \in SUBSET Nat, S # {}
  PROVE  \E n \in S : \A k \in S : n <= k
<1>1. PICK n \in S : \A k \in S : ~ (<<k, n>> \in NatLess)
  BY NatLessWellFounded, WFMin
<1>2. SUFFICES ASSUME NEW k \in S PROVE n <= k
  OBVIOUS
<1>3. k \in Nat /\ n \in Nat /\ ~ (<<k, n>> \in NatLess)
  BY <1>1
<1> QED  BY <1>3 DEF NatLess

(* An event later than all of a queue is put at its end. *)
LEMMA AppendLater ==
  ASSUME NEW s \in Seq(Nat), NEW e \in Nat, Increasing(s), \A x \in ElementsOf(s) : x < e
  PROVE  /\ Increasing(Append(s, e))
         /\ ElementsOf(Append(s, e)) = ElementsOf(s) \union {e}
<1>1. /\ Len(s) \in Nat /\ DOMAIN s = 1 .. Len(s)
      /\ DOMAIN Append(s, e) = 1 .. Len(s) + 1
      /\ \A i \in 1 .. Len(s) : Append(s, e)[i] = s[i] /\ s[i] \in Nat /\ s[i] \in ElementsOf(s)
      /\ Append(s, e)[Len(s) + 1] = e
  BY DEF ElementsOf
<1> DEFINE t == Append(s, e)
<1>2. /\ DOMAIN t = 1 .. Len(s) + 1 /\ t[Len(s) + 1] = e
      /\ \A i \in 1 .. Len(s) : t[i] = s[i] /\ s[i] < e
  BY <1>1
<1> HIDE DEF t
<1>3. Increasing(t)
  <2> SUFFICES ASSUME NEW i \in 1 .. Len(s) + 1, NEW j \in 1 .. Len(s) + 1, i < j
               PROVE  t[i] < t[j]
    BY <1>2 DEF Increasing
  <2>1. CASE j = Len(s) + 1
    BY <1>1, <1>2, <2>1
  <2>2. CASE j \in 1 .. Len(s)
    <3>1. i \in DOMAIN s /\ j \in DOMAIN s /\ t[i] = s[i] /\ t[j] = s[j]
      BY <1>1, <1>2, <2>2
    <3> QED  BY <3>1 DEF Increasing
  <2>3. j = Len(s) + 1 \/ j \in 1 .. Len(s)
    BY <1>1
  <2> QED  BY <2>1, <2>2, <2>3
<1>4. ElementsOf(t) = ElementsOf(s) \union {e}
  <2>1. {t[i] : i \in 1 .. Len(s) + 1} = {s[i] : i \in 1 .. Len(s)} \union {e}
    BY <1>1, <1>2
  <2> QED  BY <1>1, <1>2, <2>1 DEF ElementsOf
<1> QED  BY <1>3, <1>4 DEF t

(* The head of a queue is earlier than the rest. *)
LEMMA HeadFirst ==
  ASSUME NEW s \in Seq(Nat), Increasing(s), s # <<>>
  PROVE  /\ Head(s) \in Nat /\ Tail(s) \in Seq(Nat) /\ Increasing(Tail(s))
         /\ ElementsOf(s) = {Head(s)} \union ElementsOf(Tail(s))
         /\ \A x \in ElementsOf(Tail(s)) : Head(s) < x
<1>1. /\ Len(s) \in Nat /\ Len(s) > 0 /\ DOMAIN s = 1 .. Len(s)
      /\ Head(s) = s[1] /\ Head(s) \in Nat
      /\ Tail(s) \in Seq(Nat) /\ DOMAIN Tail(s) = 1 .. Len(s) - 1
      /\ \A i \in 1 .. Len(s) - 1 : Tail(s)[i] = s[i + 1]
  OBVIOUS
<1> DEFINE t == Tail(s)
<1>2. /\ DOMAIN t = 1 .. Len(s) - 1 /\ \A i \in 1 .. Len(s) - 1 : t[i] = s[i + 1]
  BY <1>1
<1> HIDE DEF t
<1>3. \A i, j \in 1 .. Len(s) : i < j => s[i] < s[j]
  BY <1>1 DEF Increasing
<1>4. Increasing(t)
  <2> SUFFICES ASSUME NEW i \in 1 .. Len(s) - 1, NEW j \in 1 .. Len(s) - 1, i < j
               PROVE  t[i] < t[j]
    BY <1>2 DEF Increasing
  <2>1. i + 1 \in 1 .. Len(s) /\ j + 1 \in 1 .. Len(s) /\ i + 1 < j + 1
    BY <1>1
  <2> QED  BY <1>2, <1>3, <2>1
<1>5. \A x \in ElementsOf(t) : s[1] < x
  <2> SUFFICES ASSUME NEW i \in 1 .. Len(s) - 1 PROVE s[1] < t[i]
    BY <1>2 DEF ElementsOf
  <2>1. 1 \in 1 .. Len(s) /\ i + 1 \in 1 .. Len(s) /\ 1 < i + 1
    BY <1>1
  <2> QED  BY <1>2, <1>3, <2>1
<1>6. ElementsOf(s) = {s[1]} \union ElementsOf(t)
  <2>1. ASSUME NEW i \in 1 .. Len(s) PROVE s[i] \in {s[1]} \union ElementsOf(t)
    <3>1. CASE i # 1
      <4>1. i - 1 \in 1 .. Len(s) - 1 /\ (i - 1) + 1 = i
        BY <1>1, <3>1
      <4> QED  BY <1>2, <4>1 DEF ElementsOf
    <3> QED  BY <3>1
  <2>2. ASSUME NEW i \in 1 .. Len(s) - 1 PROVE t[i] \in ElementsOf(s)
    <3>1. i + 1 \in 1 .. Len(s)
      BY <1>1
    <3> QED  BY <1>1, <1>2, <3>1 DEF ElementsOf
  <2>3. s[1] \in ElementsOf(s)
    BY <1>1 DEF ElementsOf
  <2> QED  BY <1>1, <1>2, <2>1, <2>2, <2>3, ZenonT(80) DEF ElementsOf
<1> QED  BY <1>1, <1>4, <1>5, <1>6 DEF t

IsListing(s, S) ==
  s \in [1 .. Cardinality(S) -> S] /\ ElementsOf(s) = S /\ Increasing(s)

(* Every finite set of positions has a listing, by induction on its bound.  *)
LEMMA ListingExists ==
  ASSUME NEW m \in Nat, NEW S \in SUBSET (1 .. m) PROVE \E s : IsListing(s, S)
<1> DEFINE Lists(k) == \A T \in SUBSET (1 .. k) : \E s : IsListing(s, T)
           Bad == {k \in Nat : ~Lists(k)}
<1>1. Lists(0)
  <2>1. Cardinality({}) = 0
    BY FS_EmptySet
  <2>2. IsListing(<<>>, {})
    BY <2>1 DEF IsListing, ElementsOf, Increasing
  <2>3. ASSUME NEW T \in SUBSET (1 .. 0) PROVE T = {}
    OBVIOUS
  <2> QED  BY <2>2, <2>3
<1>2. ASSUME NEW k \in Nat, Lists(k) PROVE Lists(k + 1)
  <2> SUFFICES ASSUME NEW T \in SUBSET (1 .. k + 1) PROVE \E s : IsListing(s, T)
    OBVIOUS
  <2>1. CASE k + 1 \notin T
    <3>1. T \in SUBSET (1 .. k)
      BY <2>1
    <3> QED  BY <1>2, <3>1
  <2>2. CASE k + 1 \in T
    <3> DEFINE U == T \ {k + 1}
    <3>1. U \in SUBSET (1 .. k) /\ T = U \union {k + 1}
      BY <2>2
    <3>2. PICK s : IsListing(s, U)
      BY <1>2, <3>1
    <3>3. IsFiniteSet(1 .. k + 1)
      BY FS_Interval
    <3>4. IsFiniteSet(T)
      BY <3>3, FS_Subset
    <3>5. Cardinality(T) \in Nat /\ Cardinality(U) \in Nat
          /\ Cardinality(U) = Cardinality(T) - 1
      BY <2>2, <3>4, FS_RemoveElement, FS_CardinalityType
    <3>6. Cardinality(T) = Cardinality(U) + 1
      BY <3>5
    <3> DEFINE n == Cardinality(U)
    <3>7. /\ n \in Nat /\ s \in [1 .. n -> U] /\ ElementsOf(s) = U /\ Increasing(s)
          /\ Cardinality(T) = n + 1
      BY <3>2, <3>5, <3>6 DEF IsListing
    <3> HIDE DEF n, U
    <3>8. s \in Seq(Nat) /\ Len(s) = n /\ \A x \in ElementsOf(s) : x < k + 1
      <4>1. \A x \in U : x \in Nat /\ x < k + 1
        BY <3>1
      <4>2. s = [i \in 1 .. n |-> s[i]] /\ \A i \in 1 .. n : s[i] \in U
        BY <3>7
      <4>3. \A i \in 1 .. n : s[i] \in Nat
        BY <4>1, <4>2
      <4>4. [i \in 1 .. n |-> s[i]] \in Seq(Nat) /\ Len([i \in 1 .. n |-> s[i]]) = n
        BY <3>7, <4>3
      <4>5. s \in Seq(Nat) /\ Len(s) = n
        BY <4>2, <4>4
      <4> QED  BY <3>7, <4>1, <4>5
    <3>9. Increasing(Append(s, k + 1)) /\ ElementsOf(Append(s, k + 1)) = T
      BY <3>1, <3>7, <3>8, AppendLater
    <3>10. Append(s, k + 1) \in Seq(T) /\ Len(Append(s, k + 1)) = n + 1
      <4>1. s \in Seq(T)
        BY <3>1, <3>7
      <4> QED  BY <2>2, <3>8, <4>1
    <3>11. Append(s, k + 1) \in [1 .. n + 1 -> T]
      <4> DEFINE a == Append(s, k + 1)
      <4>1. a \in Seq(T) /\ Len(a) = n + 1
        BY <3>10
      <4> HIDE DEF a
      <4>2. a \in [1 .. n + 1 -> T]
        BY <4>1
      <4> QED  BY <4>2 DEF a
    <3> QED  BY <3>7, <3>9, <3>11 DEF IsListing
  <2> QED  BY <2>1, <2>2
<1> HIDE DEF Lists
<1>3. Bad = {}
  <2> SUFFICES ASSUME Bad # {} PROVE FALSE
    OBVIOUS
  <2>1. PICK k \in Bad : \A j \in Bad : k <= j
    BY LeastNatural
  <2>2. k \in Nat /\ ~Lists(k) /\ k # 0
    BY <1>1, <2>1
  <2>3. k - 1 \in Nat /\ (k - 1) + 1 = k
    BY <2>2
  <2>4. k - 1 \notin Bad
    BY <2>1, <2>2, <2>3
  <2>5. Lists((k - 1) + 1)
    BY <1>2, <2>3, <2>4
  <2> QED  BY <2>2, <2>3, <2>5
<1>4. Lists(m)
  BY <1>3
<1> QED  BY <1>4 DEF Lists

(* The entries of a set of positions, in the order of the log. *)
LEMMA InOrderLists ==
  ASSUME NEW m \in Nat, NEW S \in SUBSET (1 .. m)
  PROVE  InOrder(S) \in Seq(S) /\ ElementsOf(InOrder(S)) = S /\ Increasing(InOrder(S))
<1>1. \E s \in [1 .. Cardinality(S) -> S] : ElementsOf(s) = S /\ Increasing(s)
  BY ListingExists DEF IsListing
<1>2. InOrder(S) \in [1 .. Cardinality(S) -> S] /\ ElementsOf(InOrder(S)) = S
      /\ Increasing(InOrder(S))
  BY <1>1 DEF InOrder
<1>3. Cardinality(S) \in Nat
  <2>1. IsFiniteSet(1 .. m)
    BY FS_Interval
  <2>2. IsFiniteSet(S)
    BY <2>1, FS_Subset
  <2> QED  BY <2>2, FS_CardinalityType
<1> QED  BY <1>2, <1>3

(* What _flush_replay_buffer sends of a batch: the held events that the     *)
(* replay has not sent, in their order.                                     *)
LEMMA FreshLists ==
  ASSUME NEW T \in SUBSET Nat, NEW r, r.buffered \in Seq(T), Increasing(r.buffered)
  PROVE  /\ Fresh(r) \in Seq(T) /\ Increasing(Fresh(r))
         /\ ElementsOf(Fresh(r)) = ElementsOf(r.buffered) \ r.replayed
<1> DEFINE b == r.buffered
           K == {i \in DOMAIN b : b[i] \notin r.replayed}
           kept == InOrder(K)
           f == [i \in DOMAIN kept |-> b[kept[i]]]
<1>0. b \in Seq(T) /\ Increasing(b)
  OBVIOUS
<1> HIDE DEF b
<1>a. Len(b) \in Nat /\ DOMAIN b = 1 .. Len(b)
  BY <1>0
<1>b. \A i \in 1 .. Len(b) : b[i] \in T
  BY <1>0
<1>1. Len(b) \in Nat /\ DOMAIN b = 1 .. Len(b) /\ \A i \in DOMAIN b : b[i] \in T /\ b[i] \in Nat
  BY <1>a, <1>b
<1>2. K \in SUBSET (1 .. Len(b))
  BY <1>1
<1>3. kept \in Seq(K) /\ ElementsOf(kept) = K /\ Increasing(kept)
  BY <1>1, <1>2, InOrderLists
<1> HIDE DEF kept
<1>4. Len(kept) \in Nat /\ DOMAIN kept = 1 .. Len(kept) /\ \A i \in DOMAIN kept : kept[i] \in K
  BY <1>3
<1>5. f \in Seq(T) /\ DOMAIN f = DOMAIN kept /\ \A i \in DOMAIN kept : f[i] = b[kept[i]]
  BY <1>1, <1>4
<1>6. Fresh(r) = f
  BY DEF Fresh, kept, b
<1> HIDE DEF f
<1>7. Increasing(f)
  <2> SUFFICES ASSUME NEW i \in DOMAIN kept, NEW j \in DOMAIN kept, i < j PROVE f[i] < f[j]
    BY <1>5 DEF Increasing
  <2>1. kept[i] < kept[j]
    BY <1>3 DEF Increasing
  <2> QED  BY <1>0, <1>4, <1>5, <2>1 DEF Increasing
<1>8. ElementsOf(f) = ElementsOf(b) \ r.replayed
  <2>1. ASSUME NEW i \in DOMAIN kept PROVE f[i] \in ElementsOf(b) \ r.replayed
    BY <1>4, <1>5 DEF ElementsOf
  <2>2. ASSUME NEW i \in DOMAIN b, b[i] \notin r.replayed PROVE b[i] \in ElementsOf(f)
    <3>1. i \in ElementsOf(kept)
      BY <1>3, <2>2
    <3>2. PICK k \in DOMAIN kept : kept[k] = i
      BY <3>1 DEF ElementsOf
    <3>3. k \in DOMAIN f /\ f[k] = b[i]
      BY <1>5, <3>2
    <3> QED  BY <3>3 DEF ElementsOf
  <2> QED  BY <1>5, <2>1, <2>2 DEF ElementsOf
<1> QED  BY <1>5, <1>6, <1>7, <1>8 DEF b

-----------------------------------------------------------------------------
(* The queues of a connection *)

(* The end of what the poller has handed over. *)
Handed == IF poller = "answered" THEN Len(log) - 1 ELSE Len(log)

UnderWay == {"preparing", "prepared", "reading", "sending", "flushing"}

Replay ==
  [at: Places, of: SUBSET Symbols, after: Nat, through: Nat, buffered: Seq(Cursors),
   todo: Seq(Cursors), replayed: SUBSET Cursors]

Shape ==
  /\ healthy \in BOOLEAN
  /\ conn \in [Conns -> {"new", "open", "gone"}]
  /\ symbols \in [Conns -> SUBSET Symbols]
  /\ pending \in [Conns -> 0 .. MaxAsks]
  /\ replay \in [Conns -> [Asked -> Replay]]
  /\ live \in [Conns -> Seq(Cursors)]
  /\ sent \in [Conns -> Seq(Cursors)]
  /\ excused \in [Conns -> SUBSET Cursors]
  /\ asks \in [Conns -> 0 .. MaxAsks]
  /\ poller = "answered" => log # <<>> /\ log[Len(log)] = next

(* A barrier is that of a request under way, requests are counted, and a    *)
(* connection that has asked for nothing is sent nothing.                   *)
Owned(c) ==
  /\ pending[c] # 0 => replay[c][pending[c]].at \in UnderWay
  /\ \A n \in Asked : replay[c][n].at # "none" => n <= asks[c]
  /\ asks[c] = 0 => symbols[c] = {} /\ live[c] = <<>> /\ sent[c] = <<>> /\ pending[c] = 0

(* Live sends, and what a barrier holds back, are in the order of the log   *)
(* and have been handed over by the poller.                                 *)
LiveOrdered(c) ==
  /\ Increasing(live[c]) /\ \A x \in ElementsOf(live[c]) : x <= Handed
  /\ \A x \in Sent(c) : x <= Len(log)

Ordered(c, n) ==
  LET r == replay[c][n] IN
  /\ r.at \notin UnderWay => r.buffered = <<>>
  /\ r.at \notin {"sending", "flushing"} => r.todo = <<>> /\ r.replayed = {}
  /\ Increasing(r.buffered) /\ \A x \in ElementsOf(r.buffered) : x <= Handed
  /\ Increasing(r.todo)
  /\ r.at = "sending" => \A x \in ElementsOf(r.todo) : x <= r.through
  /\ r.at = "flushing" => /\ \A x \in ElementsOf(r.todo) : x <= Handed
                          /\ \A x \in ElementsOf(r.todo), y \in ElementsOf(r.buffered) : x < y

Arranged(c) == Owned(c) /\ LiveOrdered(c) /\ \A n \in Asked : Ordered(c, n)

(* The events an only resumption owes its connection, and how far the task   *)
(* has come with them.                                                      *)
Queued(c, i) ==
  \/ i \in ElementsOf(replay[c][1].todo) \/ i \in ElementsOf(replay[c][1].buffered)
  \/ i \in ElementsOf(live[c])
  \/ i > Handed

Complete(c) ==
  LET r == replay[c][1]
      due == Due(c, 1)
  IN
  /\ r.of \subseteq symbols[c]
  /\ r.at \in UnderWay => pending[c] = 1 /\ live[c] = <<>>
  /\ r.at = "done" => pending[c] = 0
  /\ r.at \in {"preparing", "prepared", "reading"} => sent[c] = <<>>
  /\ r.replayed \subseteq Sent(c)
  /\ r.at \in {"prepared", "reading"} => \A i \in due : i > r.through => Queued(c, i)
  /\ r.at \in {"sending", "flushing", "done"} =>
       /\ \A i \in due \ Sent(c) : Queued(c, i)
       /\ \A i \in due \ Sent(c), j \in due \intersect Sent(c) : j < i
  /\ r.at = "sending" =>
       \A i \in due \ Sent(c) : i <= r.through => i \in ElementsOf(r.todo)

(* The request was refused or its replay failed: nothing is owed. *)
Over(c) == replay[c][1].at \in {"refused", "done"} /\ replay[c][1].of = {}

NoneSkipped(c) ==
  Resumptions(c) = {1} => excused[c] = Cursors \/ Over(c) \/ Complete(c)

(* The only request of a connection resumes: what is sent, and what is      *)
(* still to be sent, holds at most the end of the range twice.              *)
Once(c) ==
  LET r == replay[c][1] IN
  /\ r.at \in UnderWay => pending[c] = 1 /\ live[c] = <<>>
  /\ r.at = "done" => pending[c] = 0
  /\ r.at \in {"preparing", "prepared", "reading"} => sent[c] = <<>>
  /\ r.at = "sending" => Sent(c) \subseteq r.replayed /\ \A x \in Sent(c) : x <= r.through
  /\ \A x \in Sent(c) : x > Handed => x = r.through
  /\ \A i, j \in DOMAIN sent[c] : i < j /\ sent[c][i] = sent[c][j] => sent[c][i] = r.through
  /\ ElementsOf(r.todo) \intersect Sent(c) \subseteq {r.through}
  /\ ElementsOf(r.buffered) \intersect Sent(c) \subseteq r.replayed \union {r.through}
  /\ ElementsOf(live[c]) \intersect Sent(c) \subseteq {r.through}

NoneRepeated(c) ==
  asks[c] = 1 /\ Resumptions(c) = {1} => replay[c][1].at = "refused" \/ Once(c)

Good(c) == Arranged(c) /\ NoneSkipped(c) /\ NoneRepeated(c)

QInv == IInv /\ Shape /\ \A c \in Conns : Good(c)

-----------------------------------------------------------------------------
(* Steps that leave a connection alone *)

SameQueues(c) ==
  /\ symbols'[c] = symbols[c] /\ pending'[c] = pending[c] /\ replay'[c] = replay[c]
  /\ live'[c] = live[c] /\ sent'[c] = sent[c] /\ asks'[c] = asks[c]

SameConn(c) == SameQueues(c) /\ excused'[c] = excused[c]

LEMMA HandedBounds ==
  ASSUME LogOK, Shape
  PROVE  Len(log) \in Nat /\ Handed \in Nat /\ Handed <= Len(log) /\ Len(log) <= Handed + 1
<1>1. Len(log) \in Nat
  BY DEF LogOK
<1>2. poller = "answered" => Len(log) > 0
  BY DEF LogOK, Shape
<1> QED  BY <1>1, <1>2 DEF Handed

LEMMA HandedBoundsNext ==
  ASSUME LogOK', Shape'
  PROVE  Len(log') \in Nat /\ Handed' \in Nat /\ Handed' <= Len(log') /\ Len(log') <= Handed' + 1
<1>1. Len(log') \in Nat
  BY DEF LogOK
<1>2. poller' = "answered" => Len(log') > 0
  BY DEF LogOK, Shape
<1> QED  BY <1>1, <1>2 DEF Handed

LEMMA ElementsType == ASSUME NEW T, NEW s \in Seq(T) PROVE ElementsOf(s) \subseteq T
BY DEF ElementsOf

LEMMA CursorsNat == \A x \in Cursors : x \in Nat
BY DEF Cursors

LEMMA SameArranged ==
  ASSUME NEW c \in Conns, SameConn(c), UNCHANGED <<log, poller>>, Arranged(c)
  PROVE  Arranged(c)'
BY DEF SameConn, SameQueues, Arranged, Owned, LiveOrdered, Ordered, Sent, Handed

LEMMA SameSkipped ==
  ASSUME NEW c \in Conns, SameConn(c), UNCHANGED <<log, poller>>, NoneSkipped(c)
  PROVE  NoneSkipped(c)'
<1>1. Due(c, 1)' = Due(c, 1) /\ Sent(c)' = Sent(c)
  BY DEF SameConn, SameQueues, Due, Sent, IsOf
<1> QED  BY <1>1 DEF SameConn, SameQueues, NoneSkipped, Resumptions, Over, Complete, Queued, Handed

LEMMA SameRepeated ==
  ASSUME NEW c \in Conns, SameConn(c), UNCHANGED <<log, poller>>, NoneRepeated(c)
  PROVE  NoneRepeated(c)'
BY DEF SameConn, SameQueues, NoneRepeated, Resumptions, Once, Sent, Handed

LEMMA SameGood ==
  ASSUME NEW c \in Conns, SameConn(c), UNCHANGED <<log, poller>>, Good(c)
  PROVE  Good(c)'
BY SameArranged, SameSkipped, SameRepeated DEF Good

-----------------------------------------------------------------------------
(* The poller and the queues of a connection *)

(* What the poller has handed over stays handed over. *)
LEMMA LaterOrdered ==
  ASSUME NEW c, NEW n, replay[c][n] \in Replay, replay'[c][n] = replay[c][n], Ordered(c, n),
         Handed \in Nat, Handed' \in Nat, Handed <= Handed'
  PROVE  Ordered(c, n)'
<1>1. /\ replay[c][n].buffered \in Seq(Cursors) /\ replay[c][n].todo \in Seq(Cursors)
  BY DEF Replay
<1>2. /\ \A x \in ElementsOf(replay[c][n].buffered) : x \in Nat /\ x <= Handed
      /\ \A x \in ElementsOf(replay[c][n].todo) : x \in Nat
  BY <1>1, ElementsType, CursorsNat DEF Ordered
<1> QED  BY <1>2 DEF Ordered

LEMMA LaterArranged ==
  ASSUME NEW c \in Conns, SameQueues(c), LogOK, LogOK', Shape, Shape', Arranged(c),
         Handed <= Handed', Len(log) <= Len(log')
  PROVE  Arranged(c)'
<1>1. /\ Handed \in Nat /\ Handed' \in Nat /\ Len(log) \in Nat /\ Len(log') \in Nat
  BY HandedBounds, HandedBoundsNext
<1>2. ASSUME NEW s \in Seq(Cursors), NEW x \in ElementsOf(s) PROVE x \in Nat
  BY <1>2, ElementsType, CursorsNat
<1>3. Owned(c)'
  BY DEF Arranged, SameQueues, Owned
<1>4. LiveOrdered(c)'
  <2>1. \A x \in ElementsOf(live[c]) : x \in Nat /\ x <= Handed
    BY <1>2 DEF Arranged, LiveOrdered, Shape
  <2>2. \A x \in Sent(c) : x \in Nat /\ x <= Len(log)
    BY <1>2 DEF Arranged, LiveOrdered, Shape, Sent
  <2> QED  BY <1>1, <2>1, <2>2 DEF Arranged, SameQueues, LiveOrdered, Sent
<1>5. ASSUME NEW n \in Asked PROVE Ordered(c, n)'
  <2>1. replay[c][n] \in Replay /\ replay'[c][n] = replay[c][n] /\ Ordered(c, n)
    BY DEF Shape, SameQueues, Arranged
  <2> QED  BY <1>1, <2>1, LaterOrdered
<1> QED  BY <1>3, <1>4, <1>5 DEF Arranged

(* An entry is added to the log: a marker, which is owed to nobody, or an   *)
(* event, which is on its way until the poller hands it over.               *)
LEMMA GrowGood ==
  ASSUME FlowAssumption, LogInv, LogInv', Shape, Shape', Replays,
         poller = "idle", NEW e \in 0 .. MaxEvents, Xadd(e),
         poller' = "answered" \/ (e = 0 /\ poller' = "idle"),
         NEW c \in Conns, SameConn(c), Good(c)
  PROVE  Good(c)'
<1>1. /\ LogOK /\ LogOK' /\ Len(log') = Len(log) + 1 /\ log'[Len(log) + 1] = e
      /\ \A i \in 1 .. Len(log) : log'[i] = log[i]
      /\ Len(log) \in Nat /\ DOMAIN log = 1 .. Len(log) /\ DOMAIN log' = 1 .. Len(log')
  BY XaddLog DEF LogInv, LogOK
<1>2. /\ Handed = Len(log) /\ Handed <= Handed' /\ Len(log) <= Len(log')
      /\ poller' = "answered" => Handed' = Len(log)
  <2>1. Len(log) \in Nat /\ Len(log') = Len(log) + 1
    BY <1>1
  <2>2. Handed = Len(log)
    BY DEF Handed
  <2>3. CASE poller' = "answered"
    <3>1. Handed' = Len(log') - 1
      BY <2>3 DEF Handed
    <3> QED  BY <2>1, <2>2, <3>1
  <2>4. CASE poller' = "idle"
    <3>1. Handed' = Len(log')
      BY <2>4 DEF Handed
    <3> QED  BY <2>1, <2>2, <2>4, <3>1
  <2> QED  BY <2>3, <2>4
<1>3. Arranged(c)'
  BY <1>1, <1>2, LaterArranged DEF Good, SameConn
<1>4. NoneRepeated(c)'
  <2>1. \A x \in Sent(c) : x \in Nat /\ x <= Len(log)
    <3>1. Sent(c) \subseteq Cursors
      BY ElementsType DEF Sent, Shape
    <3> QED  BY <3>1, CursorsNat DEF Good, Arranged, LiveOrdered
  <2>2. \A x \in Sent(c) : ~(x > Handed')
    BY <1>1, <1>2, <2>1, HandedBoundsNext
  <2> QED  BY <2>2 DEF Good, SameConn, SameQueues, NoneRepeated, Resumptions, Once, Sent
<1>5. NoneSkipped(c)'
  <2>1. SUFFICES ASSUME Resumptions(c) = {1}, Complete(c), Asked # {} PROVE Complete(c)'
    BY DEF Good, SameConn, SameQueues, NoneSkipped, Resumptions, Over
  <2> DEFINE r == replay[c][1]
  <2>2. /\ 1 \in Asked /\ replay'[c] = replay[c] /\ sent'[c] = sent[c] /\ live'[c] = live[c]
        /\ excused'[c] = excused[c] /\ Sent(c)' = Sent(c) /\ r \in Replay
        /\ r.through \in Nat /\ r.through <= Len(log)
    BY <1>1, <2>1 DEF SameConn, SameQueues, Resumptions, Sent, Shape, Replays, ReplayOK
  <2>3. ASSUME NEW i \in Due(c, 1)' PROVE i \in Due(c, 1) \/ (i = Len(log) + 1 /\ i > Handed')
    <3>1. CASE i \in 1 .. Len(log)
      <4>1. i \in DOMAIN log /\ log'[i] = log[i] /\ replay'[c][1] = r
        BY <1>1, <2>2, <3>1
      <4>2. i \in Due(c, 1)
        BY <2>2, <2>3, <4>1 DEF Due, IsOf
      <4> QED  BY <4>2
    <3>2. CASE i = Len(log) + 1
      <4>1. log'[i] # 0
        BY <2>3 DEF Due, IsOf
      <4>2. poller' = "answered"
        BY <1>1, <3>2, <4>1
      <4> QED  BY <1>1, <1>2, <3>2, <4>2
    <3> QED  BY <1>1, <2>3, <3>1, <3>2 DEF Due
  <2>4. \A i \in Due(c, 1) : Queued(c, i) => Queued(c, i)' \/ i = Len(log) + 1
    <3> SUFFICES ASSUME NEW i \in Due(c, 1), i > Handed PROVE i = Len(log) + 1
      BY <2>2 DEF Queued
    <3> QED  BY <1>1, <1>2 DEF Due
  <2>5. \A i \in Due(c, 1) : i \in Nat /\ i <= Len(log)
    BY <1>1 DEF Due
  <2>6. \A i \in Due(c, 1) : Queued(c, i) => Queued(c, i)'
    BY <1>1, <2>4, <2>5
  <2>7. \A i \in Due(c, 1)' : i \notin Due(c, 1) => Queued(c, i)' /\ i > Len(log)
    BY <1>1, <2>3 DEF Queued
  <2>8. \A i \in Due(c, 1)' \intersect Sent(c) : i \in Due(c, 1)
    <3>1. \A x \in Sent(c) : x <= Len(log)
      BY DEF Good, Arranged, LiveOrdered
    <3> QED  BY <1>1, <2>3, <3>1
  <2> HIDE DEF r
  <2>9. ASSUME r.at \in {"prepared", "reading"}, NEW i \in Due(c, 1)', i > r.through
        PROVE  Queued(c, i)'
    BY <2>1, <2>6, <2>7, <2>9 DEF Complete, r
  <2>10. ASSUME r.at \in {"sending", "flushing", "done"}, NEW i \in Due(c, 1)' \ Sent(c)
         PROVE  Queued(c, i)'
    BY <2>1, <2>6, <2>7, <2>10 DEF Complete, r
  <2>11. ASSUME r.at \in {"sending", "flushing", "done"},
                NEW i \in Due(c, 1)' \ Sent(c), NEW j \in Due(c, 1)' \intersect Sent(c)
         PROVE  j < i
    <3>1. j \in Due(c, 1) /\ j \in Nat /\ j <= Len(log)
      BY <2>5, <2>8
    <3>2. CASE i \in Due(c, 1)
      BY <2>1, <2>11, <3>1, <3>2 DEF Complete, r
    <3>3. CASE i = Len(log) + 1
      BY <1>1, <3>1, <3>3
    <3> QED  BY <2>3, <3>2, <3>3
  <2>12. ASSUME r.at = "sending", NEW i \in Due(c, 1)' \ Sent(c), i <= r.through
         PROVE  i \in ElementsOf(r.todo)
    <3>1. i \in Due(c, 1)
      BY <1>1, <2>2, <2>3, <2>12
    <3> QED  BY <2>1, <2>12, <3>1 DEF Complete, r
  <2> QED  BY <2>1, <2>2, <2>9, <2>10, <2>11, <2>12 DEF Complete, r, SameConn, SameQueues
<1> QED  BY <1>3, <1>4, <1>5 DEF Good


-----------------------------------------------------------------------------
(* The steps of a request *)

(* Only request n of connection c changes, to s; what else of the          *)
(* connection changes is its barrier, its subscriptions and what it is sent.*)
Becomes(c, n, s) ==
  /\ replay' = [replay EXCEPT ![c][n] = s]
  /\ UNCHANGED <<log, poller, next, conn, live, asks, excused>>
  /\ healthy' \in BOOLEAN
  /\ pending' \in {pending, [pending EXCEPT ![c] = 0]}
  /\ symbols' \in {symbols, [symbols EXCEPT ![c] = {}]}
  /\ sent' = sent \/ \E x \in Cursors : Put(c, x)

LEMMA BecomesShape ==
  ASSUME FlowAssumption, Shape, NEW c \in Conns, NEW n \in Asked, NEW s \in Replay,
         Becomes(c, n, s)
  PROVE  Shape'
<1>1. replay' \in [Conns -> [Asked -> Replay]]
  <2>1. replay \in [Conns -> [Asked -> Replay]] /\ replay' = [replay EXCEPT ![c][n] = s]
    BY DEF Becomes, Shape
  <2>2. [replay[c] EXCEPT ![n] = s] \in [Asked -> Replay]
    BY <2>1
  <2>3. replay' = [replay EXCEPT ![c] = [replay[c] EXCEPT ![n] = s]]
    BY <2>1
  <2> QED  BY <2>1, <2>2, <2>3
<1>2. pending' \in [Conns -> 0 .. MaxAsks] /\ symbols' \in [Conns -> SUBSET Symbols]
  <2>1. 0 \in 0 .. MaxAsks
    BY DEF FlowAssumption
  <2>2. pending' \in [Conns -> 0 .. MaxAsks]
    BY <2>1 DEF Becomes, Shape
  <2>3. symbols' \in [Conns -> SUBSET Symbols]
    BY DEF Becomes, Shape
  <2> QED  BY <2>2, <2>3
<1>3. sent' \in [Conns -> Seq(Cursors)]
  <2>1. CASE sent' = sent
    BY <2>1 DEF Shape
  <2>2. ASSUME NEW x \in Cursors, Put(c, x) PROVE sent' \in [Conns -> Seq(Cursors)]
    <3>1. sent[c] \in Seq(Cursors)
      BY DEF Shape
    <3>2. Append(sent[c], x) \in Seq(Cursors)
      BY <3>1
    <3>3. sent' = [sent EXCEPT ![c] = Append(sent[c], x)]
      BY <2>2 DEF Put
    <3> QED  BY <3>2, <3>3 DEF Shape
  <2> QED  BY <2>1, <2>2 DEF Becomes
<1>4. UNCHANGED <<log, poller, next, conn, live, asks, excused>> /\ healthy' \in BOOLEAN
  BY DEF Becomes
<1> QED  BY <1>1, <1>2, <1>3, <1>4 DEF Shape

LEMMA BecomesOne ==
  ASSUME Shape, NEW c \in Conns, NEW n \in Asked, NEW s, Becomes(c, n, s)
  PROVE  /\ replay'[c][n] = s
         /\ \A m \in Asked : m # n => replay'[c][m] = replay[c][m]
         /\ \A d \in Conns : d # c => SameConn(d)
<1>1. /\ replay'[c][n] = s
      /\ \A m \in Asked : m # n => replay'[c][m] = replay[c][m]
      /\ \A d \in Conns : d # c => replay'[d] = replay[d]
  BY DEF Shape, Becomes
<1>2. ASSUME NEW d \in Conns, d # c
      PROVE  symbols'[d] = symbols[d] /\ pending'[d] = pending[d] /\ sent'[d] = sent[d]
  BY <1>2 DEF Shape, Becomes, Put
<1> QED  BY <1>1, <1>2 DEF Becomes, SameConn, SameQueues

(* What all of these steps have in common. *)
Step(c, n, s) ==
  /\ Shape /\ LogInv /\ Replays /\ Arranged(c)
  /\ s \in Replay /\ Becomes(c, n, s)
  /\ replay[c][n].at \in UnderWay /\ s.at # "none"

LEMMA StepFrame ==
  ASSUME NEW c \in Conns, NEW n \in Asked, NEW s, Step(c, n, s)
  PROVE  /\ replay'[c][n] = s
         /\ \A m \in Asked : m # n => replay'[c][m] = replay[c][m]
         /\ UNCHANGED <<log, poller, live, asks, excused>>
<1>1. Shape /\ Becomes(c, n, s)
  BY DEF Step
<1>2. UNCHANGED <<log, poller, live, asks, excused>>
  BY <1>1 DEF Becomes
<1>3. /\ replay'[c][n] = s
      /\ \A m \in Asked : m # n => replay'[c][m] = replay[c][m]
  BY <1>1, BecomesOne
<1> QED  BY <1>2, <1>3

LEMMA StepArranged ==
  ASSUME FlowAssumption, NEW c \in Conns, NEW n \in Asked, NEW s, Step(c, n, s),
         pending'[c] = 0 \/ (pending'[c] = pending[c] /\ (pending[c] = n => s.at \in UnderWay)),
         \A x \in Sent(c)' : x \in Sent(c) \/ x <= Len(log),
         Ordered(c, n)'
  PROVE  Arranged(c)'
<1>1. /\ replay'[c][n] = s
      /\ \A m \in Asked : m # n => replay'[c][m] = replay[c][m]
      /\ UNCHANGED <<log, poller, live, asks>>
  BY StepFrame
<1>2. Owned(c)'
  <2>1. pending'[c] # 0 => replay'[c][pending'[c]].at \in UnderWay
    <3> SUFFICES ASSUME pending'[c] # 0 PROVE replay'[c][pending'[c]].at \in UnderWay
      OBVIOUS
    <3>1. pending'[c] = pending[c] /\ (pending[c] = n => s.at \in UnderWay)
      OBVIOUS
    <3>2. pending[c] \in Asked
      BY <3>1 DEF FlowAssumption, Step, Shape, Asked
    <3>3. replay[c][pending[c]].at \in UnderWay
      BY <3>1 DEF Step, Arranged, Owned
    <3> QED  BY <1>1, <3>1, <3>2, <3>3
  <2>2. replay[c][n].at # "none" /\ s.at # "none"
    BY DEF Step, UnderWay
  <2>3. \A m \in Asked : replay'[c][m].at # "none" => m <= asks'[c]
    BY <1>1, <2>2 DEF Step, Arranged, Owned
  <2>4. asks'[c] # 0
    BY <1>1, <2>2 DEF FlowAssumption, Step, Arranged, Owned, Asked
  <2> QED  BY <2>1, <2>3, <2>4 DEF Owned
<1>3. LiveOrdered(c)'
  BY <1>1 DEF Step, Arranged, LiveOrdered, Handed
<1>4. \A m \in Asked : Ordered(c, m)'
  <2> SUFFICES ASSUME NEW m \in Asked, m # n PROVE Ordered(c, m)'
    OBVIOUS
  <2>1. Ordered(c, m)
    BY DEF Step, Arranged
  <2> QED  BY <1>1, <2>1 DEF Ordered, Handed
<1> QED  BY <1>2, <1>3, <1>4 DEF Arranged

LEMMA StepResumptions ==
  ASSUME NEW c \in Conns, NEW n \in Asked, NEW s, Step(c, n, s)
  PROVE  /\ Resumptions(c)' = Resumptions(c) /\ n \in Resumptions(c)
         /\ asks'[c] = asks[c] /\ excused'[c] = excused[c]
<1>1. /\ replay'[c][n] = s /\ s.at # "none" /\ replay[c][n].at # "none"
      /\ \A m \in Asked : m # n => replay'[c][m] = replay[c][m]
      /\ asks'[c] = asks[c] /\ excused'[c] = excused[c]
  <2>1. s.at # "none" /\ replay[c][n].at # "none"
    BY DEF Step, UnderWay
  <2> QED  BY <2>1, StepFrame
<1> QED  BY <1>1 DEF Resumptions

LEMMA StepSkipped ==
  ASSUME NEW c \in Conns, NEW n \in Asked, NEW s, Step(c, n, s), NoneSkipped(c),
         n = 1 /\ Complete(c) => Over(c)' \/ Complete(c)'
  PROVE  NoneSkipped(c)'
<1> SUFFICES ASSUME Resumptions(c) = {1}, excused[c] # Cursors
             PROVE  Over(c)' \/ Complete(c)'
  BY StepResumptions DEF NoneSkipped
<1>1. n = 1
  BY StepResumptions
<1>2. ~Over(c)
  BY <1>1 DEF Step, Over, UnderWay
<1> QED  BY <1>1, <1>2 DEF NoneSkipped

LEMMA StepRepeated ==
  ASSUME NEW c \in Conns, NEW n \in Asked, NEW s, Step(c, n, s), NoneRepeated(c),
         n = 1 /\ Once(c) => s.at = "refused" \/ Once(c)'
  PROVE  NoneRepeated(c)'
<1> SUFFICES ASSUME Resumptions(c) = {1}, asks[c] = 1
             PROVE  replay'[c][1].at = "refused" \/ Once(c)'
  BY StepResumptions DEF NoneRepeated
<1>1. n = 1
  BY StepResumptions
<1>2. replay[c][1].at # "refused"
  BY <1>1 DEF Step, UnderWay
<1>3. replay'[c][n] = s
  BY BecomesOne DEF Step
<1> QED  BY <1>1, <1>2, <1>3 DEF NoneRepeated

LEMMA NothingElements == ElementsOf(<<>>) = {} /\ Increasing(<<>>)
BY DEF ElementsOf, Increasing

LEMMA AppendElements ==
  ASSUME NEW T, NEW s \in Seq(T), NEW e \in T
  PROVE  /\ ElementsOf(Append(s, e)) = ElementsOf(s) \union {e}
         /\ \A i, j \in DOMAIN Append(s, e) : i < j =>
              /\ i \in DOMAIN s /\ Append(s, e)[i] = s[i]
              /\ \/ j \in DOMAIN s /\ Append(s, e)[j] = s[j]
                 \/ Append(s, e)[j] = e
<1>1. /\ Len(s) \in Nat /\ DOMAIN s = 1 .. Len(s)
      /\ DOMAIN Append(s, e) = 1 .. Len(s) + 1
      /\ \A i \in 1 .. Len(s) : Append(s, e)[i] = s[i]
      /\ Append(s, e)[Len(s) + 1] = e
  OBVIOUS
<1> DEFINE t == Append(s, e)
<1>2. /\ DOMAIN t = 1 .. Len(s) + 1 /\ t[Len(s) + 1] = e
      /\ \A i \in 1 .. Len(s) : t[i] = s[i]
  BY <1>1
<1> HIDE DEF t
<1>3. {t[i] : i \in 1 .. Len(s) + 1} = {s[i] : i \in 1 .. Len(s)} \union {e}
  BY <1>1, <1>2
<1>4. ElementsOf(t) = ElementsOf(s) \union {e}
  BY <1>1, <1>2, <1>3 DEF ElementsOf
<1>5. ASSUME NEW i \in DOMAIN t, NEW j \in DOMAIN t, i < j
      PROVE  /\ i \in DOMAIN s /\ t[i] = s[i]
             /\ (j \in DOMAIN s /\ t[j] = s[j]) \/ t[j] = e
  BY <1>1, <1>2, <1>5
<1> QED  BY <1>4, <1>5 DEF t

(* Nothing is held back, and nothing is left to send, by a request that has *)
(* ended.                                                                   *)
LEMMA EndedOrdered ==
  ASSUME NEW c, NEW n, replay'[c][n].at \in {"refused", "done"},
         replay'[c][n].buffered = <<>>, replay'[c][n].todo = <<>>, replay'[c][n].replayed = {}
  PROVE  Ordered(c, n)'
BY NothingElements DEF Ordered, UnderWay

Ready(c) == LogInv /\ Replays /\ Shape /\ Good(c)

LEMMA NoReplayType == NoReplay \in Replay
<1>1. {} \in SUBSET Symbols /\ {} \in SUBSET Cursors /\ 0 \in Nat /\ <<>> \in Seq(Cursors)
  OBVIOUS
<1>2. "none" \in Places
  BY DEF Places
<1> QED  BY <1>1, <1>2 DEF NoReplay, Replay

LEMMA Clean ==
  ASSUME NEW a \in Places
  PROVE  LET s == [NoReplay EXCEPT !.at = a] IN
         /\ s \in Replay
         /\ s.at = a /\ s.of = {} /\ s.buffered = <<>> /\ s.todo = <<>> /\ s.replayed = {}
<1>1. /\ NoReplay.of = {} /\ NoReplay.buffered = <<>> /\ NoReplay.todo = <<>>
      /\ NoReplay.replayed = {}
  BY DEF NoReplay
<1> QED  BY <1>1, NoReplayType DEF Replay

(* The facts about request n that a step starts from. *)
LEMMA ReadyRequest ==
  ASSUME FlowAssumption, NEW c \in Conns, NEW n \in Asked, Ready(c)
  PROVE  LET r == replay[c][n] IN
         /\ r \in Replay /\ Ordered(c, n) /\ Arranged(c)
         /\ r.through \in Nat /\ r.through <= Len(log) /\ r.after \in Nat
         /\ r.buffered \in Seq(Cursors) /\ r.todo \in Seq(Cursors)
         /\ r.replayed \subseteq Cursors
         /\ replay = [replay EXCEPT ![c][n] = r]
         /\ sent[c] \in Seq(Cursors) /\ Sent(c) \subseteq Cursors
         /\ Len(log) \in Nat /\ Len(log) < Now /\ DOMAIN log = 1 .. Len(log)
         /\ LogOK
<1>1. replay \in [Conns -> [Asked -> Replay]] /\ sent[c] \in Seq(Cursors)
  BY DEF Ready, Shape
<1>2. replay[c][n] \in Replay /\ replay = [replay EXCEPT ![c][n] = replay[c][n]]
  BY <1>1
<1>3. Sent(c) \subseteq Cursors
  BY <1>1, ElementsType DEF Sent
<1>4. Len(log) \in Nat /\ Len(log) < Now /\ DOMAIN log = 1 .. Len(log) /\ LogOK
  BY EndOfTime DEF Ready, LogInv, LogOK
<1>5. replay[c][n].through \in 0 .. Len(log)
  BY DEF Ready, Replays, ReplayOK
<1>6. Ordered(c, n) /\ Arranged(c)
  BY DEF Ready, Good, Arranged
<1> QED  BY <1>1, <1>2, <1>3, <1>4, <1>5, <1>6 DEF Replay

LEMMA HighWatermarkGood ==
  ASSUME FlowAssumption, NEW c \in Conns, NEW n \in Asked, Ready(c), HighWatermark(c, n)
  PROVE  (\E s : Step(c, n, s)) /\ Good(c)'
<1> DEFINE r == replay[c][n]
           s == [r EXCEPT !.at = "prepared", !.through = Len(log)]
<1>1. /\ r \in Replay /\ Ordered(c, n) /\ r.at = "preparing" /\ Len(log) \in Nat
      /\ Shape /\ replay' = [replay EXCEPT ![c][n] = s]
  <2>1. /\ r \in Replay /\ Ordered(c, n) /\ r.at = "preparing" /\ Len(log) \in Nat /\ Shape
    BY ReadyRequest DEF HighWatermark, Ready
  <2>2. replay' = [replay EXCEPT ![c][n] = s]
    BY ZenonT(80) DEF HighWatermark, Ready, Shape
  <2> QED  BY <2>1, <2>2
<1>2. /\ s \in Replay /\ s.at = "prepared" /\ s.of = r.of /\ s.after = r.after
      /\ s.through = Len(log) /\ s.buffered = r.buffered /\ s.todo = r.todo
      /\ s.replayed = r.replayed
  BY <1>1 DEF Replay, Places
<1> HIDE DEF r, s
<1>3. Becomes(c, n, s)
  BY <1>1 DEF HighWatermark, Becomes, feed
<1>4. Step(c, n, s)
  BY <1>1, <1>2, <1>3, ReadyRequest DEF Step, Ready, UnderWay, r
<1>5. /\ replay'[c][n] = s /\ sent' = sent /\ pending' = pending /\ symbols' = symbols
      /\ Sent(c)' = Sent(c) /\ UNCHANGED <<log, poller, live, excused>>
  <2>1. replay'[c][n] = s
    BY <1>1, <1>3, BecomesOne
  <2>2. UNCHANGED <<log, poller, live, excused, sent, pending, symbols>>
    BY DEF HighWatermark, feed
  <2> QED  BY <2>1, <2>2 DEF Sent
<1>6. Ordered(c, n)'
  BY <1>1, <1>2, <1>5 DEF Ordered, r, UnderWay, Handed
<1>7. Arranged(c)'
  BY <1>2, <1>4, <1>5, <1>6, StepArranged DEF UnderWay
<1>8. ASSUME n = 1, Complete(c) PROVE Complete(c)'
  <2>1. replay'[c][1] = s /\ replay[c][1] = r
    BY <1>5, <1>8 DEF r
  <2>2. \A i \in Due(c, 1)' : ~(i > Len(log))
    <3>1. \A i \in DOMAIN log : ~(i > Len(log))
      BY <1>1, ReadyRequest
    <3> QED  BY <1>5, <3>1 DEF Due
  <2> QED  BY <1>1, <1>2, <1>5, <1>8, <2>1, <2>2 DEF Complete, UnderWay, Ordered, r
<1>9. ASSUME n = 1, Once(c) PROVE Once(c)'
  <2>1. replay'[c][1] = s /\ replay[c][1] = r
    BY <1>5, <1>9 DEF r
  <2>2. sent[c] = <<>> /\ Sent(c) = {}
    BY <1>1, <1>9, <2>1, NothingElements DEF Once, Sent
  <2> QED  BY <1>1, <1>2, <1>5, <1>9, <2>1, <2>2 DEF Once, UnderWay
<1>10. NoneSkipped(c) /\ NoneRepeated(c)
  BY DEF Ready, Good
<1> QED  BY <1>4, <1>7, <1>8, <1>9, <1>10, StepSkipped, StepRepeated DEF Good

LEMMA ResumeRefusedGood ==
  ASSUME FlowAssumption, NEW c \in Conns, NEW n \in Asked, Ready(c), ResumeRefused(c, n)
  PROVE  (\E s : Step(c, n, s)) /\ Good(c)'
<1> DEFINE r == replay[c][n]
           s == [NoReplay EXCEPT !.at = "refused"]
<1>1. /\ r \in Replay /\ r.at = "preparing" /\ Shape /\ replay' = [replay EXCEPT ![c][n] = s]
  BY ReadyRequest DEF ResumeRefused, Ready
<1>2. /\ s \in Replay /\ s.at = "refused" /\ s.of = {} /\ s.buffered = <<>> /\ s.todo = <<>>
      /\ s.replayed = {}
  BY Clean DEF Places
<1> HIDE DEF r, s
<1>3. Becomes(c, n, s)
  BY <1>1 DEF ResumeRefused, Becomes, feed, Withdrawn, Ready, Shape
<1>4. Step(c, n, s)
  BY <1>1, <1>2, <1>3, ReadyRequest DEF Step, Ready, UnderWay, r
<1>5. replay'[c][n] = s /\ Sent(c)' = Sent(c)
  BY <1>1, <1>3, BecomesOne DEF ResumeRefused, Sent
<1>6. Ordered(c, n)'
  BY <1>2, <1>5, EndedOrdered
<1>7. pending'[c] = 0 \/ (pending'[c] = pending[c] /\ pending[c] # n)
  BY DEF ResumeRefused, Withdrawn, Ready, Shape
<1>8. Arranged(c)'
  BY <1>4, <1>5, <1>6, <1>7, StepArranged
<1>9. n = 1 => Over(c)'
  BY <1>2, <1>5 DEF Over
<1>10. NoneSkipped(c) /\ NoneRepeated(c)
  BY DEF Ready, Good
<1> QED  BY <1>2, <1>4, <1>8, <1>9, <1>10, StepSkipped, StepRepeated DEF Good

LEMMA StartReplayGood ==
  ASSUME FlowAssumption, NEW c \in Conns, NEW n \in Asked, Ready(c), StartReplay(c, n)
  PROVE  (\E s : Step(c, n, s)) /\ Good(c)'
<1> DEFINE r == replay[c][n]
<1>0. NoneSkipped(c) /\ NoneRepeated(c)
  BY DEF Ready, Good
<1>1. /\ r \in Replay /\ Ordered(c, n) /\ r.at = "prepared" /\ Shape
      /\ UNCHANGED <<log, poller, live, excused, pending, symbols, sent>>
      /\ Sent(c)' = Sent(c)
  <2>1. r \in Replay /\ Ordered(c, n) /\ r.at = "prepared" /\ Shape
    BY ReadyRequest DEF StartReplay, Ready
  <2>2. UNCHANGED <<log, poller, live, excused, pending, symbols, sent>>
    BY DEF StartReplay, store, feed
  <2> QED  BY <2>1, <2>2 DEF Sent
<1>2. CASE pending[c] = n /\ replay' = [replay EXCEPT ![c][n].at = "reading"]
  <2> DEFINE s == [r EXCEPT !.at = "reading"]
  <2>1. replay' = [replay EXCEPT ![c][n] = s]
    BY <1>1, <1>2 DEF Shape
  <2>2. /\ s \in Replay /\ s.at = "reading" /\ s.of = r.of /\ s.after = r.after
        /\ s.through = r.through /\ s.buffered = r.buffered /\ s.todo = r.todo
        /\ s.replayed = r.replayed
    BY <1>1 DEF Replay, Places
  <2> HIDE DEF r, s
  <2>3. Becomes(c, n, s)
    BY <2>1 DEF StartReplay, Becomes, feed, store, Ready, Shape
  <2>4. Step(c, n, s)
    BY <1>1, <2>2, <2>3, ReadyRequest DEF Step, Ready, UnderWay, r
  <2>5. replay'[c][n] = s
    BY <1>1, <2>3, BecomesOne
  <2>6. Ordered(c, n)'
    BY <1>1, <2>2, <2>5 DEF Ordered, r, UnderWay, Handed
  <2>7. Arranged(c)'
    BY <1>1, <2>2, <2>4, <2>6, StepArranged DEF UnderWay
  <2>8. ASSUME n = 1, Complete(c) PROVE Complete(c)'
    <3>1. replay'[c][1] = s /\ replay[c][1] = r
      BY <2>5, <2>8 DEF r
    <3>2. Due(c, 1)' = Due(c, 1)
      BY <1>1, <2>2, <3>1 DEF Due, IsOf
    <3>3. \A i \in Due(c, 1) : Queued(c, i) => Queued(c, i)'
      BY <1>1, <2>2, <3>1 DEF Queued, Handed
    <3> QED  BY <1>1, <2>2, <2>8, <3>1, <3>2, <3>3 DEF Complete, UnderWay
  <2>9. ASSUME n = 1, Once(c) PROVE Once(c)'
    <3>1. replay'[c][1] = s /\ replay[c][1] = r
      BY <2>5, <2>9 DEF r
    <3> QED  BY <1>1, <2>2, <2>9, <3>1 DEF Once, UnderWay, Handed
  <2> QED  BY <1>0, <2>4, <2>7, <2>8, <2>9, StepSkipped, StepRepeated DEF Good
<1>3. CASE pending[c] # n /\ replay' = [replay EXCEPT ![c][n] = [NoReplay EXCEPT !.at = "done"]]
  <2> DEFINE s == [NoReplay EXCEPT !.at = "done"]
  <2>1. /\ s \in Replay /\ s.at = "done" /\ s.of = {} /\ s.buffered = <<>> /\ s.todo = <<>>
        /\ s.replayed = {} /\ replay' = [replay EXCEPT ![c][n] = s]
    BY <1>3, Clean DEF Places
  <2> HIDE DEF r, s
  <2>2. Becomes(c, n, s)
    BY <2>1 DEF StartReplay, Becomes, feed, store, Ready, Shape
  <2>3. Step(c, n, s)
    BY <1>1, <2>1, <2>2, ReadyRequest DEF Step, Ready, UnderWay, r
  <2>4. replay'[c][n] = s
    BY <1>1, <2>2, BecomesOne
  <2>5. Ordered(c, n)'
    BY <2>1, <2>4, EndedOrdered
  <2>6. Arranged(c)'
    BY <1>1, <1>3, <2>3, <2>5, StepArranged
  <2>7. n = 1 => Over(c)' /\ ~Once(c)
    BY <1>1, <1>3, <2>1, <2>4 DEF Over, Once, UnderWay, r
  <2> QED  BY <1>0, <2>3, <2>6, <2>7, StepSkipped, StepRepeated DEF Good
<1> QED  BY <1>2, <1>3 DEF StartReplay

LEMMA ReplayFailsGood ==
  ASSUME FlowAssumption, NEW c \in Conns, NEW n \in Asked, Ready(c), ReplayFails(c, n)
  PROVE  (\E s : Step(c, n, s)) /\ Good(c)'
<1> DEFINE r == replay[c][n]
           s == [NoReplay EXCEPT !.at = "done"]
<1>1. /\ r \in Replay /\ r.at = "reading" /\ Shape /\ replay' = [replay EXCEPT ![c][n] = s]
  BY ReadyRequest DEF ReplayFails, Ready
<1>2. /\ s \in Replay /\ s.at = "done" /\ s.of = {} /\ s.buffered = <<>> /\ s.todo = <<>>
      /\ s.replayed = {}
  BY Clean DEF Places
<1> HIDE DEF r, s
<1>3. UNCHANGED <<log, poller, next, conn, live, asks, excused, sent>> /\ healthy' \in BOOLEAN
  BY DEF ReplayFails, ReadFails, feed, Ready, Shape
<1>a. \/ pending[c] = n /\ Dropped(c)
      \/ pending[c] # n /\ UNCHANGED <<pending, symbols>>
  BY DEF ReplayFails
<1>b. Becomes(c, n, s)
  BY <1>1, <1>3, <1>a DEF Becomes, Dropped
<1>4. Step(c, n, s)
  BY <1>1, <1>2, <1>b, ReadyRequest DEF Step, Ready, UnderWay, r
<1>5. replay'[c][n] = s /\ Sent(c)' = Sent(c)
  BY <1>1, <1>3, <1>b, BecomesOne DEF Sent
<1>6. Ordered(c, n)'
  BY <1>2, <1>5, EndedOrdered
<1>7. (pending[c] = n /\ pending'[c] = 0) \/ (pending'[c] = pending[c] /\ pending[c] # n)
  BY <1>a DEF Dropped, Ready, Shape
<1>8. Arranged(c)'
  BY <1>4, <1>5, <1>6, <1>7, StepArranged
<1>9. n = 1 => Over(c)'
  BY <1>2, <1>5 DEF Over
<1>10. ASSUME n = 1, Once(c) PROVE Once(c)'
  <2>1. replay'[c][1] = s /\ replay[c][1] = r
    BY <1>5, <1>10 DEF r
  <2>2. sent'[c] = <<>> /\ live'[c] = <<>> /\ pending[c] = 1
    BY <1>1, <1>3, <1>10, <2>1 DEF Once, UnderWay
  <2>3. pending'[c] = 0
    BY <1>7, <1>10, <2>2
  <2> QED  BY <1>2, <2>1, <2>2, <2>3, NothingElements DEF Once, UnderWay, Sent
<1>11. NoneSkipped(c) /\ NoneRepeated(c)
  BY DEF Ready, Good
<1> QED  BY <1>4, <1>8, <1>9, <1>10, <1>11, StepSkipped, StepRepeated DEF Good

(* What a range that is not refused leaves out is not owed: it is before    *)
(* the cursor or after the end.                                             *)
LEMMA RangeCovers ==
  ASSUME FlowAssumption, NEW c \in Conns, 1 \in Asked, Ready(c), ~Refused(replay[c][1]),
         NEW i \in Due(c, 1), i <= replay[c][1].through
  PROVE  /\ ~Trivial(replay[c][1])
         /\ i \in Entries(replay[c][1].after, replay[c][1].through)
         /\ IsOf(i, replay[c][1].of)
<1> DEFINE r == replay[c][1]
<1>1. /\ r.through \in Nat /\ r.after \in Nat /\ Len(log) \in Nat
      /\ DOMAIN log = 1 .. Len(log) /\ LogOK
  BY ReadyRequest
<1>2. i \in 1 .. Len(log) /\ IsOf(i, r.of) /\ (IF r.after = Now THEN r.through ELSE r.after) < i
  BY <1>1 DEF Due
<1>3. i <= r.through /\ ~Refused(r)
  OBVIOUS
<1> HIDE DEF r
<1>4. r.after # Now /\ r.after < i
  BY <1>1, <1>2, <1>3
<1>5. ~Trivial(r)
  BY <1>1, <1>2, <1>3, <1>4 DEF Trivial
<1>6. ~TooOld(r.after)
  BY <1>3, <1>5 DEF Refused
<1>7. trimmed \in Nat /\ (trimmed = 0 \/ trimmed < Len(log))
  BY <1>1 DEF LogOK, FlowAssumption
<1>8. trimmed < i
  <2>1. CASE trimmed = 0
    BY <1>2, <2>1
  <2>2. CASE trimmed < Len(log)
    BY <1>1, <1>2, <1>4, <1>6, <1>7, <2>2 DEF TooOld
  <2> QED  BY <1>7, <2>1, <2>2
<1>9. i \in Entries(r.after, r.through)
  BY <1>1, <1>2, <1>3, <1>4, <1>8 DEF Entries
<1> QED  BY <1>2, <1>5, <1>9 DEF r

LEMMA ReadRangeGood ==
  ASSUME FlowAssumption, NEW c \in Conns, NEW n \in Asked, Ready(c), ReadRange(c, n)
  PROVE  (\E s : Step(c, n, s)) /\ Good(c)'
<1> DEFINE r == replay[c][n]
           range == IF Trivial(r) THEN {} ELSE Entries(r.after, r.through)
           T == {i \in range : IsOf(i, r.of)}
           todo == InOrder(T)
           s == [r EXCEPT !.at = "sending", !.todo = todo]
<1>1. /\ r \in Replay /\ Ordered(c, n) /\ r.at = "reading" /\ Len(log) \in Nat
      /\ r.through \in Nat /\ Shape /\ Len(log) < Now
  BY ReadyRequest DEF ReadRange, Ready
<1>2. ~Refused(r) /\ replay' = [replay EXCEPT ![c][n].at = "sending", ![c][n].todo = todo]
  BY DEF ReadRange
<1>3. T \in SUBSET (1 .. Len(log)) /\ T \subseteq Cursors /\ \A x \in T : x <= r.through
  <2>1. \A x \in T : x \in 1 .. Len(log) /\ x <= r.through
    BY <1>1 DEF Entries
  <2> QED  BY <1>1, <2>1 DEF Cursors, FlowAssumption, Now
<1>4. todo \in Seq(T) /\ ElementsOf(todo) = T /\ Increasing(todo)
  BY <1>1, <1>3, InOrderLists
<1>5. T = {i \in range : IsOf(i, r.of)}
  OBVIOUS
<1> HIDE DEF todo, T
<1>6. todo \in Seq(Cursors)
  BY <1>3, <1>4
<1>7. replay' = [replay EXCEPT ![c][n] = s]
  BY <1>1, <1>2, ZenonT(80) DEF Shape
<1>8. /\ s \in Replay /\ s.at = "sending" /\ s.of = r.of /\ s.after = r.after
      /\ s.through = r.through /\ s.buffered = r.buffered /\ s.todo = todo
      /\ s.replayed = r.replayed
  BY <1>1, <1>6 DEF Replay, Places
<1> HIDE DEF r, s
<1>9. UNCHANGED <<log, poller, next, conn, live, asks, excused, sent, pending, symbols>>
      /\ healthy' \in BOOLEAN
  BY DEF ReadRange, feed
<1>10. Becomes(c, n, s)
  BY <1>7, <1>9 DEF Becomes
<1>11. Step(c, n, s)
  BY <1>1, <1>8, <1>10, ReadyRequest DEF Step, Ready, UnderWay, r
<1>12. replay'[c][n] = s /\ Sent(c)' = Sent(c)
  BY <1>1, <1>9, <1>10, BecomesOne DEF Sent
<1>13. Ordered(c, n)'
  <2>1. Increasing(r.buffered) /\ \A x \in ElementsOf(r.buffered) : x <= Handed
    BY <1>1 DEF Ordered, r
  <2>2. Handed' = Handed
    BY <1>9 DEF Handed
  <2> QED  BY <1>3, <1>4, <1>8, <1>12, <2>1, <2>2 DEF Ordered, UnderWay
<1>14. Arranged(c)'
  BY <1>8, <1>9, <1>11, <1>12, <1>13, StepArranged DEF UnderWay
<1>15. ASSUME n = 1, Complete(c) PROVE Complete(c)'
  <2>1. replay'[c][1] = s /\ replay[c][1] = r
    BY <1>12, <1>15 DEF r
  <2>2. Due(c, 1)' = Due(c, 1)
    BY <1>8, <1>9, <2>1 DEF Due, IsOf
  <2>3. /\ r.of \subseteq symbols[c] /\ pending[c] = 1 /\ live[c] = <<>> /\ sent[c] = <<>>
        /\ \A i \in Due(c, 1) : i > r.through => Queued(c, i)
    BY <1>1, <1>15, <2>1 DEF Complete, UnderWay
  <2>4. Sent(c) = {} /\ r.replayed = {} /\ r.todo = <<>>
    BY <1>1, <2>3, NothingElements DEF Sent, Ordered, r
  <2>5. ASSUME NEW i \in Due(c, 1), i <= r.through PROVE i \in ElementsOf(todo)
    <3>1. ~Trivial(r) /\ i \in Entries(r.after, r.through) /\ IsOf(i, r.of)
      BY <1>2, <1>15, <2>1, <2>5, RangeCovers
    <3> QED  BY <1>4, <1>5, <3>1
  <2>6. ASSUME NEW i \in Due(c, 1) PROVE Queued(c, i)'
    <3>1. CASE i <= r.through
      BY <1>8, <2>1, <2>5, <3>1 DEF Queued
    <3>2. CASE i > r.through
      <4>1. i \notin ElementsOf(r.todo)
        BY <2>4, NothingElements
      <4>2. i \in ElementsOf(r.buffered) \/ i \in ElementsOf(live[c]) \/ i > Handed
        BY <2>1, <2>3, <3>2, <4>1 DEF Queued
      <4> QED  BY <1>8, <1>9, <2>1, <4>2 DEF Queued, Handed
    <3>3. i \in Nat
      BY <1>1, ReadyRequest DEF Due
    <3> QED  BY <1>1, <3>1, <3>2, <3>3
  <2> QED  BY <1>8, <1>9, <1>12, <2>1, <2>2, <2>3, <2>4, <2>5, <2>6 DEF Complete, UnderWay
<1>16. ASSUME n = 1, Once(c) PROVE Once(c)'
  <2>1. replay'[c][1] = s /\ replay[c][1] = r
    BY <1>12, <1>16 DEF r
  <2>2. pending[c] = 1 /\ live[c] = <<>> /\ sent[c] = <<>>
    BY <1>1, <1>16, <2>1 DEF Once, UnderWay
  <2>3. Sent(c) = {}
    BY <2>2, NothingElements DEF Sent
  <2> QED  BY <1>8, <1>9, <1>12, <2>1, <2>2, <2>3 DEF Once, UnderWay
<1>17. NoneSkipped(c) /\ NoneRepeated(c)
  BY DEF Ready, Good
<1> QED  BY <1>11, <1>14, <1>15, <1>16, <1>17, StepSkipped, StepRepeated DEF Good

(* An event is sent on a connection. *)
LEMMA PutOne ==
  ASSUME Shape, NEW c \in Conns, NEW x \in Cursors, Put(c, x)
  PROVE  /\ Sent(c)' = Sent(c) \union {x}
         /\ \A d \in Conns : d # c => sent'[d] = sent[d]
         /\ \A i, j \in DOMAIN sent'[c] : i < j =>
              /\ i \in DOMAIN sent[c] /\ sent'[c][i] = sent[c][i]
              /\ (j \in DOMAIN sent[c] /\ sent'[c][j] = sent[c][j]) \/ sent'[c][j] = x
<1>1. sent[c] \in Seq(Cursors)
  BY DEF Shape
<1>2. sent'[c] = Append(sent[c], x) /\ \A d \in Conns : d # c => sent'[d] = sent[d]
  BY DEF Shape, Put
<1>3. Sent(c)' = Sent(c) \union {x}
  BY <1>1, <1>2, AppendElements DEF Sent
<1>4. ASSUME NEW i \in DOMAIN sent'[c], NEW j \in DOMAIN sent'[c], i < j
      PROVE  /\ i \in DOMAIN sent[c] /\ sent'[c][i] = sent[c][i]
             /\ (j \in DOMAIN sent[c] /\ sent'[c][j] = sent[c][j]) \/ sent'[c][j] = x
  BY <1>1, <1>2, <1>4, AppendElements
<1> QED  BY <1>2, <1>3, <1>4

(* An event that was not sent before, or is the end of the range, makes no  *)
(* other repetition.                                                        *)
LEMMA PutRepeats ==
  ASSUME Shape, NEW c \in Conns, NEW x \in Cursors, Put(c, x), NEW last,
         x \in Sent(c) => x = last,
         \A i, j \in DOMAIN sent[c] : i < j /\ sent[c][i] = sent[c][j] => sent[c][i] = last
  PROVE  \A i, j \in DOMAIN sent'[c] : i < j /\ sent'[c][i] = sent'[c][j]
                                          => sent'[c][i] = last
<1> SUFFICES ASSUME NEW i \in DOMAIN sent'[c], NEW j \in DOMAIN sent'[c], i < j,
                    sent'[c][i] = sent'[c][j]
             PROVE  sent'[c][i] = last
  OBVIOUS
<1>1. /\ i \in DOMAIN sent[c] /\ sent'[c][i] = sent[c][i]
      /\ (j \in DOMAIN sent[c] /\ sent'[c][j] = sent[c][j]) \/ sent'[c][j] = x
  BY PutOne
<1>2. CASE j \in DOMAIN sent[c] /\ sent'[c][j] = sent[c][j]
  BY <1>1, <1>2
<1>3. CASE sent'[c][j] = x
  BY <1>1, <1>3 DEF Sent, ElementsOf
<1> QED  BY <1>1, <1>2, <1>3

LEMMA SendReplayedGood ==
  ASSUME FlowAssumption, NEW c \in Conns, NEW n \in Asked, Ready(c), SendReplayed(c, n)
  PROVE  (\E s : Step(c, n, s)) /\ Good(c)'
<1> DEFINE r == replay[c][n]
           x == Head(r.todo)
           rest == Tail(r.todo)
           s == [r EXCEPT !.todo = rest, !.replayed = @ \union {x}]
<1>1. /\ r \in Replay /\ Ordered(c, n) /\ r.at = "sending" /\ Len(log) \in Nat
      /\ r.through \in Nat /\ r.through <= Len(log) /\ Shape
      /\ r.todo \in Seq(Cursors) /\ r.todo # <<>> /\ r.replayed \subseteq Cursors
  BY ReadyRequest DEF SendReplayed, Ready
<1>2. r.todo \in Seq(Nat) /\ Increasing(r.todo) /\ \A y \in ElementsOf(r.todo) : y <= r.through
  BY <1>1, CursorsNat DEF Ordered
<1>3. /\ x \in Cursors /\ x \in Nat /\ x <= r.through
      /\ rest \in Seq(Cursors) /\ Increasing(rest)
      /\ ElementsOf(r.todo) = {x} \union ElementsOf(rest)
      /\ \A y \in ElementsOf(rest) : x < y
  <2>1. rest \in Seq(Cursors) /\ x \in Cursors
    BY <1>1
  <2>2. /\ x \in Nat /\ Increasing(rest)
        /\ ElementsOf(r.todo) = {x} \union ElementsOf(rest)
        /\ \A y \in ElementsOf(rest) : x < y
    BY <1>1, <1>2, HeadFirst
  <2>3. x \in ElementsOf(r.todo)
    BY <2>2
  <2>4. x <= r.through
    BY <1>2, <2>3
  <2> QED  BY <2>1, <2>2, <2>4
<1> HIDE DEF x, rest
<1>4. replay' = [replay EXCEPT ![c][n] = s]
  BY <1>1, ZenonT(80) DEF SendReplayed, Shape, x, rest
<1>5. /\ s \in Replay /\ s.at = "sending" /\ s.of = r.of /\ s.after = r.after
      /\ s.through = r.through /\ s.buffered = r.buffered /\ s.todo = rest
      /\ s.replayed = r.replayed \union {x}
  BY <1>1, <1>3 DEF Replay
<1>6. Put(c, x)
  BY DEF SendReplayed, x
<1> HIDE DEF r, s
<1>7. UNCHANGED <<log, poller, next, conn, live, asks, excused, pending, symbols>>
      /\ healthy' \in BOOLEAN
  BY <1>1 DEF SendReplayed, feed, store, Shape
<1>8. Becomes(c, n, s)
  BY <1>3, <1>4, <1>6, <1>7 DEF Becomes
<1>9. Step(c, n, s)
  BY <1>1, <1>5, <1>8, ReadyRequest DEF Step, Ready, UnderWay, r
<1>10. replay'[c][n] = s /\ Sent(c)' = Sent(c) \union {x}
  BY <1>1, <1>3, <1>6, <1>8, BecomesOne, PutOne
<1>11. Handed' = Handed /\ Handed \in Nat /\ Len(log) <= Handed + 1
  <2>1. LogOK
    BY DEF Ready, LogInv
  <2> QED  BY <1>1, <1>7, <2>1, HandedBounds DEF Handed
<1>12. Ordered(c, n)'
  <2>1. Increasing(r.buffered) /\ \A y \in ElementsOf(r.buffered) : y <= Handed
    BY <1>1 DEF Ordered, r
  <2> QED  BY <1>2, <1>3, <1>5, <1>10, <1>11, <2>1 DEF Ordered, UnderWay
<1>13. Arranged(c)'
  <2>1. x <= Len(log)
    BY <1>1, <1>3
  <2> QED  BY <1>5, <1>7, <1>9, <1>10, <1>12, <2>1, StepArranged DEF UnderWay
<1>14. ASSUME n = 1, Complete(c) PROVE Complete(c)'
  <2>1. replay'[c][1] = s /\ replay[c][1] = r
    BY <1>10, <1>14 DEF r
  <2>2. Due(c, 1)' = Due(c, 1)
    BY <1>5, <1>7, <2>1 DEF Due, IsOf
  <2>3. /\ r.of \subseteq symbols[c] /\ pending[c] = 1 /\ live[c] = <<>>
        /\ r.replayed \subseteq Sent(c)
        /\ \A i \in Due(c, 1) \ Sent(c) : Queued(c, i)
        /\ \A i \in Due(c, 1) \ Sent(c), j \in Due(c, 1) \intersect Sent(c) : j < i
        /\ \A i \in Due(c, 1) \ Sent(c) : i <= r.through => i \in ElementsOf(r.todo)
    BY <1>1, <1>14, <2>1 DEF Complete, UnderWay
  <2>4. ASSUME NEW i \in Due(c, 1) \ Sent(c)' PROVE Queued(c, i)'
    <3>1. Queued(c, i) /\ i # x
      BY <1>10, <2>3, <2>4
    <3> QED  BY <1>3, <1>5, <1>7, <1>11, <2>1, <3>1 DEF Queued
  <2>5. ASSUME NEW i \in Due(c, 1) \ Sent(c)', NEW j \in Due(c, 1) \intersect Sent(c)'
        PROVE  j < i
    <3>1. i \in Due(c, 1) \ Sent(c) /\ i # x /\ i \in Nat
      BY <1>1, <1>10, <2>5, ReadyRequest DEF Due
    <3>2. CASE j \in Sent(c)
      BY <2>3, <2>5, <3>1, <3>2
    <3>3. CASE j = x /\ i <= r.through
      BY <1>3, <2>3, <3>1, <3>3
    <3>4. CASE j = x /\ i > r.through
      BY <1>1, <1>3, <3>1, <3>4
    <3> QED  BY <1>1, <1>10, <2>5, <3>1, <3>2, <3>3, <3>4
  <2>6. ASSUME NEW i \in Due(c, 1) \ Sent(c)', i <= r.through PROVE i \in ElementsOf(rest)
    <3>1. i \in Due(c, 1) \ Sent(c) /\ i # x
      BY <1>10, <2>6
    <3> QED  BY <1>3, <2>3, <2>6, <3>1
  <2> QED  BY <1>5, <1>7, <1>10, <2>1, <2>2, <2>3, <2>4, <2>5, <2>6 DEF Complete, UnderWay
<1>15. ASSUME n = 1, Once(c) PROVE Once(c)'
  <2>1. replay'[c][1] = s /\ replay[c][1] = r
    BY <1>10, <1>15 DEF r
  <2>2. /\ pending[c] = 1 /\ live[c] = <<>>
        /\ Sent(c) \subseteq r.replayed /\ \A y \in Sent(c) : y <= r.through
        /\ \A y \in Sent(c) : y > Handed => y = r.through
        /\ \A i, j \in DOMAIN sent[c] : i < j /\ sent[c][i] = sent[c][j]
                                           => sent[c][i] = r.through
        /\ ElementsOf(r.todo) \intersect Sent(c) \subseteq {r.through}
        /\ ElementsOf(r.buffered) \intersect Sent(c) \subseteq r.replayed \union {r.through}
    BY <1>1, <1>15, <2>1 DEF Once, UnderWay
  <2>3. x \in Sent(c) => x = r.through
    BY <1>3, <2>2
  <2>4. \A i, j \in DOMAIN sent'[c] : i < j /\ sent'[c][i] = sent'[c][j]
                                        => sent'[c][i] = r.through
    <3>1. Shape /\ x \in Cursors /\ Put(c, x) /\ (x \in Sent(c) => x = r.through)
      BY <1>1, <1>3, <1>6, <2>3
    <3>2. \A i, j \in DOMAIN sent[c] : i < j /\ sent[c][i] = sent[c][j]
                                          => sent[c][i] = r.through
      BY <2>2
    <3> QED  BY <3>1, <3>2, PutRepeats
  <2>5. x > Handed => x = r.through
    BY <1>1, <1>3, <1>11
  <2>6. ElementsOf(rest) \intersect Sent(c)' \subseteq {r.through}
    <3>1. x \notin ElementsOf(rest)
      BY <1>3
    <3> QED  BY <1>3, <1>10, <2>2, <3>1
  <2>7. Sent(c)' \subseteq s.replayed /\ \A y \in Sent(c)' : y <= s.through
    BY <1>3, <1>5, <1>10, <2>2
  <2>8. \A y \in Sent(c)' : y > Handed => y = r.through
    BY <1>10, <2>2, <2>5
  <2>9. ElementsOf(r.buffered) \intersect Sent(c)' \subseteq s.replayed
    BY <2>7
  <2> QED
    BY <1>5, <1>7, <1>11, <2>1, <2>2, <2>4, <2>6, <2>7, <2>8, <2>9, NothingElements
       DEF Once, UnderWay
<1>16. NoneSkipped(c) /\ NoneRepeated(c)
  BY DEF Ready, Good
<1> QED  BY <1>9, <1>13, <1>14, <1>15, <1>16, StepSkipped, StepRepeated DEF Good

LEMMA SendHeldGood ==
  ASSUME FlowAssumption, NEW c \in Conns, NEW n \in Asked, Ready(c), SendHeld(c, n)
  PROVE  (\E s : Step(c, n, s)) /\ Good(c)'
<1> DEFINE r == replay[c][n]
           x == Head(r.todo)
           rest == Tail(r.todo)
           s == [r EXCEPT !.todo = rest]
<1>1. /\ r \in Replay /\ Ordered(c, n) /\ r.at = "flushing" /\ Len(log) \in Nat
      /\ r.through \in Nat /\ Shape
      /\ r.todo \in Seq(Cursors) /\ r.todo # <<>> /\ r.replayed \subseteq Cursors
  BY ReadyRequest DEF SendHeld, Ready
<1>2. /\ r.todo \in Seq(Nat) /\ Increasing(r.todo) /\ \A y \in ElementsOf(r.todo) : y <= Handed
      /\ \A y \in ElementsOf(r.todo), z \in ElementsOf(r.buffered) : y < z
  BY <1>1, CursorsNat DEF Ordered
<1>3. /\ x \in Cursors /\ x \in Nat /\ x <= Handed
      /\ rest \in Seq(Cursors) /\ Increasing(rest)
      /\ ElementsOf(r.todo) = {x} \union ElementsOf(rest)
      /\ \A y \in ElementsOf(rest) : x < y
      /\ \A y \in ElementsOf(r.buffered) : x < y
  <2>1. rest \in Seq(Cursors) /\ x \in Cursors
    BY <1>1
  <2>2. /\ x \in Nat /\ Increasing(rest)
        /\ ElementsOf(r.todo) = {x} \union ElementsOf(rest)
        /\ \A y \in ElementsOf(rest) : x < y
    BY <1>1, <1>2, HeadFirst
  <2>3. x \in ElementsOf(r.todo)
    BY <2>2
  <2>4. x <= Handed /\ \A y \in ElementsOf(r.buffered) : x < y
    BY <1>2, <2>3
  <2> QED  BY <2>1, <2>2, <2>4
<1> HIDE DEF x, rest
<1>4. replay' = [replay EXCEPT ![c][n] = s]
  BY <1>1 DEF SendHeld, Shape, x, rest
<1>5. /\ s \in Replay /\ s.at = "flushing" /\ s.of = r.of /\ s.after = r.after
      /\ s.through = r.through /\ s.buffered = r.buffered /\ s.todo = rest
      /\ s.replayed = r.replayed
  BY <1>1, <1>3 DEF Replay
<1>6. Put(c, x)
  BY DEF SendHeld, x
<1> HIDE DEF r, s
<1>7. UNCHANGED <<log, poller, next, conn, live, asks, excused, pending, symbols>>
      /\ healthy' \in BOOLEAN
  BY <1>1 DEF SendHeld, feed, store, Shape
<1>8. Becomes(c, n, s)
  BY <1>3, <1>4, <1>6, <1>7 DEF Becomes
<1>9. Step(c, n, s)
  BY <1>1, <1>5, <1>8, ReadyRequest DEF Step, Ready, UnderWay, r
<1>10. replay'[c][n] = s /\ Sent(c)' = Sent(c) \union {x}
  BY <1>1, <1>3, <1>6, <1>8, BecomesOne, PutOne
<1>11. Handed' = Handed /\ Handed \in Nat /\ Handed <= Len(log)
  <2>1. LogOK
    BY DEF Ready, LogInv
  <2> QED  BY <1>1, <1>7, <2>1, HandedBounds DEF Handed
<1>12. Ordered(c, n)'
  <2>1. Increasing(r.buffered) /\ \A y \in ElementsOf(r.buffered) : y <= Handed
    BY <1>1 DEF Ordered, r
  <2> QED  BY <1>2, <1>3, <1>5, <1>10, <1>11, <2>1 DEF Ordered, UnderWay
<1>13. Arranged(c)'
  <2>1. x <= Len(log)
    BY <1>1, <1>3, <1>11
  <2> QED  BY <1>5, <1>7, <1>9, <1>10, <1>12, <2>1, StepArranged DEF UnderWay
<1>14. ASSUME n = 1, Complete(c) PROVE Complete(c)'
  <2>1. replay'[c][1] = s /\ replay[c][1] = r
    BY <1>10, <1>14 DEF r
  <2>2. Due(c, 1)' = Due(c, 1)
    BY <1>5, <1>7, <2>1 DEF Due, IsOf
  <2>3. /\ r.of \subseteq symbols[c] /\ pending[c] = 1 /\ live[c] = <<>>
        /\ r.replayed \subseteq Sent(c)
        /\ \A i \in Due(c, 1) \ Sent(c) : Queued(c, i)
        /\ \A i \in Due(c, 1) \ Sent(c), j \in Due(c, 1) \intersect Sent(c) : j < i
    BY <1>1, <1>14, <2>1 DEF Complete, UnderWay
  <2>4. ASSUME NEW i \in Due(c, 1) \ Sent(c)' PROVE Queued(c, i) /\ Queued(c, i)'
    <3>1. Queued(c, i) /\ i # x
      BY <1>10, <2>3, <2>4
    <3> QED  BY <1>3, <1>5, <1>7, <1>11, <2>1, <3>1 DEF Queued
  <2>5. ASSUME NEW i \in Due(c, 1) \ Sent(c)', NEW j \in Due(c, 1) \intersect Sent(c)'
        PROVE  j < i
    <3>1. i \in Due(c, 1) \ Sent(c) /\ i # x /\ i \in Nat /\ Queued(c, i)
      BY <1>1, <1>10, <2>4, <2>5, ReadyRequest DEF Due
    <3>2. CASE j \in Sent(c)
      BY <2>3, <2>5, <3>1, <3>2
    <3>3. CASE j = x
      <4>1. i \in ElementsOf(r.todo) \/ i \in ElementsOf(r.buffered) \/ i > Handed
        BY <2>1, <2>3, <3>1, NothingElements DEF Queued
      <4>2. CASE i > Handed
        BY <1>3, <1>11, <3>1, <3>3, <4>2
      <4> QED  BY <1>3, <3>1, <3>3, <4>1, <4>2
    <3> QED  BY <1>10, <2>5, <3>2, <3>3
  <2> QED  BY <1>5, <1>7, <1>10, <2>1, <2>2, <2>3, <2>4, <2>5 DEF Complete, UnderWay
<1>15. ASSUME n = 1, Once(c) PROVE Once(c)'
  <2>1. replay'[c][1] = s /\ replay[c][1] = r
    BY <1>10, <1>15 DEF r
  <2>2. /\ pending[c] = 1 /\ live[c] = <<>>
        /\ \A y \in Sent(c) : y > Handed => y = r.through
        /\ \A i, j \in DOMAIN sent[c] : i < j /\ sent[c][i] = sent[c][j]
                                           => sent[c][i] = r.through
        /\ ElementsOf(r.todo) \intersect Sent(c) \subseteq {r.through}
        /\ ElementsOf(r.buffered) \intersect Sent(c) \subseteq r.replayed \union {r.through}
    BY <1>1, <1>15, <2>1 DEF Once, UnderWay
  <2>3. x \in Sent(c) => x = r.through
    BY <1>3, <2>2
  <2>4. \A i, j \in DOMAIN sent'[c] : i < j /\ sent'[c][i] = sent'[c][j]
                                        => sent'[c][i] = r.through
    <3>1. Shape /\ x \in Cursors /\ Put(c, x) /\ (x \in Sent(c) => x = r.through)
      BY <1>1, <1>3, <1>6, <2>3
    <3>2. \A i, j \in DOMAIN sent[c] : i < j /\ sent[c][i] = sent[c][j]
                                          => sent[c][i] = r.through
      BY <2>2
    <3> QED  BY <3>1, <3>2, PutRepeats
  <2>5. ElementsOf(rest) \intersect Sent(c)' \subseteq {r.through}
    <3>1. x \notin ElementsOf(rest)
      BY <1>3
    <3> QED  BY <1>3, <1>10, <2>2, <3>1
  <2>6. \A y \in Sent(c)' : y > Handed => y = r.through
    BY <1>3, <1>10, <1>11, <2>2
  <2>7. ElementsOf(r.buffered) \intersect Sent(c)' \subseteq r.replayed \union {r.through}
    <3>1. x \notin ElementsOf(r.buffered)
      BY <1>3
    <3> QED  BY <1>10, <2>2, <3>1
  <2> QED
    BY <1>5, <1>7, <1>11, <2>1, <2>2, <2>4, <2>5, <2>6, <2>7, NothingElements
       DEF Once, UnderWay
<1>16. NoneSkipped(c) /\ NoneRepeated(c)
  BY DEF Ready, Good
<1> QED  BY <1>9, <1>13, <1>14, <1>15, <1>16, StepSkipped, StepRepeated DEF Good

(* A batch is what the barrier holds back and the replay has not sent. *)
LEMMA BatchOf ==
  ASSUME FlowAssumption, NEW c \in Conns, NEW n \in Asked, Ready(c)
  PROVE  /\ Fresh(replay[c][n]) \in Seq(Cursors) /\ Increasing(Fresh(replay[c][n]))
         /\ ElementsOf(Fresh(replay[c][n])) =
              ElementsOf(replay[c][n].buffered) \ replay[c][n].replayed
<1> DEFINE r == replay[c][n]
<1>1. r.buffered \in Seq(Cursors) /\ Increasing(r.buffered)
  BY ReadyRequest DEF Ordered
<1>2. Cursors \in SUBSET Nat
  BY CursorsNat
<1> HIDE DEF r
<1>3. /\ Fresh(r) \in Seq(Cursors) /\ Increasing(Fresh(r))
      /\ ElementsOf(Fresh(r)) = ElementsOf(r.buffered) \ r.replayed
  BY <1>1, <1>2, FreshLists
<1> QED  BY <1>3 DEF r

LEMMA NextBatchSent ==
  ASSUME FlowAssumption, NEW c \in Conns, NEW n \in Asked, Ready(c), NextBatch(c, n),
         pending[c] = n, Fresh(replay[c][n]) # <<>>
  PROVE  (\E s : Step(c, n, s)) /\ Good(c)'
<1> DEFINE r == replay[c][n]
           t == Fresh(r)
           s == [r EXCEPT !.at = "flushing", !.buffered = <<>>, !.todo = t]
<1>1. /\ r \in Replay /\ Ordered(c, n) /\ r.at \in {"sending", "flushing"} /\ r.todo = <<>>
      /\ Len(log) \in Nat /\ Shape /\ r.buffered \in Seq(Cursors)
  BY ReadyRequest DEF NextBatch, Ready
<1>2. /\ t \in Seq(Cursors) /\ Increasing(t)
      /\ ElementsOf(t) = ElementsOf(r.buffered) \ r.replayed
  BY BatchOf
<1>3. /\ replay' = [replay EXCEPT ![c][n].at = "flushing", ![c][n].buffered = <<>>,
                                  ![c][n].todo = t]
      /\ UNCHANGED <<log, poller, next, conn, live, asks, excused, pending, symbols, sent>>
      /\ healthy' \in BOOLEAN
  BY <1>1 DEF NextBatch, feed, store, Shape
<1> HIDE DEF t
<1>4. replay' = [replay EXCEPT ![c][n] = s]
  <2>1. replay' = [replay EXCEPT ![c][n].at = "flushing", ![c][n].buffered = <<>>,
                                 ![c][n].todo = t]
    BY <1>3
  <2>2. replay \in [Conns -> [Asked -> Replay]]
    BY <1>1 DEF Shape
  <2> QED  BY <2>1, <2>2, ZenonT(80)
<1>5. /\ s \in Replay /\ s.at = "flushing" /\ s.of = r.of /\ s.after = r.after
      /\ s.through = r.through /\ s.buffered = <<>> /\ s.todo = t
      /\ s.replayed = r.replayed
  <2>1. <<>> \in Seq(Cursors)
    OBVIOUS
  <2> QED  BY <1>1, <1>2, <2>1 DEF Replay, Places
<1> HIDE DEF r, s
<1>6. Becomes(c, n, s)
  BY <1>3, <1>4 DEF Becomes
<1>7. Step(c, n, s)
  BY <1>1, <1>5, <1>6, ReadyRequest DEF Step, Ready, UnderWay, r
<1>8. replay'[c][n] = s /\ Sent(c)' = Sent(c) /\ Handed' = Handed
  <2>1. replay'[c][n] = s
    BY <1>1, <1>6, BecomesOne
  <2> QED  BY <1>3, <2>1 DEF Sent, Handed
<1>9. Ordered(c, n)'
  <2>1. \A x \in ElementsOf(r.buffered) : x <= Handed
    BY <1>1 DEF Ordered, r
  <2> QED  BY <1>2, <1>5, <1>8, <2>1, NothingElements DEF Ordered, UnderWay
<1>10. Arranged(c)'
  BY <1>3, <1>5, <1>7, <1>8, <1>9, StepArranged DEF UnderWay
<1>11. ASSUME n = 1, Complete(c) PROVE Complete(c)'
  <2>1. replay'[c][1] = s /\ replay[c][1] = r
    BY <1>8, <1>11 DEF r
  <2>2. Due(c, 1)' = Due(c, 1)
    BY <1>3, <1>5, <2>1 DEF Due, IsOf
  <2>3. /\ r.of \subseteq symbols[c] /\ pending[c] = 1 /\ live[c] = <<>>
        /\ r.replayed \subseteq Sent(c)
        /\ \A i \in Due(c, 1) \ Sent(c) : Queued(c, i)
        /\ \A i \in Due(c, 1) \ Sent(c), j \in Due(c, 1) \intersect Sent(c) : j < i
    BY <1>1, <1>11, <2>1 DEF Complete, UnderWay
  <2>4. ASSUME NEW i \in Due(c, 1) \ Sent(c) PROVE Queued(c, i)'
    <3>1. Queued(c, i) /\ i \notin r.replayed /\ i \notin ElementsOf(r.todo)
      BY <1>1, <2>3, NothingElements
    <3>2. replay'[c][1].todo = t /\ live'[c] = live[c] /\ Handed' = Handed
      BY <1>3, <1>5, <1>8, <2>1
    <3>3. i \in ElementsOf(r.buffered) \/ i \in ElementsOf(live[c]) \/ i > Handed
      BY <2>1, <3>1 DEF Queued
    <3>4. i \in ElementsOf(r.buffered) => i \in ElementsOf(t)
      BY <1>2, <3>1
    <3> QED  BY <3>2, <3>3, <3>4 DEF Queued
  <2>5. symbols'[c] = symbols[c] /\ pending'[c] = pending[c] /\ live'[c] = live[c]
    BY <1>3
  <2>6. s.at \notin {"prepared", "reading", "preparing", "sending", "done"}
    BY <1>5
  <2> QED  BY <1>5, <1>8, <2>1, <2>2, <2>3, <2>4, <2>5, <2>6 DEF Complete, UnderWay
<1>12. ASSUME n = 1, Once(c) PROVE Once(c)'
  <2>1. replay'[c][1] = s /\ replay[c][1] = r
    BY <1>8, <1>12 DEF r
  <2>2. /\ pending[c] = 1 /\ live[c] = <<>>
        /\ \A y \in Sent(c) : y > Handed => y = r.through
        /\ \A i, j \in DOMAIN sent[c] : i < j /\ sent[c][i] = sent[c][j]
                                           => sent[c][i] = r.through
        /\ ElementsOf(r.buffered) \intersect Sent(c) \subseteq r.replayed \union {r.through}
    BY <1>1, <1>12, <2>1 DEF Once, UnderWay
  <2>3. ElementsOf(t) \intersect Sent(c) \subseteq {r.through}
    BY <1>2, <2>2
  <2> QED  BY <1>3, <1>5, <1>8, <2>1, <2>2, <2>3, NothingElements, ZenonT(80) DEF Once, UnderWay
<1>13. NoneSkipped(c) /\ NoneRepeated(c)
  BY DEF Ready, Good
<1> QED  BY <1>7, <1>10, <1>11, <1>12, <1>13, StepSkipped, StepRepeated DEF Good

LEMMA NextBatchEnds ==
  ASSUME FlowAssumption, NEW c \in Conns, NEW n \in Asked, Ready(c), NextBatch(c, n),
         pending[c] # n \/ Fresh(replay[c][n]) = <<>>
  PROVE  (\E s : Step(c, n, s)) /\ Good(c)'
<1> DEFINE r == replay[c][n]
           s == [r EXCEPT !.at = "done", !.buffered = <<>>, !.replayed = {}]
<1>1. /\ r \in Replay /\ Ordered(c, n) /\ r.at \in {"sending", "flushing"} /\ r.todo = <<>>
      /\ Len(log) \in Nat /\ Shape /\ r.buffered \in Seq(Cursors)
  BY ReadyRequest DEF NextBatch, Ready
<1>2. Fresh(r) = <<>> => ElementsOf(r.buffered) \subseteq r.replayed
  BY BatchOf, NothingElements
<1>3. /\ replay' = [replay EXCEPT ![c][n].at = "done", ![c][n].buffered = <<>>,
                                  ![c][n].replayed = {}]
      /\ UNCHANGED <<log, poller, next, conn, live, asks, excused, symbols, sent>>
      /\ healthy' \in BOOLEAN
      /\ pending' = [pending EXCEPT ![c] = 0] \/ (pending' = pending /\ pending[c] # n)
  <2>1. UNCHANGED <<log, poller, next, healthy, conn, live, asks, excused, symbols, sent>>
    BY DEF NextBatch, feed, store
  <2>2. healthy' \in BOOLEAN
    BY <1>1, <2>1 DEF Shape
  <2>3. /\ replay' = [replay EXCEPT ![c][n].at = "done", ![c][n].buffered = <<>>,
                                    ![c][n].replayed = {}]
        /\ pending' = [pending EXCEPT ![c] = 0] \/ (pending' = pending /\ pending[c] # n)
    BY DEF NextBatch
  <2> QED  BY <2>1, <2>2, <2>3
<1>4. replay' = [replay EXCEPT ![c][n] = s]
  BY <1>1, <1>3, ZenonT(80) DEF Shape
<1>5. /\ s \in Replay /\ s.at = "done" /\ s.of = r.of /\ s.after = r.after
      /\ s.through = r.through /\ s.buffered = <<>> /\ s.todo = <<>>
      /\ s.replayed = {}
  <2>1. <<>> \in Seq(Cursors) /\ {} \in SUBSET Cursors
    OBVIOUS
  <2> QED  BY <1>1, <2>1 DEF Replay, Places
<1>a. pending[c] # n \/ Fresh(r) = <<>>
  OBVIOUS
<1> HIDE DEF r, s
<1>6. Becomes(c, n, s)
  BY <1>3, <1>4 DEF Becomes
<1>7. Step(c, n, s)
  BY <1>1, <1>5, <1>6, ReadyRequest DEF Step, Ready, UnderWay, r
<1>8. replay'[c][n] = s /\ Sent(c)' = Sent(c) /\ Handed' = Handed
  <2>1. replay'[c][n] = s
    BY <1>1, <1>6, BecomesOne
  <2> QED  BY <1>3, <2>1 DEF Sent, Handed
<1>9. Ordered(c, n)'
  BY <1>5, <1>8, EndedOrdered
<1>b. pending'[c] = 0 \/ (pending'[c] = pending[c] /\ pending[c] # n)
  BY <1>1, <1>3 DEF Shape
<1>10. Arranged(c)'
  BY <1>7, <1>8, <1>9, <1>b, StepArranged
<1>11. ASSUME n = 1, Complete(c) PROVE Complete(c)'
  <2>1. replay'[c][1] = s /\ replay[c][1] = r
    BY <1>8, <1>11 DEF r
  <2>2. Due(c, 1)' = Due(c, 1)
    BY <1>3, <1>5, <2>1 DEF Due, IsOf
  <2>3. /\ r.of \subseteq symbols[c] /\ pending[c] = 1 /\ live[c] = <<>>
        /\ r.replayed \subseteq Sent(c)
        /\ \A i \in Due(c, 1) \ Sent(c) : Queued(c, i)
        /\ \A i \in Due(c, 1) \ Sent(c), j \in Due(c, 1) \intersect Sent(c) : j < i
    BY <1>1, <1>11, <2>1 DEF Complete, UnderWay
  <2>4. ElementsOf(r.buffered) \subseteq Sent(c) /\ pending'[c] = 0
    BY <1>2, <1>a, <1>b, <1>11, <2>3
  <2>5. ASSUME NEW i \in Due(c, 1) \ Sent(c) PROVE Queued(c, i)'
    <3>1. Queued(c, i) /\ i \notin ElementsOf(r.buffered) /\ i \notin ElementsOf(r.todo)
      BY <1>1, <2>3, <2>4, NothingElements
    <3> QED  BY <1>3, <1>8, <2>1, <3>1 DEF Queued
  <2> QED  BY <1>3, <1>5, <1>8, <2>1, <2>2, <2>3, <2>4, <2>5 DEF Complete, UnderWay
<1>12. ASSUME n = 1, Once(c) PROVE Once(c)'
  <2>1. replay'[c][1] = s /\ replay[c][1] = r
    BY <1>8, <1>12 DEF r
  <2>2. /\ pending[c] = 1 /\ live[c] = <<>>
        /\ \A y \in Sent(c) : y > Handed => y = r.through
        /\ \A i, j \in DOMAIN sent[c] : i < j /\ sent[c][i] = sent[c][j]
                                           => sent[c][i] = r.through
    BY <1>1, <1>12, <2>1 DEF Once, UnderWay
  <2>3. pending'[c] = 0
    BY <1>b, <1>12, <2>2
  <2> QED  BY <1>3, <1>5, <1>8, <2>1, <2>2, <2>3, NothingElements, ZenonT(60) DEF Once, UnderWay
<1>13. NoneSkipped(c) /\ NoneRepeated(c)
  BY DEF Ready, Good
<1> QED  BY <1>7, <1>10, <1>11, <1>12, <1>13, StepSkipped, StepRepeated DEF Good

(* Each step of a request keeps the queues of its connection in order, and  *)
(* leaves the other connections alone.                                      *)
LEMMA RequestGood ==
  ASSUME FlowAssumption, NEW c \in Conns, NEW n \in Asked, Ready(c), RequestStep(c, n)
  PROVE  (\E s : Step(c, n, s)) /\ Good(c)'
<1>1. CASE HighWatermark(c, n)  BY <1>1, HighWatermarkGood
<1>2. CASE ResumeRefused(c, n)  BY <1>2, ResumeRefusedGood
<1>3. CASE StartReplay(c, n)    BY <1>3, StartReplayGood
<1>4. CASE ReadRange(c, n)      BY <1>4, ReadRangeGood
<1>5. CASE ReplayFails(c, n)    BY <1>5, ReplayFailsGood
<1>6. CASE SendReplayed(c, n)   BY <1>6, SendReplayedGood
<1>7. CASE NextBatch(c, n)
  BY <1>7, NextBatchSent, NextBatchEnds
<1>8. CASE SendHeld(c, n)       BY <1>8, SendHeldGood
<1> QED
  BY <1>1, <1>2, <1>3, <1>4, <1>5, <1>6, <1>7, <1>8 DEF RequestStep, PrepareStep, ReplayStep

LEMMA RequestKeeps ==
  ASSUME FlowAssumption, QInv, NEW c \in Conns, NEW n \in Asked, RequestStep(c, n)
  PROVE  Shape' /\ \A d \in Conns : Good(d)'
<1>1. Ready(c)
  BY DEF QInv, IInv, Ready
<1>2. PICK s : Step(c, n, s)
  BY <1>1, RequestGood
<1>3. Good(c)'
  BY <1>1, RequestGood
<1>4. Shape'
  BY <1>2, BecomesShape DEF Step
<1>5. ASSUME NEW d \in Conns, d # c PROVE Good(d)'
  <2>1. SameConn(d) /\ UNCHANGED <<log, poller>>
    BY <1>2, <1>5, BecomesOne DEF Step, Becomes
  <2> QED  BY <2>1, SameGood DEF QInv
<1> QED  BY <1>3, <1>4, <1>5

-----------------------------------------------------------------------------
(* The steps of a connection *)

(* A connection with no request that resumes is owed nothing. *)
LEMMA EmptyGood ==
  ASSUME NEW c \in Conns, symbols'[c] = {}, pending'[c] = 0, replay'[c] = NoAsk,
         live'[c] = <<>>, sent'[c] = <<>>
  PROVE  Good(c)'
<1>1. \A n \in Asked : replay'[c][n] = NoReplay
  BY DEF NoAsk
<1>2. ElementsOf(<<>>) = {} /\ Increasing(<<>>)
  BY NothingElements
<1>3. Sent(c)' = {}
  BY <1>2 DEF Sent
<1>4. NoReplay.at = "none" /\ NoReplay.buffered = <<>> /\ NoReplay.todo = <<>>
      /\ NoReplay.replayed = {}
  BY DEF NoReplay
<1>5. Owned(c)'
  BY <1>1, <1>4 DEF Owned
<1>6. LiveOrdered(c)'
  BY <1>2, <1>3 DEF LiveOrdered
<1>7. \A n \in Asked : Ordered(c, n)'
  BY <1>1, <1>2, <1>4 DEF Ordered, UnderWay
<1>8. Resumptions(c)' = {}
  BY <1>1, <1>4 DEF Resumptions
<1>9. NoneSkipped(c)' /\ NoneRepeated(c)'
  BY <1>8 DEF NoneSkipped, NoneRepeated
<1> QED  BY <1>5, <1>6, <1>7, <1>9 DEF Good, Arranged

LEMMA NoAskType == NoAsk \in [Asked -> Replay]
BY NoReplayType DEF NoAsk

(* The other connections see nothing of a step of connection c. *)
Alone(c) == UNCHANGED <<log, poller>> /\ \A d \in Conns : d # c => SameConn(d)

LEMMA ConnectGood ==
  ASSUME FlowAssumption, NEW c \in Conns, Ready(c), Connect(c)
  PROVE  Shape' /\ Alone(c) /\ Good(c)'
<1>1. UNCHANGED <<log, poller, next, healthy, symbols, pending, replay, live, sent, excused, asks>>
  BY DEF Connect, store, feed, fanout
<1>2. conn' \in [Conns -> {"new", "open", "gone"}]
  BY DEF Connect, Ready, Shape
<1>3. Shape'
  BY <1>1, <1>2 DEF Ready, Shape
<1>4. \A d \in Conns : SameConn(d)
  BY <1>1 DEF SameConn, SameQueues
<1> QED  BY <1>1, <1>3, <1>4, SameGood DEF Alone, Ready

LEMMA DisconnectGood ==
  ASSUME FlowAssumption, NEW c \in Conns, Ready(c), Disconnect(c)
  PROVE  Shape' /\ Alone(c) /\ Good(c)'
<1>1. Shape
  BY DEF Ready
<1>2. UNCHANGED <<log, poller, next, healthy>>
  BY DEF Disconnect, store, feed
<1>3. Shape'
  <2>1. conn' \in [Conns -> {"new", "open", "gone"}] /\ symbols' \in [Conns -> SUBSET Symbols]
    BY <1>1 DEF Disconnect, Dropped, Shape
  <2>2. 0 \in 0 .. MaxAsks
    BY DEF FlowAssumption
  <2>3. pending' \in [Conns -> 0 .. MaxAsks] /\ asks' \in [Conns -> 0 .. MaxAsks]
    BY <1>1, <2>2 DEF Disconnect, Dropped, Shape
  <2>4. replay' \in [Conns -> [Asked -> Replay]]
    BY <1>1, NoAskType DEF Disconnect, Shape
  <2>5. <<>> \in Seq(Cursors) /\ {} \in SUBSET Cursors
    OBVIOUS
  <2>6. /\ live' \in [Conns -> Seq(Cursors)] /\ sent' \in [Conns -> Seq(Cursors)]
        /\ excused' \in [Conns -> SUBSET Cursors]
    BY <1>1, <2>5 DEF Disconnect, Shape
  <2> QED  BY <1>1, <1>2, <2>1, <2>3, <2>4, <2>6 DEF Shape
<1>4. Alone(c)
  BY <1>1, <1>2 DEF Disconnect, Dropped, Shape, Alone, SameConn, SameQueues
<1>5. /\ symbols'[c] = {} /\ pending'[c] = 0 /\ replay'[c] = NoAsk
      /\ live'[c] = <<>> /\ sent'[c] = <<>>
  BY <1>1 DEF Disconnect, Dropped, Shape
<1> QED  BY <1>3, <1>4, <1>5, EmptyGood

LEMMA SubscribeGood ==
  ASSUME FlowAssumption, NEW c \in Conns, NEW S \in Requests, Ready(c), Subscribe(c, S)
  PROVE  Shape' /\ Alone(c) /\ Good(c)'
<1>1. Shape /\ asks[c] \in Nat /\ MaxAsks \in Nat
  BY DEF Ready, Shape, FlowAssumption
<1>2. UNCHANGED <<log, poller, next, healthy, conn, pending, replay, live, sent, excused>>
  BY DEF Subscribe, store, feed
<1>3. /\ asks' = [asks EXCEPT ![c] = asks[c] + 1] /\ asks[c] < MaxAsks
      /\ symbols' = [symbols EXCEPT ![c] = symbols[c] \union S]
  BY DEF Subscribe
<1>4. Shape'
  <2>1. asks[c] + 1 \in 0 .. MaxAsks /\ S \subseteq Symbols
    BY <1>1, <1>3 DEF FlowAssumption
  <2>2. asks' \in [Conns -> 0 .. MaxAsks]
    BY <1>1, <1>3, <2>1 DEF Shape
  <2>3. symbols' \in [Conns -> SUBSET Symbols]
    BY <1>1, <1>3, <2>1 DEF Shape
  <2> QED  BY <1>1, <1>2, <2>2, <2>3 DEF Shape
<1>5. Alone(c) /\ asks'[c] = asks[c] + 1 /\ symbols'[c] = symbols[c] \union S
  BY <1>1, <1>2, <1>3 DEF Shape, Alone, SameConn, SameQueues
<1>6. Arranged(c)'
  <2>1. Owned(c)'
    BY <1>1, <1>2, <1>5 DEF Ready, Good, Arranged, Owned, Asked
  <2>2. LiveOrdered(c)' /\ \A n \in Asked : Ordered(c, n)'
    BY <1>2 DEF Ready, Good, Arranged, LiveOrdered, Sent, Ordered, Handed
  <2> QED  BY <2>1, <2>2 DEF Arranged
<1>7. NoneSkipped(c)'
  <2>1. Due(c, 1)' = Due(c, 1) /\ Sent(c)' = Sent(c)
    BY <1>2 DEF Due, IsOf, Sent
  <2> QED
    BY <1>2, <1>5, <2>1 DEF Ready, Good, NoneSkipped, Resumptions, Over, Complete, Queued, Handed
<1>8. NoneRepeated(c)'
  <2>1. CASE asks[c] = 0
    <3>1. \A n \in Asked : replay[c][n].at = "none"
      BY <2>1 DEF Ready, Good, Arranged, Owned, Asked
    <3>2. Resumptions(c)' = {}
      BY <1>2, <3>1 DEF Resumptions
    <3> QED  BY <3>2 DEF NoneRepeated
  <2>2. CASE asks[c] # 0
    BY <1>1, <1>5, <2>2 DEF NoneRepeated
  <2> QED  BY <2>1, <2>2
<1> QED  BY <1>4, <1>5, <1>6, <1>7, <1>8 DEF Good

LEMMA UnsubscribeGood ==
  ASSUME FlowAssumption, NEW c \in Conns, NEW S \in Requests, Ready(c), Unsubscribe(c, S)
  PROVE  Shape' /\ Alone(c) /\ Good(c)'
<1>1. Shape /\ asks[c] \in Nat /\ MaxAsks \in Nat
  BY DEF Ready, Shape, FlowAssumption
<1>2. UNCHANGED <<log, poller, next, healthy, conn, replay, live, sent>>
  BY DEF Unsubscribe, store, feed
<1>3. /\ asks' = [asks EXCEPT ![c] = asks[c] + 1] /\ asks[c] < MaxAsks
      /\ excused' = [excused EXCEPT ![c] = Cursors]
  BY DEF Unsubscribe, Cursors
<1>4. /\ symbols' \in [Conns -> SUBSET Symbols]
      /\ \A d \in Conns : d # c => symbols'[d] = symbols[d] /\ pending'[d] = pending[d]
      /\ symbols'[c] \subseteq symbols[c] /\ pending'[c] \in {0, pending[c]}
      /\ pending' \in [Conns -> 0 .. MaxAsks]
  <2>1. CASE Dropped(c)
    <3>1. 0 \in 0 .. MaxAsks
      BY <1>1
    <3> QED  BY <1>1, <2>1, <3>1 DEF Dropped, Shape
  <2>2. CASE symbols' = [symbols EXCEPT ![c] = @ \ S] /\ pending' = pending
    BY <1>1, <2>2 DEF Shape
  <2> QED  BY <2>1, <2>2 DEF Unsubscribe
<1>5. Shape'
  <2>1. asks[c] + 1 \in 0 .. MaxAsks
    BY <1>1, <1>3
  <2>2. asks' \in [Conns -> 0 .. MaxAsks]
    BY <1>1, <1>3, <2>1 DEF Shape
  <2>3. excused' \in [Conns -> SUBSET Cursors]
    BY <1>1, <1>3 DEF Shape
  <2> QED  BY <1>1, <1>2, <1>4, <2>2, <2>3 DEF Shape
<1>6. Alone(c) /\ asks'[c] = asks[c] + 1 /\ excused'[c] = Cursors
  BY <1>1, <1>2, <1>3, <1>4 DEF Shape, Alone, SameConn, SameQueues
<1>7. Arranged(c)'
  <2>1. Owned(c)'
    BY <1>1, <1>2, <1>4, <1>6 DEF Ready, Good, Arranged, Owned, Asked
  <2>2. LiveOrdered(c)' /\ \A n \in Asked : Ordered(c, n)'
    BY <1>2 DEF Ready, Good, Arranged, LiveOrdered, Sent, Ordered, Handed
  <2> QED  BY <2>1, <2>2 DEF Arranged
<1>8. NoneSkipped(c)'
  BY <1>6 DEF NoneSkipped
<1>9. NoneRepeated(c)'
  <2>1. CASE asks[c] = 0
    <3>1. \A n \in Asked : replay[c][n].at = "none"
      BY <2>1 DEF Ready, Good, Arranged, Owned, Asked
    <3>2. Resumptions(c)' = {}
      BY <1>2, <3>1 DEF Resumptions
    <3> QED  BY <3>2 DEF NoneRepeated
  <2>2. CASE asks[c] # 0
    BY <1>1, <1>6, <2>2 DEF NoneRepeated
  <2> QED  BY <2>1, <2>2
<1> QED  BY <1>5, <1>6, <1>7, <1>8, <1>9 DEF Good

LEMMA ResumingGood ==
  ASSUME FlowAssumption, NEW c \in Conns, NEW S \in Requests, Ready(c),
         NEW after \in {0, Now} \union {i \in DOMAIN log : log[i] # 0},
         SubscribeResuming(c, S, after)
  PROVE  Shape' /\ Alone(c) /\ Good(c)'
<1> DEFINE n == asks[c] + 1
           s == [NoReplay EXCEPT !.at = "preparing", !.of = S, !.after = after]
<1>1. Shape /\ asks[c] \in Nat /\ MaxAsks \in Nat /\ asks[c] < MaxAsks /\ after \in Nat
  <2>1. Shape /\ asks[c] \in Nat /\ MaxAsks \in Nat
    BY DEF Ready, Shape, FlowAssumption
  <2>2. asks[c] < MaxAsks
    BY DEF SubscribeResuming
  <2>3. DOMAIN log \subseteq Nat /\ Now \in Nat
    BY DEF Ready, LogInv, LogOK, FlowAssumption, Now
  <2> QED  BY <2>1, <2>2, <2>3
<1>2. n \in Asked /\ n \in 0 .. MaxAsks /\ n # 0 /\ S \subseteq Symbols
  BY <1>1 DEF Asked, FlowAssumption
<1>3. /\ s \in Replay /\ s.at = "preparing" /\ s.of = S /\ s.buffered = <<>> /\ s.todo = <<>>
      /\ s.replayed = {}
  <2>1. NoReplay \in Replay
    BY NoReplayType
  <2>2. NoReplay.buffered = <<>> /\ NoReplay.todo = <<>> /\ NoReplay.replayed = {}
    BY DEF NoReplay
  <2>3. "preparing" \in Places
    BY DEF Places
  <2> QED  BY <1>1, <1>2, <2>1, <2>2, <2>3 DEF Replay
<1>4. UNCHANGED <<log, poller, next, healthy, conn, live, sent, excused>>
  BY DEF SubscribeResuming, store, feed
<1>5. /\ asks' = [asks EXCEPT ![c] = n] /\ pending' = [pending EXCEPT ![c] = n]
      /\ symbols' = [symbols EXCEPT ![c] = symbols[c] \union S]
      /\ replay' = [replay EXCEPT ![c][n] = s]
  BY DEF SubscribeResuming
<1>a. n = asks[c] + 1
  OBVIOUS
<1> HIDE DEF n, s
<1>6. Shape'
  <2>1. asks' \in [Conns -> 0 .. MaxAsks] /\ pending' \in [Conns -> 0 .. MaxAsks]
    BY <1>1, <1>2, <1>5 DEF Shape
  <2>2. symbols' \in [Conns -> SUBSET Symbols]
    BY <1>1, <1>2, <1>5 DEF Shape
  <2>3. replay' \in [Conns -> [Asked -> Replay]]
    <3>1. replay \in [Conns -> [Asked -> Replay]]
      BY <1>1 DEF Shape
    <3>2. [replay[c] EXCEPT ![n] = s] \in [Asked -> Replay]
      BY <1>3, <3>1
    <3>3. replay' = [replay EXCEPT ![c] = [replay[c] EXCEPT ![n] = s]]
      BY <1>5, <3>1
    <3> QED  BY <3>1, <3>2, <3>3
  <2> QED  BY <1>1, <1>4, <2>1, <2>2, <2>3 DEF Shape
<1>7. /\ replay'[c][n] = s /\ asks'[c] = n /\ pending'[c] = n
      /\ symbols'[c] = symbols[c] \union S
      /\ \A m \in Asked : m # n => replay'[c][m] = replay[c][m]
      /\ Sent(c)' = Sent(c)
  BY <1>1, <1>2, <1>4, <1>5 DEF Shape, Sent
<1>8. Alone(c)
  BY <1>1, <1>4, <1>5 DEF Shape, Alone, SameConn, SameQueues
<1>9. Arranged(c)
  BY DEF Ready, Good
<1>10. Arranged(c)'
  <2>1. Owned(c)'
    <3>1. \A m \in Asked : replay'[c][m].at # "none" => m <= n
      BY <1>1, <1>7, <1>9, <1>a DEF Arranged, Owned, Asked
    <3> QED  BY <1>2, <1>3, <1>7, <3>1 DEF Owned, UnderWay
  <2>2. LiveOrdered(c)'
    BY <1>4, <1>9 DEF Arranged, LiveOrdered, Sent, Handed
  <2>3. ASSUME NEW m \in Asked PROVE Ordered(c, m)'
    <3>1. CASE m = n
      BY <1>3, <1>7, <3>1, NothingElements DEF Ordered, UnderWay
    <3>2. CASE m # n
      <4>1. Ordered(c, m) /\ replay'[c][m] = replay[c][m] /\ Handed' = Handed
        BY <1>4, <1>7, <1>9, <3>2 DEF Arranged, Handed
      <4> QED  BY <4>1 DEF Ordered
    <3> QED  BY <3>1, <3>2
  <2> QED  BY <2>1, <2>2, <2>3 DEF Arranged
<1>11. ASSUME Resumptions(c)' = {1}
       PROVE  replay'[c][1] = s /\ pending'[c] = 1 /\ live'[c] = <<>> /\ sent'[c] = <<>>
              /\ Sent(c)' = {}
  <2>1. n \in Resumptions(c)'
    BY <1>2, <1>3, <1>7 DEF Resumptions
  <2>2. n = 1 /\ asks[c] = 0
    BY <1>1, <1>11, <1>a, <2>1
  <2> QED  BY <1>4, <1>7, <1>9, <2>2, NothingElements DEF Arranged, Owned, Sent
<1>12. NoneSkipped(c)'
  <2> SUFFICES ASSUME Resumptions(c)' = {1} PROVE Complete(c)'
    BY DEF NoneSkipped
  <2> QED  BY <1>3, <1>7, <1>11 DEF Complete, UnderWay
<1>13. NoneRepeated(c)'
  <2> SUFFICES ASSUME Resumptions(c)' = {1} PROVE Once(c)'
    BY DEF NoneRepeated
  <2> QED  BY <1>3, <1>7, <1>11 DEF Once, UnderWay
<1> QED  BY <1>6, <1>8, <1>10, <1>12, <1>13 DEF Good

LEMMA QueueType ==
  ASSUME NEW q \in Seq(Cursors), q # <<>>
  PROVE  q \in Seq(Nat) /\ Tail(q) \in Seq(Cursors) /\ Head(q) \in Cursors
<1>1. q \in Seq(Nat)
  BY CursorsNat
<1> QED  BY <1>1

(* A live send is over: it was sent, or given up. *)
LEMMA LiveOver ==
  ASSUME FlowAssumption, NEW c \in Conns, Ready(c), live[c] # <<>>,
         UNCHANGED <<log, poller, next, healthy, conn, symbols, pending, replay, asks>>,
         live' = [live EXCEPT ![c] = Tail(@)]
  PROVE  LET x == Head(live[c]) IN
         /\ x \in Cursors /\ x \in Nat /\ x <= Handed
         /\ live' \in [Conns -> Seq(Cursors)] /\ live'[c] \in Seq(Cursors)
         /\ Increasing(live'[c]) /\ ElementsOf(live[c]) = {x} \union ElementsOf(live'[c])
         /\ \A y \in ElementsOf(live'[c]) : x < y /\ y <= Handed
         /\ \A d \in Conns : d # c => live'[d] = live[d]
         /\ Handed' = Handed /\ Handed \in Nat /\ Handed <= Len(log) /\ Len(log) \in Nat
         /\ asks[c] # 0
<1> DEFINE x == Head(live[c])
           rest == Tail(live[c])
<1>1. Shape /\ LogOK /\ Arranged(c)
  BY DEF Ready, Good, LogInv
<1>2. live \in [Conns -> Seq(Cursors)] /\ live[c] \in Seq(Cursors) /\ Cursors \subseteq Nat
  BY <1>1, CursorsNat DEF Shape
<1>3. live[c] \in Seq(Nat) /\ rest \in Seq(Cursors) /\ x \in Cursors
  BY <1>2, QueueType
<1>4. Increasing(live[c]) /\ \A y \in ElementsOf(live[c]) : y <= Handed
  BY <1>1 DEF Arranged, LiveOrdered
<1>5. /\ Increasing(rest) /\ ElementsOf(live[c]) = {x} \union ElementsOf(rest)
      /\ \A y \in ElementsOf(rest) : x < y
  BY <1>3, <1>4, HeadFirst
<1>6. x <= Handed /\ \A y \in ElementsOf(rest) : x < y /\ y <= Handed
  BY <1>4, <1>5
<1>7. Handed' = Handed /\ Handed \in Nat /\ Handed <= Len(log) /\ Len(log) \in Nat
  BY <1>1, HandedBounds DEF Handed
<1>8. asks[c] # 0
  BY <1>1 DEF Arranged, Owned
<1>9. /\ live'[c] = rest /\ \A d \in Conns : d # c => live'[d] = live[d]
      /\ live' \in [Conns -> Seq(Cursors)]
  BY <1>2, <1>3
<1> HIDE DEF x, rest
<1>10. x \in Nat
  BY <1>2, <1>3
<1> QED  BY <1>3, <1>5, <1>6, <1>7, <1>8, <1>9, <1>10 DEF x

(* While live events are sent nothing is held back. *)
LEMMA LiveEnded ==
  ASSUME NEW c \in Conns, Ready(c), live[c] # <<>>, 1 \in Asked
  PROVE  /\ Complete(c) \/ Once(c) => replay[c][1].at \notin UnderWay
         /\ replay[c][1].at \notin UnderWay =>
              /\ replay[c][1].buffered = <<>> /\ replay[c][1].todo = <<>>
              /\ replay[c][1].replayed = {}
<1>1. Ordered(c, 1)
  BY DEF Ready, Good, Arranged
<1> QED  BY <1>1 DEF Complete, Once, Ordered, UnderWay

LEMMA SendLiveGood ==
  ASSUME FlowAssumption, NEW c \in Conns, Ready(c), SendLive(c)
  PROVE  Shape' /\ Alone(c) /\ Good(c)'
<1> DEFINE x == Head(live[c])
<1>1. /\ UNCHANGED <<log, poller, next, healthy, conn, symbols, pending, replay, asks, excused>>
      /\ live[c] # <<>> /\ live' = [live EXCEPT ![c] = Tail(@)] /\ Put(c, x)
  BY DEF SendLive, store, feed
<1> HIDE DEF x
<1>2. /\ x \in Cursors /\ x \in Nat /\ x <= Handed
      /\ live' \in [Conns -> Seq(Cursors)]
      /\ Increasing(live'[c]) /\ ElementsOf(live[c]) = {x} \union ElementsOf(live'[c])
      /\ \A y \in ElementsOf(live'[c]) : x < y /\ y <= Handed
      /\ \A d \in Conns : d # c => live'[d] = live[d]
      /\ Handed' = Handed /\ Handed \in Nat /\ Handed <= Len(log) /\ Len(log) \in Nat
      /\ asks[c] # 0
  BY <1>1, LiveOver DEF x
<1>3. Shape
  BY DEF Ready
<1>4. Sent(c)' = Sent(c) \union {x} /\ \A d \in Conns : d # c => sent'[d] = sent[d]
  BY <1>1, <1>2, <1>3, PutOne
<1>5. sent' \in [Conns -> Seq(Cursors)]
  <2>1. Append(sent[c], x) \in Seq(Cursors)
    BY <1>2, <1>3 DEF Shape
  <2>2. sent' = [sent EXCEPT ![c] = Append(sent[c], x)]
    BY <1>1 DEF Put
  <2> QED  BY <1>3, <2>1, <2>2 DEF Shape
<1>6. Shape'
  BY <1>1, <1>2, <1>3, <1>5 DEF Shape
<1>7. Alone(c)
  BY <1>1, <1>2, <1>4 DEF Alone, SameConn, SameQueues
<1>8. Arranged(c)'
  <2>1. Arranged(c) /\ x <= Len(log)
    BY <1>2 DEF Ready, Good
  <2>2. Owned(c)'
    BY <1>1, <1>2, <2>1 DEF Arranged, Owned
  <2>3. LiveOrdered(c)'
    BY <1>1, <1>2, <1>4, <2>1 DEF Arranged, LiveOrdered
  <2>4. \A n \in Asked : Ordered(c, n)'
    BY <1>1, <1>2, <2>1 DEF Arranged, Ordered
  <2> QED  BY <2>2, <2>3, <2>4 DEF Arranged
<1>9. NoneSkipped(c)'
  <2>1. SUFFICES ASSUME Resumptions(c) = {1}, Complete(c), 1 \in Asked PROVE Complete(c)'
    BY <1>1 DEF Ready, Good, NoneSkipped, Resumptions, Over
  <2> DEFINE r == replay[c][1]
  <2>2. /\ r.at \notin UnderWay /\ r.buffered = <<>> /\ r.todo = <<>> /\ r.replayed = {}
    BY <1>1, <2>1, LiveEnded
  <2>3. Due(c, 1)' = Due(c, 1) /\ replay' = replay
    BY <1>1 DEF Due, IsOf
  <2>4. r.of \subseteq symbols[c] /\ (r.at = "done" => pending[c] = 0)
    BY <2>1 DEF Complete
  <2> HIDE DEF r
  <2>5. ASSUME r.at = "done", NEW i \in Due(c, 1)' \ Sent(c)'
        PROVE  Queued(c, i)' /\ (i > Handed \/ i \in ElementsOf(live'[c]))
    <3>1. Queued(c, i) /\ i # x
      BY <1>4, <2>1, <2>3, <2>5 DEF Complete, r
    <3>2. i > Handed \/ i \in ElementsOf(live'[c])
      BY <1>2, <2>2, <3>1, NothingElements DEF Queued, r
    <3> QED  BY <1>2, <3>2 DEF Queued
  <2>6. ASSUME r.at = "done", NEW i \in Due(c, 1)' \ Sent(c)',
               NEW j \in Due(c, 1)' \intersect Sent(c)'
        PROVE  j < i
    <3>1. CASE j \in Sent(c)
      BY <1>4, <2>1, <2>3, <2>6, <3>1 DEF Complete, r
    <3>2. CASE j = x
      <4>1. i \in Nat
        BY <1>3, <2>3, <2>6 DEF Due, Ready, LogInv, LogOK
      <4> QED  BY <1>2, <2>5, <2>6, <3>2, <4>1
    <3> QED  BY <1>4, <2>6, <3>1, <3>2
  <2> QED  BY <1>1, <2>2, <2>3, <2>4, <2>5, <2>6 DEF Complete, UnderWay, r
<1>10. NoneRepeated(c)'
  <2>1. SUFFICES ASSUME Resumptions(c) = {1}, Once(c), 1 \in Asked PROVE Once(c)'
    BY <1>1 DEF Ready, Good, NoneRepeated, Resumptions
  <2> DEFINE r == replay[c][1]
  <2>2. /\ r.at \notin UnderWay /\ r.buffered = <<>> /\ r.todo = <<>> /\ r.replayed = {}
        /\ replay' = replay
    BY <1>1, <2>1, LiveEnded
  <2>3. /\ r.at = "done" => pending[c] = 0
        /\ \A y \in Sent(c) : y > Handed => y = r.through
        /\ \A i, j \in DOMAIN sent[c] : i < j /\ sent[c][i] = sent[c][j]
                                           => sent[c][i] = r.through
        /\ ElementsOf(live[c]) \intersect Sent(c) \subseteq {r.through}
    BY <2>1 DEF Once
  <2>4. x \in Sent(c) => x = r.through
    BY <1>2, <2>3
  <2> HIDE DEF r
  <2>5. \A i, j \in DOMAIN sent'[c] : i < j /\ sent'[c][i] = sent'[c][j]
                                        => sent'[c][i] = r.through
    <3>1. Shape /\ x \in Cursors /\ Put(c, x) /\ (x \in Sent(c) => x = r.through)
      BY <1>1, <1>2, <1>3, <2>4
    <3>2. \A i, j \in DOMAIN sent[c] : i < j /\ sent[c][i] = sent[c][j]
                                          => sent[c][i] = r.through
      BY <2>3
    <3> QED  BY <3>1, <3>2, PutRepeats
  <2>6. ElementsOf(live'[c]) \intersect Sent(c)' \subseteq {r.through}
    <3>1. x \notin ElementsOf(live'[c])
      BY <1>2
    <3> QED  BY <1>2, <1>4, <2>3, <3>1
  <2>7. \A y \in Sent(c)' : y > Handed => y = r.through
    BY <1>2, <1>4, <2>3
  <2> QED
    BY <1>1, <1>2, <2>2, <2>3, <2>5, <2>6, <2>7, NothingElements DEF Once, UnderWay, r
<1> QED  BY <1>6, <1>7, <1>8, <1>9, <1>10 DEF Good

LEMMA LiveTimesOutGood ==
  ASSUME FlowAssumption, NEW c \in Conns, Ready(c), LiveTimesOut(c)
  PROVE  Shape' /\ Alone(c) /\ Good(c)'
<1> DEFINE x == Head(live[c])
<1>1. /\ UNCHANGED <<log, poller, next, healthy, conn, symbols, pending, replay, asks, sent>>
      /\ live[c] # <<>> /\ live' = [live EXCEPT ![c] = Tail(@)]
      /\ excused' = [excused EXCEPT ![c] = excused[c] \union {x}]
  BY DEF LiveTimesOut, store, feed
<1> HIDE DEF x
<1>2. /\ x \in Cursors /\ x \in Nat /\ x <= Handed
      /\ live' \in [Conns -> Seq(Cursors)]
      /\ Increasing(live'[c]) /\ ElementsOf(live[c]) = {x} \union ElementsOf(live'[c])
      /\ \A y \in ElementsOf(live'[c]) : x < y /\ y <= Handed
      /\ \A d \in Conns : d # c => live'[d] = live[d]
      /\ Handed' = Handed /\ asks[c] # 0
  BY <1>1, LiveOver DEF x
<1>3. Shape /\ excused[c] \subseteq Cursors
  BY DEF Ready, Shape
<1>4. /\ excused'[c] = excused[c] \union {x} /\ \A d \in Conns : d # c => excused'[d] = excused[d]
      /\ excused' \in [Conns -> SUBSET Cursors]
      /\ Sent(c)' = Sent(c)
  <2>1. excused[c] \union {x} \in SUBSET Cursors
    BY <1>2, <1>3
  <2> QED  BY <1>1, <1>3, <2>1 DEF Shape, Sent
<1>5. Shape'
  BY <1>1, <1>2, <1>3, <1>4 DEF Shape
<1>6. Alone(c)
  BY <1>1, <1>2, <1>4 DEF Alone, SameConn, SameQueues
<1>7. Arranged(c)'
  <2>1. Arranged(c)
    BY DEF Ready, Good
  <2>2. Owned(c)'
    BY <1>1, <1>2, <2>1 DEF Arranged, Owned
  <2>3. LiveOrdered(c)'
    BY <1>1, <1>2, <1>4, <2>1 DEF Arranged, LiveOrdered
  <2>4. \A n \in Asked : Ordered(c, n)'
    BY <1>1, <1>2, <2>1 DEF Arranged, Ordered
  <2> QED  BY <2>2, <2>3, <2>4 DEF Arranged
<1>8. NoneSkipped(c)'
  <2>1. SUFFICES ASSUME Resumptions(c) = {1}, Complete(c), 1 \in Asked PROVE Complete(c)'
    BY <1>1, <1>2, <1>3, <1>4 DEF Ready, Good, NoneSkipped, Resumptions, Over
  <2> DEFINE r == replay[c][1]
  <2>2. /\ r.at \notin UnderWay /\ r.buffered = <<>> /\ r.todo = <<>> /\ r.replayed = {}
    BY <1>1, <2>1, LiveEnded
  <2>3. Due(c, 1)' = Due(c, 1) \ {x} /\ replay' = replay
    BY <1>1, <1>4 DEF Due, IsOf
  <2>4. r.of \subseteq symbols[c] /\ (r.at = "done" => pending[c] = 0)
    BY <2>1 DEF Complete
  <2> HIDE DEF r
  <2>5. ASSUME r.at = "done", NEW i \in Due(c, 1)' \ Sent(c)' PROVE Queued(c, i)'
    <3>1. Queued(c, i) /\ i # x
      BY <1>4, <2>1, <2>3, <2>5 DEF Complete, r
    <3>2. i > Handed \/ i \in ElementsOf(live'[c])
      BY <1>2, <2>2, <3>1, NothingElements DEF Queued, r
    <3> QED  BY <1>2, <3>2 DEF Queued
  <2>6. ASSUME r.at = "done", NEW i \in Due(c, 1)' \ Sent(c)',
               NEW j \in Due(c, 1)' \intersect Sent(c)'
        PROVE  j < i
    BY <1>4, <2>1, <2>3, <2>6 DEF Complete, r
  <2> QED  BY <1>1, <2>2, <2>3, <2>4, <2>5, <2>6 DEF Complete, UnderWay, r
<1>9. NoneRepeated(c)'
  <2>1. SUFFICES ASSUME Resumptions(c) = {1}, Once(c), 1 \in Asked PROVE Once(c)'
    BY <1>1 DEF Ready, Good, NoneRepeated, Resumptions
  <2>2. replay[c][1].at \notin UnderWay
    BY <1>1, <2>1, LiveEnded
  <2> QED  BY <1>1, <1>2, <1>4, <2>1, <2>2 DEF Once, UnderWay
<1> QED  BY <1>5, <1>6, <1>7, <1>8, <1>9 DEF Good

LEMMA ConnKeeps ==
  ASSUME FlowAssumption, QInv, NEW c \in Conns, ConnStep(c)
  PROVE  Shape' /\ \A d \in Conns : Good(d)'
<1>1. Ready(c)
  BY DEF QInv, IInv, Ready
<1>2. Shape' /\ Alone(c) /\ Good(c)'
  <2>1. CASE Connect(c)        BY <1>1, <2>1, ConnectGood
  <2>2. CASE Disconnect(c)     BY <1>1, <2>2, DisconnectGood
  <2>3. CASE SendLive(c)       BY <1>1, <2>3, SendLiveGood
  <2>4. CASE LiveTimesOut(c)   BY <1>1, <2>4, LiveTimesOutGood
  <2>5. CASE AskStep(c)
    BY <1>1, <2>5, SubscribeGood, UnsubscribeGood, ResumingGood DEF AskStep
  <2> QED  BY <2>1, <2>2, <2>3, <2>4, <2>5 DEF ConnStep
<1>3. ASSUME NEW d \in Conns, d # c PROVE Good(d)'
  BY <1>2, <1>3, SameGood DEF QInv, Alone
<1> QED  BY <1>2, <1>3

-----------------------------------------------------------------------------
(* The poller hands an event over *)

(* The event is the last of the log. *)
HandsOver ==
  /\ LogInv /\ Shape /\ LogInv' /\ Shape'
  /\ poller = "answered" /\ poller' = "idle" /\ log' = log

LEMMA HandedOver ==
  ASSUME FlowAssumption, HandsOver
  PROVE  /\ Len(log) \in Cursors /\ Len(log) \in Nat /\ DOMAIN log = 1 .. Len(log)
         /\ Handed = Len(log) - 1 /\ Handed' = Len(log) /\ Handed \in Nat
         /\ LogOK /\ LogOK'
<1>1. /\ Len(log) \in Nat /\ Len(log) < Now /\ Now \in Nat /\ DOMAIN log = 1 .. Len(log)
      /\ LogOK /\ LogOK'
  BY EndOfTime DEF HandsOver, LogInv, LogOK, Now, FlowAssumption
<1>2. Handed = Len(log) - 1
  BY DEF HandsOver, Handed
<1>3. Handed \in Nat
  BY <1>1, HandedBounds DEF HandsOver
<1>4. Handed' = Len(log)
  BY DEF HandsOver, Handed
<1>5. Len(log) \in 1 .. Now
  BY <1>1, <1>2, <1>3
<1> QED  BY <1>1, <1>2, <1>3, <1>4, <1>5 DEF Cursors

(* What has been sent beyond what the poller had handed over is the end of  *)
(* the range also when it hands that over.                                  *)
LEMMA SentBeyond ==
  ASSUME FlowAssumption, HandsOver, NEW c \in Conns, Arranged(c)
  PROVE  /\ Sent(c) \subseteq Nat /\ ~(\E y \in Sent(c) : y > Len(log))
         /\ Len(log) \in Sent(c) => Len(log) > Handed
<1>1. Sent(c) \subseteq Cursors
  BY ElementsType DEF Sent, HandsOver, Shape
<1>2. \A y \in Sent(c) : y \in Nat /\ y <= Len(log)
  BY <1>1, CursorsNat DEF Arranged, LiveOrdered
<1> QED  BY <1>2, HandedOver

(* It is not for this connection, or the connection is told to do without.  *)
LEMMA PassedGood ==
  ASSUME FlowAssumption, HandsOver, NEW c \in Conns, SameQueues(c), Good(c),
         excused'[c] = excused[c] \/ excused'[c] = excused[c] \union {Len(log)},
         IsOf(Len(log), symbols[c]) => Len(log) \in excused'[c]
  PROVE  Good(c)'
<1>1. /\ Len(log) \in Cursors /\ Len(log) \in Nat /\ DOMAIN log = 1 .. Len(log)
      /\ Handed = Len(log) - 1 /\ Handed' = Len(log) /\ Handed \in Nat
      /\ LogOK /\ LogOK'
  BY HandedOver
<1>2. Shape /\ Shape' /\ log' = log
  BY DEF HandsOver
<1>3. Arranged(c) /\ Arranged(c)'
  BY <1>1, <1>2, LaterArranged DEF Good
<1>4. /\ Sent(c)' = Sent(c) /\ \A y \in Sent(c) : y \in Nat /\ ~(y > Handed')
  BY <1>1, <1>3, SentBeyond DEF SameQueues, Sent
<1>5. NoneRepeated(c)'
  BY <1>4 DEF Good, SameQueues, NoneRepeated, Resumptions, Once
<1>6. NoneSkipped(c)'
  <2>1. excused[c] = Cursors => excused'[c] = Cursors
    <3>1. Len(log) \in Cursors
      BY <1>1
    <3>2. Cursors \union {Len(log)} = Cursors
      BY <3>1
    <3>3. excused'[c] = excused[c] \/ excused'[c] = excused[c] \union {Len(log)}
      OBVIOUS
    <3> HIDE DEF HandsOver
    <3> QED  BY <3>2, <3>3
  <2>2. SUFFICES ASSUME Resumptions(c) = {1}, Complete(c), 1 \in Asked PROVE Complete(c)'
    BY <2>1 DEF Good, SameQueues, NoneSkipped, Resumptions, Over
  <2> DEFINE r == replay[c][1]
  <2>3. replay'[c] = replay[c] /\ live'[c] = live[c] /\ symbols'[c] = symbols[c]
        /\ pending'[c] = pending[c] /\ sent'[c] = sent[c]
    BY DEF SameQueues
  <2>4. ASSUME NEW i \in Due(c, 1)' PROVE i \in Due(c, 1) /\ i # Len(log)
    <3>1. i \in DOMAIN log /\ IsOf(i, r.of) /\ i \notin excused'[c] /\ i \in Due(c, 1)
      BY <1>2, <2>3, <2>4 DEF Due, IsOf
    <3>2. IsOf(i, symbols[c])
      BY <2>2, <3>1 DEF Complete, IsOf
    <3> QED  BY <3>1, <3>2
  <2>5. ASSUME NEW i \in Due(c, 1)', Queued(c, i) PROVE Queued(c, i)'
    <3>1. i \in 1 .. Len(log) /\ i # Len(log)
      BY <1>1, <2>4, <2>5 DEF Due
    <3>2. ~(i > Handed)
      <4>1. Len(log) \in Nat /\ Handed = Len(log) - 1
        BY <1>1
      <4> QED  BY <3>1, <4>1
    <3> QED  BY <2>3, <2>5, <3>2 DEF Queued
  <2> HIDE DEF r
  <2> QED  BY <1>4, <2>2, <2>3, <2>4, <2>5 DEF Complete
<1> QED  BY <1>3, <1>5, <1>6 DEF Good

(* It is held back by the barrier of request p. *)
LEMMA HeldGood ==
  ASSUME FlowAssumption, HandsOver, NEW c \in Conns, Good(c),
         symbols'[c] = symbols[c], pending'[c] = pending[c], live'[c] = live[c],
         sent'[c] = sent[c], asks'[c] = asks[c], excused'[c] = excused[c],
         NEW p \in Asked, pending[c] = p, p # 0,
         replay'[c] = [replay[c] EXCEPT ![p].buffered = Append(@, Len(log))]
  PROVE  Good(c)'
<1> DEFINE e == Len(log)
           r == replay[c][p]
           s == replay'[c][p]
<1>1. /\ e \in Cursors /\ e \in Nat /\ DOMAIN log = 1 .. e
      /\ Handed = e - 1 /\ Handed' = e /\ Handed \in Nat
  BY HandedOver
<1>b. Handed \in Nat /\ Handed' \in Nat /\ Handed <= Handed'
  BY <1>1
<1>2. Shape /\ log' = log /\ Arranged(c) /\ Ordered(c, p)
  BY DEF HandsOver, Good, Arranged
<1>3. replay[c] \in [Asked -> Replay] /\ r \in Replay
  BY <1>2 DEF Shape
<1>4. s = [r EXCEPT !.buffered = Append(@, e)]
      /\ \A m \in Asked : m # p => replay'[c][m] = replay[c][m]
  BY <1>3
<1> HIDE DEF e, r, s
<1>5. /\ s.at = r.at /\ s.of = r.of /\ s.after = r.after /\ s.through = r.through
      /\ s.todo = r.todo /\ s.replayed = r.replayed /\ s.buffered = Append(r.buffered, e)
  BY <1>3, <1>4 DEF Replay
<1>6. r.at \in UnderWay
  BY <1>2 DEF Arranged, Owned, r
<1>7. /\ r.buffered \in Seq(Nat) /\ Increasing(r.buffered)
      /\ \A x \in ElementsOf(r.buffered) : x <= Handed /\ x \in Nat
  <2>1. r.buffered \in Seq(Cursors) /\ r.buffered \in Seq(Nat)
    BY <1>3, CursorsNat DEF Replay
  <2> QED  BY <1>2, <2>1, ElementsType DEF Ordered, r
<1>8. /\ Increasing(s.buffered) /\ ElementsOf(s.buffered) = ElementsOf(r.buffered) \union {e}
      /\ \A x \in ElementsOf(r.buffered) : x < e
  <2>1. \A x \in ElementsOf(r.buffered) : x < e
    BY <1>1, <1>7
  <2> QED  BY <1>1, <1>5, <1>7, <2>1, AppendLater, SMTT(20)
<1>9. Sent(c)' = Sent(c) /\ \A y \in Sent(c) : y \in Nat /\ ~(y > e) /\ y <= e
  BY <1>1, <1>2, SentBeyond DEF Sent, e, Arranged, LiveOrdered
<1>10. Arranged(c)'
  <2>1. Owned(c)'
    BY <1>2, <1>4, <1>5, <1>6 DEF Arranged, Owned, r, s
  <2>2. LiveOrdered(c)'
    <3>1. \A x \in ElementsOf(live[c]) : x \in Nat /\ x <= Handed
      BY <1>2, ElementsType, CursorsNat DEF Shape, Arranged, LiveOrdered
    <3> QED  BY <1>1, <1>2, <3>1 DEF Arranged, LiveOrdered, Sent
  <2>3. ASSUME NEW m \in Asked, m # p PROVE Ordered(c, m)'
    <3>1. Ordered(c, m) /\ replay'[c][m] = replay[c][m] /\ replay[c][m] \in Replay
      BY <1>2, <1>3, <1>4, <2>3 DEF Arranged
    <3> QED  BY <1>b, <3>1, LaterOrdered
  <2>4. Ordered(c, p)'
    <3>1. \A x \in ElementsOf(r.todo) : x \in Nat
      <4>1. r.todo \in Seq(Cursors)
        BY <1>3 DEF Replay
      <4> QED  BY <4>1, ElementsType, CursorsNat
    <3>2. /\ r.at \notin {"sending", "flushing"} => r.todo = <<>> /\ r.replayed = {}
          /\ Increasing(r.todo)
          /\ r.at = "sending" => \A x \in ElementsOf(r.todo) : x <= r.through
          /\ r.at = "flushing" =>
               /\ \A x \in ElementsOf(r.todo) : x <= Handed
               /\ \A x \in ElementsOf(r.todo), y \in ElementsOf(r.buffered) : x < y
      BY <1>2 DEF Ordered, r
    <3>3. \A x \in ElementsOf(s.buffered) : x <= e
      <4>1. \A x \in ElementsOf(r.buffered) : x \in Nat /\ x < e
        BY <1>7, <1>8
      <4>2. e \in Nat /\ ElementsOf(s.buffered) = ElementsOf(r.buffered) \union {e}
        BY <1>1, <1>8
      <4> QED  BY <4>1, <4>2
    <3>4. r.at = "flushing" =>
            /\ \A x \in ElementsOf(r.todo) : x <= e
            /\ \A x \in ElementsOf(r.todo), y \in ElementsOf(s.buffered) : x < y
      BY <1>1, <1>8, <3>1, <3>2
    <3> QED  BY <1>1, <1>5, <1>6, <1>8, <3>2, <3>3, <3>4 DEF Ordered, s
  <2> QED  BY <2>1, <2>2, <2>3, <2>4 DEF Arranged
<1>11. Resumptions(c)' = Resumptions(c) /\ p \in Resumptions(c)
  <2>1. \A m \in Asked : replay'[c][m].at = replay[c][m].at
    BY <1>4, <1>5 DEF r, s
  <2>2. replay[c][p].at # "none"
    BY <1>6 DEF UnderWay, r
  <2> QED  BY <2>1, <2>2 DEF Resumptions
<1>12. NoneSkipped(c)'
  <2>1. SUFFICES ASSUME Resumptions(c) = {1}, excused[c] # Cursors PROVE Complete(c)'
    BY <1>11 DEF NoneSkipped
  <2>2. p = 1 /\ replay[c][1] = r /\ replay'[c][1] = s
    BY <1>11, <2>1 DEF r, s
  <2>3. Complete(c)
    BY <1>6, <2>1, <2>2 DEF Good, NoneSkipped, Over, UnderWay
  <2>4. Due(c, 1)' = Due(c, 1)
    BY <1>2, <1>5, <2>2 DEF Due, IsOf
  <2>5. ASSUME NEW i \in Due(c, 1), Queued(c, i) PROVE Queued(c, i)'
    <3>1. i \in 1 .. e
      BY <1>1 DEF Due
    <3>2. CASE i = e
      BY <1>8, <2>2, <3>2 DEF Queued
    <3>3. CASE i # e
      <4>1. ~(i > Handed)
        BY <1>1, <3>1, <3>3
      <4> QED  BY <1>5, <1>8, <2>2, <2>5, <4>1 DEF Queued
    <3> QED  BY <3>2, <3>3
  <2> QED  BY <1>5, <1>9, <2>2, <2>3, <2>4, <2>5 DEF Complete
<1>13. NoneRepeated(c)'
  <2>1. SUFFICES ASSUME Resumptions(c) = {1}, asks[c] = 1 PROVE Once(c)'
    BY <1>11 DEF NoneRepeated
  <2>2. p = 1 /\ replay[c][1] = r /\ replay'[c][1] = s
    BY <1>11, <2>1 DEF r, s
  <2>3. Once(c)
    BY <1>6, <2>1, <2>2 DEF Good, NoneRepeated, UnderWay
  <2>4. e \in Sent(c) => e = r.through
    <3>1. \A y \in Sent(c) : y > Handed => y = r.through
      BY <2>2, <2>3 DEF Once
    <3> QED  BY <1>1, <3>1
  <2>5. ElementsOf(s.buffered) \intersect Sent(c) \subseteq s.replayed \union {s.through}
    <3>1. ElementsOf(r.buffered) \intersect Sent(c) \subseteq r.replayed \union {r.through}
      BY <2>2, <2>3 DEF Once
    <3>2. s.replayed = r.replayed /\ s.through = r.through
      BY <1>5
    <3>3. ElementsOf(s.buffered) = ElementsOf(r.buffered) \union {e}
      BY <1>8
    <3> QED  BY <2>4, <3>1, <3>2, <3>3
  <2>6. \A y \in Sent(c)' : ~(y > Handed')
    BY <1>1, <1>9
  <2> QED  BY <1>5, <1>9, <2>2, <2>3, <2>5, <2>6, ZenonT(80) DEF Once
<1> QED  BY <1>10, <1>12, <1>13 DEF Good

(* It goes out live. *)
LEMMA LiveGood ==
  ASSUME FlowAssumption, HandsOver, NEW c \in Conns, Good(c),
         symbols'[c] = symbols[c], pending'[c] = pending[c], replay'[c] = replay[c],
         sent'[c] = sent[c], asks'[c] = asks[c], excused'[c] = excused[c],
         pending[c] = 0, IsOf(Len(log), symbols[c]), live'[c] = Append(live[c], Len(log))
  PROVE  Good(c)'
<1> DEFINE e == Len(log)
<1>1. /\ e \in Cursors /\ e \in Nat /\ DOMAIN log = 1 .. e
      /\ Handed = e - 1 /\ Handed' = e /\ Handed \in Nat
  BY HandedOver
<1>b. Handed \in Nat /\ Handed' \in Nat /\ Handed <= Handed'
  BY <1>1
<1>2. Shape /\ log' = log /\ Arranged(c)
  BY DEF HandsOver, Good
<1>a. live'[c] = Append(live[c], e) /\ IsOf(e, symbols[c])
  OBVIOUS
<1> HIDE DEF e
<1>3. live[c] \in Seq(Nat) /\ live[c] \in Seq(Cursors) /\ Increasing(live[c])
  <2>1. live[c] \in Seq(Cursors)
    BY <1>2 DEF Shape
  <2> QED  BY <1>2, <2>1, CursorsNat DEF Arranged, LiveOrdered
<1>4. \A x \in ElementsOf(live[c]) : x \in Nat /\ x <= Handed
  BY <1>2, <1>3, ElementsType DEF Arranged, LiveOrdered
<1>5. /\ Increasing(live'[c]) /\ ElementsOf(live'[c]) = ElementsOf(live[c]) \union {e}
      /\ \A x \in ElementsOf(live'[c]) : x <= e
  <2>1. \A x \in ElementsOf(live[c]) : x < e /\ x <= e
    BY <1>1, <1>4
  <2>2. Increasing(live'[c]) /\ ElementsOf(live'[c]) = ElementsOf(live[c]) \union {e}
    BY <1>1, <1>3, <1>a, <2>1, AppendLater
  <2> QED  BY <1>1, <2>1, <2>2
<1>6. Sent(c)' = Sent(c) /\ \A y \in Sent(c) : y \in Nat /\ ~(y > e) /\ y <= e
  BY <1>1, <1>2, SentBeyond DEF Sent, e, Arranged, LiveOrdered
<1>7. Arranged(c)'
  <2>1. asks[c] # 0
    BY <1>2, <1>a DEF Arranged, Owned, IsOf
  <2>2. Owned(c)'
    BY <1>2, <2>1 DEF Arranged, Owned
  <2>3. LiveOrdered(c)'
    BY <1>1, <1>2, <1>5, <1>6 DEF LiveOrdered, e
  <2>4. ASSUME NEW m \in Asked PROVE Ordered(c, m)'
    <3>1. Ordered(c, m) /\ replay'[c][m] = replay[c][m] /\ replay[c][m] \in Replay
      BY <1>2 DEF Arranged, Shape
    <3> QED  BY <1>b, <3>1, LaterOrdered
  <2> QED  BY <2>2, <2>3, <2>4 DEF Arranged
<1>8. NoneSkipped(c)'
  <2>1. SUFFICES ASSUME Resumptions(c) = {1}, Complete(c) PROVE Complete(c)'
    BY DEF Good, NoneSkipped, Resumptions, Over
  <2>2. Due(c, 1)' = Due(c, 1)
    BY <1>2 DEF Due, IsOf
  <2>3. ASSUME NEW i \in Due(c, 1), Queued(c, i) PROVE Queued(c, i)'
    <3>1. i \in 1 .. e
      BY <1>1 DEF Due
    <3>2. CASE i = e
      BY <1>5, <3>2 DEF Queued
    <3>3. CASE i # e
      <4>1. ~(i > Handed)
        BY <1>1, <3>1, <3>3
      <4> QED  BY <1>5, <2>3, <4>1 DEF Queued
    <3> QED  BY <3>2, <3>3
  <2>4. replay[c][1].at \notin UnderWay
    BY <2>1 DEF Complete
  <2> QED  BY <1>6, <2>1, <2>2, <2>3, <2>4 DEF Complete
<1>9. NoneRepeated(c)'
  <2>1. SUFFICES ASSUME Resumptions(c) = {1}, Once(c) PROVE Once(c)'
    BY DEF Good, NoneRepeated, Resumptions
  <2> DEFINE r == replay[c][1]
  <2>2. r.at \notin UnderWay
    BY <2>1 DEF Once
  <2>3. e \in Sent(c) => e = r.through
    <3>1. \A y \in Sent(c) : y > Handed => y = r.through
      BY <2>1 DEF Once
    <3> QED  BY <1>1, <3>1
  <2>4. ElementsOf(live'[c]) \intersect Sent(c) \subseteq {r.through}
    <3>1. ElementsOf(live[c]) \intersect Sent(c) \subseteq {r.through}
      BY <2>1 DEF Once
    <3> QED  BY <1>5, <2>3, <3>1
  <2>5. \A y \in Sent(c)' : ~(y > Handed')
    BY <1>1, <1>6
  <2> HIDE DEF r
  <2> QED  BY <1>6, <2>1, <2>2, <2>4, <2>5 DEF Once, r
<1> QED  BY <1>7, <1>8, <1>9 DEF Good

LEMMA DeliverKeeps ==
  ASSUME FlowAssumption, QInv, LogInv', Deliver
  PROVE  Shape' /\ \A c \in Conns : Good(c)'
<1> DEFINE targets == {c \in Conns : IsOf(Len(log), symbols[c])}
           held == {c \in targets : pending[c] # 0}
<1>1. /\ UNCHANGED <<log, healthy, conn, symbols, pending, asks, sent, excused>>
      /\ poller = "answered" /\ poller' = "idle" /\ Shape /\ LogInv /\ \A c \in Conns : Good(c)
  BY DEF Deliver, store, QInv, IInv
<1>2. live' = [c \in Conns |->
                 IF c \in targets \ held THEN Append(live[c], Len(log)) ELSE live[c]]
  BY DEF Deliver
<1>3. replay' = [c \in Conns |->
                   IF c \in held
                   THEN [replay[c] EXCEPT ![pending[c]].buffered = Append(@, Len(log))]
                   ELSE replay[c]]
  BY DEF Deliver
<1>4. Len(log) \in Cursors
  <2>1. Len(log) \in Nat /\ Len(log) < Now /\ Now \in Nat
    BY <1>1, EndOfTime DEF FlowAssumption, Now
  <2>2. Len(log) # 0
    BY <1>1 DEF LogInv, LogOK, Shape
  <2> QED  BY <2>1, <2>2 DEF Cursors
<1>5. \A c \in Conns : pending[c] # 0 => pending[c] \in Asked
  BY <1>1 DEF Shape, FlowAssumption, Asked
<1>6. \A c \in Conns : c \in held <=> c \in targets /\ pending[c] # 0
  OBVIOUS
<1>7. \A c \in Conns : c \in targets <=> IsOf(Len(log), symbols[c])
  OBVIOUS
<1> HIDE DEF targets, held
<1>8. Shape'
  <2>1. live' \in [Conns -> Seq(Cursors)]
    <3>1. ASSUME NEW c \in Conns PROVE live[c] \in Seq(Cursors)
      BY <1>1 DEF Shape
    <3>2. ASSUME NEW c \in Conns PROVE Append(live[c], Len(log)) \in Seq(Cursors)
      BY <1>4, <3>1
    <3> QED  BY <1>2, <3>1, <3>2
  <2>2. ASSUME NEW c \in Conns, c \in held
        PROVE  [replay[c] EXCEPT ![pending[c]].buffered = Append(@, Len(log))]
                 \in [Asked -> Replay]
    <3> DEFINE r == replay[c][pending[c]]
               s == [r EXCEPT !.buffered = Append(@, Len(log))]
    <3>1. pending[c] \in Asked /\ replay[c] \in [Asked -> Replay] /\ r \in Replay
      BY <1>1, <1>5, <1>6, <2>2 DEF Shape
    <3>2. [replay[c] EXCEPT ![pending[c]].buffered = Append(@, Len(log))]
            = [replay[c] EXCEPT ![pending[c]] = s]
      BY <3>1
    <3>3. s \in Replay
      <4> HIDE DEF r
      <4>1. r.buffered \in Seq(Cursors) /\ r \in Replay
        BY <3>1 DEF Replay
      <4>2. Append(r.buffered, Len(log)) \in Seq(Cursors)
        BY <1>4, <4>1
      <4> QED  BY <4>1, <4>2 DEF Replay
    <3> HIDE DEF s
    <3> QED  BY <3>1, <3>2, <3>3
  <2>3. ASSUME NEW c \in Conns PROVE replay[c] \in [Asked -> Replay]
    BY <1>1 DEF Shape
  <2>4. replay' \in [Conns -> [Asked -> Replay]]
    <3> DEFINE With(c) == [replay[c] EXCEPT ![pending[c]].buffered = Append(@, Len(log))]
    <3>1. \A c \in Conns : c \in held => With(c) \in [Asked -> Replay]
      BY <2>2
    <3>2. replay' = [c \in Conns |-> IF c \in held THEN With(c) ELSE replay[c]]
      BY <1>3
    <3> HIDE DEF With
    <3> QED  BY <2>3, <3>1, <3>2
  <2> QED  BY <1>1, <2>1, <2>4 DEF Shape
<1>9. HandsOver
  BY <1>1, <1>8 DEF HandsOver
<1>10. ASSUME NEW c \in Conns PROVE Good(c)'
  <2>1. /\ symbols'[c] = symbols[c] /\ pending'[c] = pending[c] /\ sent'[c] = sent[c]
        /\ asks'[c] = asks[c] /\ excused'[c] = excused[c] /\ Good(c)
    BY <1>1
  <2>2. CASE c \in held
    <3>1. replay'[c] = [replay[c] EXCEPT ![pending[c]].buffered = Append(@, Len(log))]
      BY <1>3, <2>2
    <3>2. live'[c] = live[c] /\ pending[c] \in Asked /\ pending[c] # 0
      BY <1>2, <1>5, <1>6, <2>2
    <3> QED  BY <1>9, <2>1, <3>1, <3>2, HeldGood
  <2>3. CASE c \in targets \ held
    <3>1. replay'[c] = replay[c] /\ live'[c] = Append(live[c], Len(log))
      BY <1>2, <1>3, <2>3
    <3>2. IsOf(Len(log), symbols[c]) /\ pending[c] = 0
      BY <1>6, <1>7, <2>3
    <3> QED  BY <1>9, <2>1, <3>1, <3>2, LiveGood
  <2>4. CASE c \notin targets
    <3>1. ~IsOf(Len(log), symbols[c]) /\ c \notin held
      BY <1>6, <1>7, <2>4
    <3>2. replay'[c] = replay[c] /\ live'[c] = live[c]
      BY <1>2, <1>3, <2>4, <3>1
    <3>3. SameQueues(c)
      BY <2>1, <3>2 DEF SameQueues
    <3> QED  BY <1>9, <2>1, <3>1, <3>3, PassedGood
  <2> QED  BY <2>2, <2>3, <2>4
<1> QED  BY <1>8, <1>10

LEMMA AnswerLostKeeps ==
  ASSUME FlowAssumption, QInv, LogInv', AnswerLost
  PROVE  Shape' /\ \A c \in Conns : Good(c)'
<1>1. /\ UNCHANGED <<log, conn, symbols, pending, replay, live, asks, sent>>
      /\ poller = "answered" /\ poller' = "idle" /\ Shape /\ LogInv /\ \A c \in Conns : Good(c)
      /\ healthy' \in {healthy, FALSE}
  BY DEF AnswerLost, fanout, QInv, IInv
<1>2. excused' = [c \in Conns |-> excused[c] \union {Len(log)}]
  BY DEF AnswerLost
<1>3. Len(log) \in Cursors
  <2>1. Len(log) \in Nat /\ Len(log) < Now /\ Now \in Nat
    BY <1>1, EndOfTime DEF FlowAssumption, Now
  <2>2. Len(log) # 0
    BY <1>1 DEF LogInv, LogOK, Shape
  <2> QED  BY <2>1, <2>2 DEF Cursors
<1>4. Shape'
  <2>1. ASSUME NEW c \in Conns PROVE excused[c] \union {Len(log)} \in SUBSET Cursors
    BY <1>1, <1>3 DEF Shape
  <2>2. excused' \in [Conns -> SUBSET Cursors]
    BY <1>2, <2>1
  <2>3. healthy' \in BOOLEAN
    BY <1>1 DEF Shape
  <2> QED  BY <1>1, <2>2, <2>3 DEF Shape
<1>5. HandsOver
  BY <1>1, <1>4 DEF HandsOver
<1>6. ASSUME NEW c \in Conns PROVE Good(c)'
  <2>1. excused'[c] = excused[c] \union {Len(log)} /\ Good(c) /\ SameQueues(c)
    BY <1>1, <1>2 DEF SameQueues
  <2>2. Len(log) \in excused'[c]
    BY <2>1
  <2> QED  BY <1>5, <2>1, <2>2, PassedGood
<1> QED  BY <1>4, <1>6

(* An entry is added to the log, or an event is missed. *)
LEMMA AddKeeps ==
  ASSUME FlowAssumption, QInv, LogInv',
         poller = "idle", healthy' \in BOOLEAN,
         UNCHANGED <<conn, fanout, asks, sent, excused>>,
         \/ UNCHANGED <<log, poller>>
         \/ \E e \in 0 .. MaxEvents :
              Xadd(e) /\ ((poller' = "answered" /\ next' = e) \/ (e = 0 /\ poller' = "idle"))
  PROVE  Shape' /\ \A c \in Conns : Good(c)'
<1>1. Shape /\ LogInv /\ Replays /\ \A c \in Conns : Good(c) /\ SameConn(c)
  BY DEF QInv, IInv, fanout, SameConn, SameQueues
<1>2. UNCHANGED <<conn, symbols, pending, replay, live, asks, sent, excused>>
  BY DEF fanout
<1>3. CASE UNCHANGED <<log, poller>>
  <2>1. Shape /\ poller' # "answered"
    BY <1>1, <1>3
  <2>2. Shape'
    BY <1>2, <2>1 DEF Shape
  <2> QED  BY <1>1, <1>3, <2>2, SameGood
<1>4. ASSUME NEW e \in 0 .. MaxEvents, Xadd(e),
             (poller' = "answered" /\ next' = e) \/ (e = 0 /\ poller' = "idle")
      PROVE  Shape' /\ \A c \in Conns : Good(c)'
  <2>1. Len(log') = Len(log) + 1 /\ log'[Len(log) + 1] = e /\ Len(log) \in Nat
    BY <1>1, <1>4, XaddLog, SMTT(40) DEF LogInv, LogOK
  <2>2. poller' = "answered" => log' # <<>> /\ log'[Len(log')] = next'
    BY <1>4, <2>1
  <2>3. Shape'
    BY <1>1, <1>2, <2>2 DEF Shape
  <2> QED  BY <1>1, <1>4, <2>3, GrowGood
<1> QED  BY <1>3, <1>4

LEMMA RestartKeeps ==
  ASSUME FlowAssumption, QInv, Restart
  PROVE  Shape' /\ \A c \in Conns : Good(c)'
<1>1. /\ symbols' = [c \in Conns |-> {}] /\ pending' = [c \in Conns |-> 0]
      /\ replay' = [c \in Conns |-> NoAsk] /\ live' = [c \in Conns |-> <<>>]
      /\ sent' = [c \in Conns |-> <<>>] /\ excused' = [c \in Conns |-> {}]
      /\ asks' = [c \in Conns |-> 0] /\ healthy' \in BOOLEAN /\ poller' = "idle"
  BY DEF Restart
<1>2. conn' \in [Conns -> {"new", "open", "gone"}]
  BY DEF Restart
<1>3. 0 \in 0 .. MaxAsks /\ <<>> \in Seq(Cursors) /\ {} \in SUBSET Cursors
  BY DEF FlowAssumption
<1>4. Shape'
  BY <1>1, <1>2, <1>3, NoAskType DEF Shape
<1> QED  BY <1>1, <1>4, EmptyGood

LEMMA PollerKeeps ==
  ASSUME FlowAssumption, QInv, LogInv', PollerStep
  PROVE  Shape' /\ \A c \in Conns : Good(c)'
<1>0. /\ 0 \in 0 .. MaxEvents /\ next \in Nat /\ healthy \in BOOLEAN
      /\ (next <= MaxEvents => next \in 0 .. MaxEvents)
  BY DEF QInv, IInv, LogInv, LogOK, Shape, FlowAssumption
<1>1. CASE Unavailable
  BY <1>0, <1>1, AddKeeps DEF Unavailable
<1>2. CASE MarkGap
  <2>1. poller' = "idle" /\ poller = "idle" /\ Xadd(0) /\ healthy' \in BOOLEAN
        /\ UNCHANGED <<conn, fanout, asks, sent, excused>>
    BY <1>2 DEF MarkGap
  <2> QED  BY <1>0, <2>1, AddKeeps
<1>3. CASE AppendEvent
  <2>1. poller' = "answered" /\ poller = "idle" /\ Xadd(next) /\ healthy' \in BOOLEAN
        /\ UNCHANGED <<conn, fanout, asks, sent, excused>> /\ next' = next /\ next <= MaxEvents
    BY <1>3 DEF AppendEvent
  <2> QED  BY <1>0, <2>1, AddKeeps
<1>4. CASE AppendFails
  <2>1. poller' = "idle" /\ poller = "idle" /\ healthy' \in BOOLEAN
        /\ UNCHANGED <<conn, fanout, asks, sent, excused>>
        /\ (UNCHANGED log \/ Xadd(0))
    BY <1>0, <1>4 DEF AppendFails
  <2> QED  BY <1>0, <2>1, AddKeeps
<1>5. CASE Deliver
  BY <1>5, DeliverKeeps
<1>6. CASE AnswerLost
  BY <1>6, AnswerLostKeeps
<1>7. CASE Restart
  BY <1>7, RestartKeeps
<1> QED  BY <1>1, <1>2, <1>3, <1>4, <1>5, <1>6, <1>7 DEF PollerStep, DeliverStep

LEMMA InitQInv == ASSUME FlowAssumption, Init PROVE QInv
<1>1. IInv
  BY InitIInv
<1>2. /\ symbols = [c \in Conns |-> {}] /\ pending = [c \in Conns |-> 0]
      /\ replay = [c \in Conns |-> NoAsk] /\ live = [c \in Conns |-> <<>>]
      /\ sent = [c \in Conns |-> <<>>] /\ excused = [c \in Conns |-> {}]
      /\ asks = [c \in Conns |-> 0] /\ healthy \in BOOLEAN /\ poller = "idle"
      /\ conn = [c \in Conns |-> "new"]
  BY DEF Init
<1>3. 0 \in 0 .. MaxAsks /\ <<>> \in Seq(Cursors) /\ {} \in SUBSET Cursors
  BY DEF FlowAssumption
<1>4. Shape
  BY <1>2, <1>3, NoAskType DEF Shape
<1>5. ASSUME NEW c \in Conns PROVE Good(c)
  <2>1. \A n \in Asked : replay[c][n] = NoReplay
    BY <1>2 DEF NoAsk
  <2>2. NoReplay.at = "none" /\ NoReplay.buffered = <<>> /\ NoReplay.todo = <<>>
        /\ NoReplay.replayed = {}
    BY DEF NoReplay
  <2>3. Sent(c) = {} /\ ElementsOf(<<>>) = {} /\ Increasing(<<>>)
    BY <1>2, NothingElements DEF Sent
  <2>4. Owned(c)
    BY <1>2, <2>1, <2>2 DEF Owned
  <2>5. LiveOrdered(c)
    BY <1>2, <2>3 DEF LiveOrdered
  <2>6. \A n \in Asked : Ordered(c, n)
    BY <2>1, <2>2, <2>3 DEF Ordered, UnderWay
  <2>7. Resumptions(c) = {}
    BY <2>1, <2>2 DEF Resumptions
  <2> QED  BY <2>4, <2>5, <2>6, <2>7 DEF Good, Arranged, NoneSkipped, NoneRepeated
<1> QED  BY <1>1, <1>4, <1>5 DEF QInv

LEMMA IdleQInv == ASSUME QInv, IInv', UNCHANGED vars PROVE QInv'
<1>1. UNCHANGED <<log, poller, next, healthy, conn, symbols, pending, replay, live, sent, excused,
                  asks>>
  BY DEF vars, store, feed, fanout
<1>2. Shape'
  BY <1>1 DEF QInv, Shape
<1>3. \A c \in Conns : SameConn(c)
  BY <1>1 DEF SameConn, SameQueues
<1> QED  BY <1>1, <1>2, <1>3, SameGood DEF QInv

LEMMA NextQInv == ASSUME FlowAssumption, QInv, [Next]_vars PROVE QInv'
<1>1. IInv' /\ LogInv'
  BY NextIInv DEF QInv, IInv
<1>2. CASE Next
  BY <1>1, <1>2, Kinds, PollerKeeps, ConnKeeps, RequestKeeps DEF QInv
<1> QED  BY <1>1, <1>2, IdleQInv

(* The inductive invariant of the hand-off: live sends, the events behind   *)
(* a barrier and what a replay has still to send are in the order of the    *)
(* log and hold what is owed to a connection.                               *)
THEOREM QueuesInOrder == Spec => []QInv
<1>1. Init => QInv
  BY InitQInv, FlowAssumption
<1>2. QInv /\ [Next]_vars => QInv'
  BY NextQInv, FlowAssumption
<1> QED  BY <1>1, <1>2, PTL DEF Spec

(* The variables keep their types, and a barrier in _pending_replays is     *)
(* that of a request whose prepare or flush will lift it.                   *)
THEOREM TypeCorrect == Spec => []TypeOK
<1>1. ASSUME QInv PROVE TypeOK
  <2>1. LogInv /\ Shape /\ \A c \in Conns : Owned(c)
    BY <1>1 DEF QInv, IInv, Good, Arranged
  <2>2. Len(log) \in Nat /\ Len(log) < Now /\ Now \in Nat
    BY <2>1, FlowAssumption, EndOfTime DEF FlowAssumption, Now
  <2>3. trimmed \in 0 .. Len(log)
    BY <2>1, <2>2, FlowAssumption DEF FlowAssumption, LogInv, LogOK
  <2>4. missed \subseteq 0 .. Now
    BY <2>1, <2>2 DEF LogInv, MissedAreMarked
  <2>5. /\ log \in Seq(0 .. MaxEvents) /\ gap \in BOOLEAN /\ poller \in {"idle", "answered"}
        /\ next \in 1 .. MaxEvents + 1 /\ faults \in 0 .. MaxFaults
    BY <2>1 DEF LogInv, LogOK
  <2>6. \A c \in Conns, n \in Asked : replay[c][n].at \in Places
    BY <2>1 DEF Shape, Replay
  <2>7. \A c \in Conns : pending[c] # 0 =>
          replay[c][pending[c]].at \in {"preparing", "prepared", "reading", "sending", "flushing"}
    BY <2>1 DEF Owned, UnderWay
  <2>8. \A c \in Conns : live[c] \in Seq(Cursors) /\ sent[c] \in Seq(Cursors)
    BY <2>1 DEF Shape
  <2> QED  BY <2>1, <2>3, <2>4, <2>5, <2>6, <2>7, <2>8 DEF TypeOK, Shape
<1> QED  BY <1>1, QueuesInOrder, PTL

(* start_pending_replay and _flush_replay_buffer leave no hole at the       *)
(* hand-off: whatever is appended, held back, read or timed out meanwhile,  *)
(* a client that connects and resumes is sent no event before an earlier    *)
(* one it is owed.                                                          *)
THEOREM HandOffLosesNothing == Spec => []NothingSkipped
<1>1. ASSUME QInv, NEW c \in Conns, Resumptions(c) = {1} PROVE Gapless(c, 1)
  <2>1. LogInv /\ NoneSkipped(c)
    BY <1>1 DEF QInv, IInv, Good
  <2>2. Len(log) \in Nat /\ Len(log) < Now /\ Now \in Nat /\ DOMAIN log = 1 .. Len(log)
    BY <2>1, FlowAssumption, EndOfTime DEF FlowAssumption, Now, LogInv, LogOK
  <2>3. Due(c, 1) \subseteq 1 .. Len(log)
    BY <2>2 DEF Due
  <2>4. CASE excused[c] = Cursors
    <3>1. DOMAIN log \subseteq Cursors
      BY <2>2 DEF Cursors
    <3>2. Due(c, 1) = {}
      BY <2>4, <3>1 DEF Due
    <3> QED  BY <3>2 DEF Gapless
  <2>5. CASE Over(c)
    <3>1. Due(c, 1) = {}
      BY <2>5 DEF Over, Due, IsOf
    <3> QED  BY <3>1 DEF Gapless
  <2>6. CASE Complete(c)
    <3> SUFFICES ASSUME replay[c][1].at \in {"sending", "flushing", "done"},
                        NEW i \in Due(c, 1), NEW j \in Due(c, 1), i < j, j \in Sent(c),
                        i \notin Sent(c)
                 PROVE  FALSE
      BY DEF Gapless, Served
    <3>1. j < i
      BY <2>6 DEF Complete
    <3>2. i \in Nat /\ j \in Nat
      BY <2>2, <2>3
    <3> QED  BY <3>1, <3>2
  <2> QED  BY <1>1, <2>1, <2>4, <2>5, <2>6 DEF NoneSkipped
<1>2. QInv => NothingSkipped
  BY <1>1 DEF NothingSkipped
<1> QED  BY <1>2, QueuesInOrder, PTL

-----------------------------------------------------------------------------
(* The order of what is sent *)

(* What a resumption from its cursor on asks for. *)
Owed(r, x) == r.after = Now \/ x > r.after

(* It is later than all that was sent, or is the end of the range again. *)
Passed(c, x) == \A y \in Sent(c) : y < x \/ (y = x /\ x = replay[c][1].through)

Waiting(c) ==
  ElementsOf(replay[c][1].todo) \union ElementsOf(replay[c][1].buffered)
    \union ElementsOf(live[c])

(* What the barrier holds back is of the underlyings the replay is of. *)
HeldIsAsked(c) ==
  LET r == replay[c][1] IN
  r.at \in UnderWay => /\ symbols[c] \subseteq r.of
                       /\ \A x \in ElementsOf(r.buffered) : IsOf(x, r.of)

(* A range is sent in order, and leaves out nothing of what is owed; "$"    *)
(* has an empty one.                                                        *)
RangeIsRead(c) ==
  LET r == replay[c][1]
      read == ElementsOf(r.todo) \union r.replayed
  IN
  r.at = "sending" =>
    /\ \A x \in ElementsOf(r.todo), y \in Sent(c) : y < x
    /\ read = {} \/ \A i \in 1 .. r.through : IsOf(i, r.of) /\ Owed(r, i) => i \in read

(* What is owed and still to be sent after the range is later than all that *)
(* was sent.                                                                *)
WaitingIsLater(c) ==
  LET r == replay[c][1] IN
  r.at \in {"flushing", "done"} => \A x \in Waiting(c) : Owed(r, x) => Passed(c, x)

SentSorted(c) ==
  LET r == replay[c][1] IN
  \A i, j \in DOMAIN sent[c] : i < j =>
    \/ sent[c][i] < sent[c][j]
    \/ sent[c][i] = sent[c][j] /\ sent[c][j] = r.through
    \/ ~Owed(r, sent[c][j])

Sorted(c) == HeldIsAsked(c) /\ RangeIsRead(c) /\ WaitingIsLater(c) /\ SentSorted(c)

InSequence(c) ==
  asks[c] = 1 /\ Resumptions(c) = {1} => replay[c][1].at = "refused" \/ Sorted(c)

SInv == \A c \in Conns : InSequence(c)

LEMMA OneReplaced ==
  ASSUME Shape, NEW c \in Conns, NEW n \in Asked, NEW s, replay' = [replay EXCEPT ![c][n] = s]
  PROVE  replay'[c][n] = s
<1>1. c \in DOMAIN replay /\ n \in DOMAIN replay[c]
  BY DEF Shape
<1> QED  BY <1>1

(* A connection that was sent nothing yet. *)
LEMMA UnsentSorted ==
  ASSUME NEW c \in Conns, sent'[c] = <<>>,
         replay'[c][1].at \in {"preparing", "prepared", "reading"}, HeldIsAsked(c)'
  PROVE  Sorted(c)'
BY DEF Sorted, RangeIsRead, WaitingIsLater, SentSorted

LEMMA SameSequence ==
  ASSUME NEW c \in Conns, SameQueues(c), UNCHANGED log, InSequence(c)
  PROVE  InSequence(c)'
BY DEF SameQueues, InSequence, Resumptions, Sorted, HeldIsAsked, RangeIsRead,
       WaitingIsLater, SentSorted, Waiting, Passed, Sent, IsOf

(* An event that is later than all that was sent, or is sent again as the   *)
(* end of the range, or is not owed, keeps the order.                       *)
LEMMA PutSorted ==
  ASSUME Shape, NEW c \in Conns, NEW x \in Cursors, Put(c, x), SentSorted(c),
         replay'[c][1].after = replay[c][1].after,
         replay'[c][1].through = replay[c][1].through,
         Owed(replay[c][1], x) => Passed(c, x)
  PROVE  SentSorted(c)'
<1> SUFFICES ASSUME NEW i \in DOMAIN sent'[c], NEW j \in DOMAIN sent'[c], i < j,
                    Owed(replay[c][1], sent'[c][j])
             PROVE  \/ sent'[c][i] < sent'[c][j]
                    \/ sent'[c][i] = sent'[c][j] /\ sent'[c][j] = replay[c][1].through
  BY DEF SentSorted, Owed
<1>1. /\ i \in DOMAIN sent[c] /\ sent'[c][i] = sent[c][i]
      /\ (j \in DOMAIN sent[c] /\ sent'[c][j] = sent[c][j]) \/ sent'[c][j] = x
  BY PutOne
<1>2. CASE j \in DOMAIN sent[c] /\ sent'[c][j] = sent[c][j]
  BY <1>1, <1>2 DEF SentSorted
<1>3. CASE sent'[c][j] = x
  <2>1. sent[c][i] \in Sent(c)
    BY <1>1 DEF Sent, ElementsOf
  <2>2. Passed(c, x)
    BY <1>3
  <2> QED  BY <1>1, <1>3, <2>1, <2>2 DEF Passed
<1> QED  BY <1>1, <1>2, <1>3

(* The facts a step of the only request starts from. *)
Only(c) == Ready(c) /\ 1 \in Asked /\ Once(c) /\ Sorted(c)

LEMMA OnlyRequest ==
  ASSUME FlowAssumption, NEW c \in Conns, Only(c)
  PROVE  LET r == replay[c][1] IN
         /\ r \in Replay /\ Ordered(c, 1) /\ Arranged(c) /\ Shape
         /\ r.through \in Nat /\ r.through <= Len(log) /\ r.after \in Nat
         /\ r.buffered \in Seq(Cursors) /\ r.todo \in Seq(Cursors)
         /\ r.replayed \subseteq Cursors
         /\ Len(log) \in Nat /\ DOMAIN log = 1 .. Len(log)
         /\ Sent(c) \subseteq Cursors
BY ReadyRequest DEF Only, Ready

-----------------------------------------------------------------------------
LEMMA StartKeepsOrder ==
  ASSUME FlowAssumption, NEW c \in Conns, Only(c), HighWatermark(c, 1) \/ StartReplay(c, 1)
  PROVE  Sorted(c)'
<1> DEFINE r == replay[c][1]
<1>1. /\ r \in Replay /\ Shape /\ r.at \in {"preparing", "prepared"}
      /\ UNCHANGED <<log, symbols, sent>>
  BY OnlyRequest DEF HighWatermark, StartReplay, feed, store
<1>2. sent[c] = <<>> /\ pending[c] = 1 /\ HeldIsAsked(c)
  BY <1>1 DEF Only, Once, UnderWay, Sorted
<1>3. /\ replay'[c][1].at \in {"prepared", "reading"}
      /\ replay'[c][1].of = r.of /\ replay'[c][1].buffered = r.buffered
  <2>1. CASE HighWatermark(c, 1)
    BY <1>1, <2>1 DEF HighWatermark, Shape, Only, Replay
  <2>2. CASE StartReplay(c, 1)
    <3>1. replay' = [replay EXCEPT ![c][1].at = "reading"]
      BY <1>2, <2>2 DEF StartReplay
    <3> QED  BY <1>1, <3>1 DEF Shape, Only, Replay
  <2> QED  BY <2>1, <2>2
<1>4. HeldIsAsked(c)'
  BY <1>1, <1>2, <1>3 DEF HeldIsAsked, IsOf, UnderWay
<1> QED  BY <1>1, <1>2, <1>3, <1>4, UnsentSorted

LEMMA FailKeepsOrder ==
  ASSUME FlowAssumption, NEW c \in Conns, Only(c), ReplayFails(c, 1)
  PROVE  Sorted(c)'
<1>0. Shape /\ 1 \in Asked
  BY OnlyRequest DEF Only
<1>1. /\ Shape /\ replay[c][1].at = "reading" /\ UNCHANGED <<sent, live>>
      /\ replay' = [replay EXCEPT ![c][1] = [NoReplay EXCEPT !.at = "done"]]
  BY OnlyRequest DEF ReplayFails
<1>2. sent[c] = <<>> /\ live[c] = <<>>
  BY <1>1 DEF Only, Once, UnderWay
<1>3. replay'[c][1] = [NoReplay EXCEPT !.at = "done"]
  <2> DEFINE s == [NoReplay EXCEPT !.at = "done"]
  <2>1. replay' = [replay EXCEPT ![c][1] = s]
    BY <1>1
  <2> HIDE DEF s
  <2>2. replay'[c][1] = s
    BY <1>0, <2>1, OneReplaced
  <2> QED  BY <2>2 DEF s
<1>4. /\ replay'[c][1].at = "done" /\ replay'[c][1].todo = <<>>
      /\ replay'[c][1].buffered = <<>>
  BY <1>3, Clean DEF Places
<1>5. Waiting(c)' = {}
  BY <1>1, <1>2, <1>4, NothingElements DEF Waiting
<1> QED
  BY <1>1, <1>2, <1>4, <1>5
     DEF Sorted, HeldIsAsked, RangeIsRead, WaitingIsLater, SentSorted, UnderWay

(* The range holds every event up to its end that is owed. *)
LEMMA RangeHolds ==
  ASSUME FlowAssumption, NEW c \in Conns, Only(c), ~Refused(replay[c][1]),
         ~Trivial(replay[c][1]),
         NEW i \in 1 .. replay[c][1].through, Owed(replay[c][1], i)
  PROVE  i \in Entries(replay[c][1].after, replay[c][1].through)
<1> DEFINE r == replay[c][1]
<1>1. /\ r.through \in Nat /\ r.through <= Len(log) /\ r.after \in Nat
      /\ Len(log) \in Nat /\ LogOK
  BY OnlyRequest DEF Only, Ready, LogInv
<1>2. i \in 1 .. r.through /\ ~Refused(r) /\ ~Trivial(r) /\ Owed(r, i)
  OBVIOUS
<1> HIDE DEF r
<1>3. r.after < i /\ i \in Nat /\ i >= 1 /\ i <= r.through
  BY <1>1, <1>2 DEF Trivial, Owed
<1>4. ~TooOld(r.after)
  BY <1>2 DEF Refused
<1>5. trimmed \in Nat /\ (trimmed = 0 \/ trimmed < Len(log))
  BY <1>1 DEF LogOK, FlowAssumption
<1>6. trimmed < i
  <2>1. CASE trimmed = 0
    BY <1>3, <2>1
  <2>2. CASE trimmed < Len(log)
    BY <1>1, <1>3, <1>4, <1>5, <2>2 DEF TooOld
  <2> QED  BY <1>5, <2>1, <2>2
<1>7. i \in Entries(r.after, r.through)
  BY <1>1, <1>3, <1>6 DEF Entries
<1> QED  BY <1>7 DEF r

LEMMA ReadKeepsOrder ==
  ASSUME FlowAssumption, NEW c \in Conns, Only(c), ReadRange(c, 1)
  PROVE  Sorted(c)'
<1> DEFINE r == replay[c][1]
           range == IF Trivial(r) THEN {} ELSE Entries(r.after, r.through)
           T == {i \in range : IsOf(i, r.of)}
           todo == InOrder(T)
<1>0. Shape /\ 1 \in Asked
  BY OnlyRequest DEF Only
<1>1. /\ r \in Replay /\ Ordered(c, 1) /\ r.at = "reading" /\ Len(log) \in Nat
      /\ r.through \in Nat /\ Shape /\ ~Refused(r)
      /\ UNCHANGED <<log, symbols, sent>>
      /\ replay' = [replay EXCEPT ![c][1].at = "sending", ![c][1].todo = todo]
  BY OnlyRequest DEF ReadRange
<1>2. sent[c] = <<>> /\ HeldIsAsked(c)
  BY <1>1 DEF Only, Once, Sorted
<1>3. T \in SUBSET (1 .. Len(log))
  BY <1>1 DEF Entries
<1>4. ElementsOf(todo) = T
  BY <1>1, <1>3, InOrderLists
<1>5. range = {} \/ (~Trivial(r) /\ range = Entries(r.after, r.through))
  OBVIOUS
<1>6. T = {i \in range : IsOf(i, r.of)}
  OBVIOUS
<1> HIDE DEF todo, T, range
<1> DEFINE s == [r EXCEPT !.at = "sending", !.todo = todo]
<1>7. replay' = [replay EXCEPT ![c][1] = s]
  BY <1>0, <1>1, ZenonT(80) DEF Shape
<1>8. replay'[c][1] = s
  <2> HIDE DEF r, s
  <2> QED  BY <1>0, <1>7, OneReplaced
<1>9. /\ replay'[c][1].at = "sending" /\ replay'[c][1].of = r.of
      /\ replay'[c][1].after = r.after /\ replay'[c][1].through = r.through
      /\ replay'[c][1].buffered = r.buffered /\ replay'[c][1].todo = todo
      /\ replay'[c][1].replayed = r.replayed
  <2>1. r \in Replay
    BY <1>1
  <2> HIDE DEF r
  <2>2. /\ s.at = "sending" /\ s.of = r.of /\ s.after = r.after /\ s.through = r.through
        /\ s.buffered = r.buffered /\ s.todo = todo /\ s.replayed = r.replayed
    BY <2>1 DEF Replay
  <2> HIDE DEF s
  <2> QED  BY <1>8, <2>2
<1>10. HeldIsAsked(c)'
  BY <1>1, <1>2, <1>9 DEF HeldIsAsked, IsOf, UnderWay
<1>11. Sent(c)' = {} /\ r.replayed = {}
  BY <1>1, <1>2, NothingElements DEF Sent, Ordered
<1>12. ASSUME range # {}, NEW i \in 1 .. r.through, IsOf(i, r.of), Owed(r, i)
       PROVE  i \in T
  <2>1. i \in Entries(r.after, r.through)
    BY <1>1, <1>5, <1>12, RangeHolds DEF r
  <2> QED  BY <1>5, <1>6, <1>12, <2>1
<1>13. range = {} => T = {}
  BY <1>6
<1>14. RangeIsRead(c)'
  <2>1. T = {} \/ \A i \in 1 .. r.through : IsOf(i, r.of) /\ Owed(r, i) => i \in T
    BY <1>12, <1>13
  <2>2. ElementsOf(todo) \union r.replayed = T
    BY <1>4, <1>11
  <2>3. \A i : IsOf(i, replay[c][1].of)' <=> IsOf(i, r.of)
    BY <1>1, <1>9 DEF IsOf
  <2>4. \A i : Owed(replay[c][1], i)' <=> Owed(r, i)
    BY <1>9 DEF Owed
  <2>5. (ElementsOf(replay[c][1].todo) \union replay[c][1].replayed)' = T
    BY <1>9, <2>2
  <2>6. replay'[c][1].through = r.through
    BY <1>9
  <2>7. \/ T = {}
        \/ \A i \in 1 .. replay'[c][1].through :
              IsOf(i, replay[c][1].of)' /\ Owed(replay[c][1], i)' => i \in T
    BY <2>1, <2>3, <2>4, <2>6
  <2> QED  BY <1>11, <2>5, <2>7 DEF RangeIsRead
<1> QED  BY <1>1, <1>2, <1>9, <1>10, <1>14 DEF Sorted, WaitingIsLater, SentSorted

(* What a step that sends the first of what is to do makes of a request. *)
LEMMA FirstIsSent ==
  ASSUME FlowAssumption, NEW c \in Conns, Only(c), SendReplayed(c, 1) \/ SendHeld(c, 1)
  PROVE  LET r == replay[c][1]
             s == replay'[c][1]
             x == Head(r.todo)
         IN
         /\ x \in Cursors /\ x \in Nat /\ Put(c, x)
         /\ x \in ElementsOf(r.todo) /\ ElementsOf(s.todo) \subseteq ElementsOf(r.todo)
         /\ \A y \in ElementsOf(s.todo) : x < y
         /\ UNCHANGED <<log, symbols, live, pending>>
         /\ Sent(c)' = Sent(c) \union {x}
         /\ s.at = r.at /\ s.of = r.of /\ s.after = r.after /\ s.through = r.through
         /\ s.buffered = r.buffered
         /\ SendHeld(c, 1) => s.replayed = r.replayed
         /\ SendReplayed(c, 1) => /\ s.replayed = r.replayed \union {x}
                                  /\ ElementsOf(s.todo) \union s.replayed
                                       = ElementsOf(r.todo) \union r.replayed
<1> DEFINE r == replay[c][1]
           x == Head(r.todo)
           rest == Tail(r.todo)
<1>0. Shape /\ 1 \in Asked
  BY OnlyRequest DEF Only
<1>1. /\ r \in Replay /\ r.todo \in Seq(Cursors) /\ r.todo # <<>> /\ Increasing(r.todo)
      /\ r.replayed \subseteq Cursors
  BY OnlyRequest DEF SendReplayed, SendHeld, Ordered
<1>2. r.todo \in Seq(Nat) /\ rest \in Seq(Cursors) /\ x \in Cursors
  BY <1>1, QueueType
<1>3. /\ x \in Nat /\ ElementsOf(r.todo) = {x} \union ElementsOf(rest)
      /\ \A y \in ElementsOf(rest) : x < y
  BY <1>1, <1>2, HeadFirst
<1>4. Put(c, x) /\ UNCHANGED <<log, symbols, live, pending>>
  BY DEF SendReplayed, SendHeld, feed, store
<1>5. Sent(c)' = Sent(c) \union {x}
  <2> HIDE DEF x
  <2> QED  BY <1>0, <1>2, <1>4, PutOne
<1> HIDE DEF x, rest
<1>6. CASE SendReplayed(c, 1)
  <2> DEFINE s == [r EXCEPT !.todo = rest, !.replayed = @ \union {x}]
  <2>1. replay' = [replay EXCEPT ![c][1] = s]
    BY <1>0, <1>6, ZenonT(80) DEF SendReplayed, Shape, x, rest
  <2>2. /\ s.at = r.at /\ s.of = r.of /\ s.after = r.after /\ s.through = r.through
        /\ s.buffered = r.buffered /\ s.todo = rest /\ s.replayed = r.replayed \union {x}
    BY <1>1 DEF Replay
  <2> HIDE DEF s
  <2>3. replay'[c][1] = s
    BY <1>0, <2>1, OneReplaced
  <2>4. ~SendHeld(c, 1)
    BY <1>6 DEF SendReplayed, SendHeld
  <2>5. ElementsOf(rest) \union s.replayed = ElementsOf(r.todo) \union r.replayed
    BY <1>3, <2>2
  <2> QED  BY <1>2, <1>3, <1>4, <1>5, <2>2, <2>3, <2>4, <2>5 DEF x
<1>7. CASE SendHeld(c, 1)
  <2> DEFINE s == [r EXCEPT !.todo = rest]
  <2>1. replay' = [replay EXCEPT ![c][1] = s]
    BY <1>0, <1>7, ZenonT(80) DEF SendHeld, Shape, rest
  <2>2. /\ s.at = r.at /\ s.of = r.of /\ s.after = r.after /\ s.through = r.through
        /\ s.buffered = r.buffered /\ s.todo = rest /\ s.replayed = r.replayed
    BY <1>1 DEF Replay
  <2> HIDE DEF s
  <2>3. replay'[c][1] = s
    BY <1>0, <2>1, OneReplaced
  <2>4. ~SendReplayed(c, 1)
    BY <1>7 DEF SendReplayed, SendHeld
  <2> QED  BY <1>2, <1>3, <1>4, <1>5, <2>2, <2>3, <2>4 DEF x
<1> QED  BY <1>6, <1>7

LEMMA ReplayedKeepsOrder ==
  ASSUME FlowAssumption, NEW c \in Conns, Only(c), SendReplayed(c, 1)
  PROVE  Sorted(c)'
<1> DEFINE r == replay[c][1]
           s == replay'[c][1]
           x == Head(r.todo)
<1>1. /\ x \in Cursors /\ x \in Nat /\ Put(c, x) /\ x \in ElementsOf(r.todo)
      /\ ElementsOf(s.todo) \subseteq ElementsOf(r.todo)
      /\ \A y \in ElementsOf(s.todo) : x < y
      /\ UNCHANGED <<log, symbols>> /\ Sent(c)' = Sent(c) \union {x}
      /\ s.at = r.at /\ s.of = r.of /\ s.after = r.after /\ s.through = r.through
      /\ s.buffered = r.buffered
      /\ ElementsOf(s.todo) \union s.replayed = ElementsOf(r.todo) \union r.replayed
  BY FirstIsSent
<1>2. r.at = "sending" /\ Shape
  BY OnlyRequest DEF SendReplayed
<1>3. HeldIsAsked(c) /\ RangeIsRead(c) /\ SentSorted(c)
  BY DEF Only, Sorted
<1> HIDE DEF x
<1>4. HeldIsAsked(c)'
  BY <1>1, <1>3 DEF HeldIsAsked, IsOf
<1>5. /\ \A z \in ElementsOf(r.todo), y \in Sent(c) : y < z
      /\ \/ ElementsOf(r.todo) \union r.replayed = {}
         \/ \A i \in 1 .. r.through :
              IsOf(i, r.of) /\ Owed(r, i) => i \in ElementsOf(r.todo) \union r.replayed
  BY <1>2, <1>3 DEF RangeIsRead
<1>6. SentSorted(c)'
  <2>1. Passed(c, x)
    BY <1>1, <1>5 DEF Passed
  <2> QED  BY <1>1, <1>2, <1>3, <2>1, PutSorted
<1>7. RangeIsRead(c)'
  <2>1. \A z \in ElementsOf(s.todo), y \in Sent(c)' : y < z
    BY <1>1, <1>5
  <2>2. \/ ElementsOf(s.todo) \union s.replayed = {}
        \/ \A i \in 1 .. s.through :
             IsOf(i, replay[c][1].of)' /\ Owed(replay[c][1], i)'
               => i \in ElementsOf(s.todo) \union s.replayed
    BY <1>1, <1>5 DEF IsOf, Owed
  <2> QED  BY <2>1, <2>2 DEF RangeIsRead
<1> QED  BY <1>1, <1>2, <1>4, <1>6, <1>7 DEF Sorted, WaitingIsLater

LEMMA HeldKeepsOrder ==
  ASSUME FlowAssumption, NEW c \in Conns, Only(c), SendHeld(c, 1)
  PROVE  Sorted(c)'
<1> DEFINE r == replay[c][1]
           s == replay'[c][1]
           x == Head(r.todo)
<1>1. /\ x \in Cursors /\ x \in Nat /\ Put(c, x) /\ x \in ElementsOf(r.todo)
      /\ ElementsOf(s.todo) \subseteq ElementsOf(r.todo)
      /\ \A y \in ElementsOf(s.todo) : x < y
      /\ UNCHANGED <<log, symbols, live>> /\ Sent(c)' = Sent(c) \union {x}
      /\ s.at = r.at /\ s.of = r.of /\ s.after = r.after /\ s.through = r.through
      /\ s.buffered = r.buffered
  BY FirstIsSent
<1>2. r.at = "flushing" /\ Shape /\ Ordered(c, 1)
  BY OnlyRequest DEF SendHeld
<1>3. HeldIsAsked(c) /\ WaitingIsLater(c) /\ SentSorted(c) /\ live[c] = <<>>
  BY <1>2 DEF Only, Sorted, Once, UnderWay
<1> HIDE DEF x
<1>4. HeldIsAsked(c)'
  BY <1>1, <1>3 DEF HeldIsAsked, IsOf
<1>5. \A z \in Waiting(c) : Owed(r, z) => Passed(c, z)
  BY <1>2, <1>3 DEF WaitingIsLater
<1>6. SentSorted(c)'
  <2>1. Owed(r, x) => Passed(c, x)
    BY <1>1, <1>5 DEF Waiting
  <2> QED  BY <1>1, <1>2, <1>3, <2>1, PutSorted
<1>7. ASSUME NEW z \in Waiting(c)' PROVE z \in Waiting(c) /\ x < z
  <2>1. ElementsOf(live'[c]) = {}
    BY <1>1, <1>3, NothingElements
  <2>2. z \in ElementsOf(s.todo) \/ z \in ElementsOf(r.buffered)
    BY <1>1, <1>7, <2>1 DEF Waiting
  <2>3. z \in ElementsOf(r.buffered) => x < z
    BY <1>1, <1>2 DEF Ordered
  <2> QED  BY <1>1, <2>2, <2>3 DEF Waiting
<1>8. WaitingIsLater(c)'
  <2> SUFFICES ASSUME NEW z \in Waiting(c)', Owed(replay[c][1], z)' PROVE Passed(c, z)'
    BY DEF WaitingIsLater
  <2>1. Passed(c, z) /\ x < z
    BY <1>1, <1>5, <1>7 DEF Owed
  <2> QED  BY <1>1, <2>1 DEF Passed
<1> QED  BY <1>1, <1>2, <1>4, <1>6, <1>8 DEF Sorted, RangeIsRead

(* A batch of what was held back: what is owed of it is after the range. *)
LEMMA BatchKeepsOrder ==
  ASSUME FlowAssumption, NEW c \in Conns, Only(c), NextBatch(c, 1)
  PROVE  Sorted(c)'
<1> DEFINE r == replay[c][1]
           t == Fresh(r)
<1>0. Shape /\ 1 \in Asked
  BY OnlyRequest DEF Only
<1>1. /\ r \in Replay /\ Ordered(c, 1) /\ r.at \in {"sending", "flushing"} /\ r.todo = <<>>
      /\ r.through \in Nat /\ UNCHANGED <<log, symbols, live, sent>>
      /\ r.buffered \in Seq(Cursors) /\ Len(log) \in Nat /\ DOMAIN log = 1 .. Len(log)
  BY OnlyRequest DEF NextBatch, store
<1>2. /\ live[c] = <<>> /\ pending[c] = 1 /\ Sorted(c) /\ Sent(c)' = Sent(c)
      /\ r.at = "sending" => Sent(c) \subseteq r.replayed /\ \A y \in Sent(c) : y <= r.through
  BY <1>1 DEF Only, Once, UnderWay, Sent
<1>3. ElementsOf(t) = ElementsOf(r.buffered) \ r.replayed
  BY BatchOf DEF Only
<1> HIDE DEF t
<1>4. ASSUME NEW z \in ElementsOf(t), Owed(r, z) PROVE Passed(c, z)
  <2>1. z \in ElementsOf(r.buffered) /\ z \notin r.replayed
    BY <1>3, <1>4
  <2>2. CASE r.at = "flushing"
    BY <1>2, <1>4, <2>1, <2>2 DEF Sorted, WaitingIsLater, Waiting
  <2>3. CASE r.at = "sending"
    <3>1. z \in Nat /\ z >= 1
      <4>1. z \in Cursors
        BY <1>1, <2>1, ElementsType
      <4> QED  BY <4>1 DEF Cursors
    <3>2. IsOf(z, r.of)
      BY <1>2, <2>1, <2>3 DEF Sorted, HeldIsAsked, UnderWay
    <3>3. ElementsOf(r.todo) = {}
      BY <1>1, NothingElements
    <3>4. \/ r.replayed = {}
          \/ \A i \in 1 .. r.through : IsOf(i, r.of) /\ Owed(r, i) => i \in r.replayed
      BY <1>2, <2>3, <3>3 DEF Sorted, RangeIsRead
    <3>5. CASE r.replayed = {}
      BY <1>2, <2>3, <3>5 DEF Passed
    <3>6. CASE \A i \in 1 .. r.through : IsOf(i, r.of) /\ Owed(r, i) => i \in r.replayed
      <4>1. ~(z <= r.through)
        BY <1>1, <1>4, <2>1, <3>1, <3>2, <3>6
      <4>2. \A y \in Sent(c) : y \in Nat /\ y <= r.through
        BY <1>2, <2>3, OnlyRequest, CursorsNat
      <4> QED  BY <1>1, <3>1, <4>1, <4>2 DEF Passed
    <3> QED  BY <3>4, <3>5, <3>6
  <2> QED  BY <1>1, <2>2, <2>3
<1>5. SentSorted(c) /\ HeldIsAsked(c) /\ ElementsOf(live'[c]) = {}
  BY <1>1, <1>2, NothingElements DEF Sorted
<1>6. CASE Fresh(r) # <<>>
  <2> DEFINE s == [r EXCEPT !.at = "flushing", !.buffered = <<>>, !.todo = t]
  <2>1. replay' = [replay EXCEPT ![c][1].at = "flushing", ![c][1].buffered = <<>>,
                                 ![c][1].todo = t]
    BY <1>2, <1>6 DEF NextBatch, t
  <2>2. replay \in [Conns -> [Asked -> Replay]] /\ 1 \in Asked
    BY <1>0 DEF Shape
  <2>3. replay' = [replay EXCEPT ![c][1] = s]
    BY <2>1, <2>2, ZenonT(80)
  <2>4. /\ s.at = "flushing" /\ s.of = r.of /\ s.after = r.after /\ s.through = r.through
        /\ s.buffered = <<>> /\ s.todo = t
    BY <1>1 DEF Replay
  <2> HIDE DEF s
  <2>5. replay'[c][1] = s
    BY <1>0, <2>3, OneReplaced
  <2>6. Waiting(c)' = ElementsOf(t)
    BY <1>5, <2>4, <2>5, NothingElements DEF Waiting
  <2>7. WaitingIsLater(c)'
    <3> SUFFICES ASSUME NEW z \in ElementsOf(t), Owed(replay[c][1], z)' PROVE Passed(c, z)'
      BY <2>6 DEF WaitingIsLater
    <3>1. Passed(c, z)
      BY <1>4, <2>4, <2>5 DEF Owed
    <3> QED  BY <1>2, <2>4, <2>5, <3>1 DEF Passed
  <2>8. HeldIsAsked(c)'
    <3>1. symbols[c] \subseteq r.of
      BY <1>1, <1>5 DEF HeldIsAsked, UnderWay
    <3> QED  BY <1>1, <2>4, <2>5, <3>1, NothingElements DEF HeldIsAsked
  <2>9. SentSorted(c)'
    BY <1>1, <1>5, <2>4, <2>5 DEF SentSorted, Owed
  <2> QED  BY <2>4, <2>5, <2>7, <2>8, <2>9 DEF Sorted, RangeIsRead
<1>7. CASE Fresh(r) = <<>>
  <2> DEFINE s == [r EXCEPT !.at = "done", !.buffered = <<>>, !.replayed = {}]
  <2>1. replay' = [replay EXCEPT ![c][1].at = "done", ![c][1].buffered = <<>>,
                                 ![c][1].replayed = {}]
    BY <1>2, <1>7 DEF NextBatch
  <2>2. replay \in [Conns -> [Asked -> Replay]] /\ 1 \in Asked
    BY <1>0 DEF Shape
  <2>3. replay' = [replay EXCEPT ![c][1] = s]
    BY <2>1, <2>2, ZenonT(80)
  <2>4. /\ s.at = "done" /\ s.of = r.of /\ s.after = r.after /\ s.through = r.through
        /\ s.buffered = <<>> /\ s.todo = <<>>
    BY <1>1 DEF Replay
  <2> HIDE DEF s
  <2>5. replay'[c][1] = s
    BY <1>0, <2>3, OneReplaced
  <2>6. Waiting(c)' = {}
    BY <1>5, <2>4, <2>5, NothingElements DEF Waiting
  <2>7. SentSorted(c)'
    BY <1>1, <1>5, <2>4, <2>5 DEF SentSorted, Owed
  <2> QED
    BY <2>4, <2>5, <2>6, <2>7 DEF Sorted, HeldIsAsked, RangeIsRead, WaitingIsLater, UnderWay
<1> QED  BY <1>6, <1>7

LEMMA RequestSequence ==
  ASSUME FlowAssumption, QInv, SInv, NEW c \in Conns, NEW n \in Asked, RequestStep(c, n)
  PROVE  SInv'
<1>1. Ready(c) /\ InSequence(c) /\ NoneRepeated(c)
  BY DEF QInv, IInv, Ready, SInv, Good
<1>2. PICK s : Step(c, n, s)
  BY <1>1, RequestGood
<1>3. InSequence(c)'
  <2> SUFFICES ASSUME asks'[c] = 1, Resumptions(c)' = {1}
               PROVE  replay'[c][1].at = "refused" \/ Sorted(c)'
    BY DEF InSequence
  <2>1. n = 1 /\ asks[c] = 1 /\ Resumptions(c) = {1} /\ replay[c][1].at # "refused"
    BY <1>2, StepResumptions DEF Step, UnderWay
  <2>2. Only(c)
    BY <1>1, <2>1 DEF Only, InSequence, NoneRepeated
  <2>3. CASE HighWatermark(c, 1)  BY <2>2, <2>3, StartKeepsOrder
  <2>4. CASE ResumeRefused(c, 1)
    <3> DEFINE t == [NoReplay EXCEPT !.at = "refused"]
    <3>1. Shape /\ 1 \in Asked
      BY <2>2, OnlyRequest DEF Only
    <3>2. replay' = [replay EXCEPT ![c][1] = t] /\ t.at = "refused"
      BY <2>4, Clean DEF ResumeRefused, Places
    <3> HIDE DEF t
    <3> QED  BY <3>1, <3>2, OneReplaced
  <2>5. CASE StartReplay(c, 1)    BY <2>2, <2>5, StartKeepsOrder
  <2>6. CASE ReadRange(c, 1)      BY <2>2, <2>6, ReadKeepsOrder
  <2>7. CASE ReplayFails(c, 1)    BY <2>2, <2>7, FailKeepsOrder
  <2>8. CASE SendReplayed(c, 1)   BY <2>2, <2>8, ReplayedKeepsOrder
  <2>9. CASE NextBatch(c, 1)      BY <2>2, <2>9, BatchKeepsOrder
  <2>10. CASE SendHeld(c, 1)      BY <2>2, <2>10, HeldKeepsOrder
  <2> QED
    BY <2>1, <2>3, <2>4, <2>5, <2>6, <2>7, <2>8, <2>9, <2>10
       DEF RequestStep, PrepareStep, ReplayStep
<1>4. ASSUME NEW d \in Conns, d # c PROVE InSequence(d)'
  <2>1. SameQueues(d) /\ UNCHANGED log
    BY <1>2, <1>4, BecomesOne DEF Step, Becomes, SameConn
  <2> QED  BY <2>1, SameSequence DEF SInv
<1> QED  BY <1>3, <1>4 DEF SInv

-----------------------------------------------------------------------------
(* A live send is over: what waits gets shorter. *)
LEMMA LiveKeepsOrder ==
  ASSUME FlowAssumption, NEW c \in Conns, Only(c), replay[c][1].at \notin {"none", "refused"},
         SendLive(c) \/ LiveTimesOut(c)
  PROVE  Sorted(c)'
<1> DEFINE x == Head(live[c])
           r == replay[c][1]
<1>1. /\ UNCHANGED <<log, poller, next, healthy, conn, symbols, pending, replay, asks>>
      /\ live[c] # <<>> /\ live' = [live EXCEPT ![c] = Tail(@)]
      /\ (SendLive(c) /\ Put(c, x)) \/ (~SendLive(c) /\ sent' = sent)
  BY DEF SendLive, LiveTimesOut, store, feed
<1>2. /\ x \in Cursors /\ x \in Nat
      /\ ElementsOf(live[c]) = {x} \union ElementsOf(live'[c])
      /\ \A y \in ElementsOf(live'[c]) : x < y
  BY <1>1, LiveOver DEF Only
<1>3. /\ r.at \notin UnderWay /\ Shape /\ SentSorted(c) /\ WaitingIsLater(c)
      /\ ElementsOf(r.todo) = {} /\ ElementsOf(r.buffered) = {}
  BY <1>1, LiveEnded, OnlyRequest, NothingElements DEF Only, Sorted
<1> HIDE DEF x
<1>4. Sent(c)' = Sent(c) \union {x} \/ Sent(c)' = Sent(c)
  <2>1. CASE Put(c, x)
    BY <1>2, <1>3, <2>1, PutOne
  <2>2. CASE sent' = sent
    BY <2>2 DEF Sent
  <2> QED  BY <1>1, <2>1, <2>2
<1>5. ASSUME r.at = "done", NEW z \in Waiting(c), Owed(r, z) PROVE Passed(c, z)
  BY <1>3, <1>5 DEF WaitingIsLater
<1>6. WaitingIsLater(c)'
  <2> SUFFICES ASSUME r.at = "done", NEW z \in Waiting(c)', Owed(r, z) PROVE Passed(c, z)'
    BY <1>1, <1>3 DEF WaitingIsLater, UnderWay, Owed
  <2>1. z \in ElementsOf(live'[c])
    BY <1>1, <1>3 DEF Waiting
  <2>2. x < z /\ z \in Waiting(c)
    BY <1>2, <2>1 DEF Waiting
  <2>3. Passed(c, z)
    BY <1>5, <2>2
  <2> QED  BY <1>1, <1>4, <2>2, <2>3 DEF Passed
<1>7. SentSorted(c)'
  <2>1. CASE sent' = sent
    BY <1>1, <1>3, <2>1 DEF SentSorted, Owed
  <2>2. CASE Put(c, x)
    <3>1. r.at = "done"
      BY <1>3, OnlyRequest DEF Replay, Places, UnderWay
    <3>2. Owed(r, x) => Passed(c, x)
      BY <1>2, <1>5, <3>1 DEF Waiting
    <3> QED  BY <1>1, <1>2, <1>3, <2>2, <3>2, PutSorted
  <2> QED  BY <1>1, <2>1, <2>2
<1> QED  BY <1>1, <1>3, <1>6, <1>7 DEF Sorted, HeldIsAsked, RangeIsRead, UnderWay

LEMMA ConnSequence ==
  ASSUME FlowAssumption, QInv, SInv, NEW c \in Conns, ConnStep(c)
  PROVE  SInv'
<1>1. Ready(c) /\ InSequence(c) /\ NoneRepeated(c) /\ Owned(c) /\ Shape
  BY DEF QInv, IInv, Ready, SInv, Good, Arranged
<1>2. Alone(c)
  <2>1. CASE Connect(c)        BY <1>1, <2>1, ConnectGood
  <2>2. CASE Disconnect(c)     BY <1>1, <2>2, DisconnectGood
  <2>3. CASE SendLive(c)       BY <1>1, <2>3, SendLiveGood
  <2>4. CASE LiveTimesOut(c)   BY <1>1, <2>4, LiveTimesOutGood
  <2>5. CASE AskStep(c)
    BY <1>1, <2>5, SubscribeGood, UnsubscribeGood, ResumingGood DEF AskStep
  <2> QED  BY <2>1, <2>2, <2>3, <2>4, <2>5 DEF ConnStep
<1>3. InSequence(c)'
  <2>1. CASE Connect(c)
    <3>1. UNCHANGED <<log, fanout, asks, sent, excused>>
      BY <2>1 DEF Connect, store
    <3>2. SameQueues(c) /\ UNCHANGED log
      BY <3>1 DEF fanout, SameQueues
    <3> QED  BY <1>1, <3>2, SameSequence
  <2>2. CASE Disconnect(c)
    <3>1. asks'[c] = 0
      BY <1>1, <2>2 DEF Disconnect, Shape
    <3> QED  BY <3>1 DEF InSequence
  <2>3. CASE SendLive(c) \/ LiveTimesOut(c)
    <3>1. UNCHANGED <<replay, asks>>
      BY <2>3 DEF SendLive, LiveTimesOut
    <3> SUFFICES ASSUME asks[c] = 1, Resumptions(c) = {1}, replay[c][1].at # "refused"
                 PROVE  Sorted(c)'
      BY <3>1 DEF InSequence, Resumptions
    <3>2. 1 \in Asked /\ replay[c][1].at # "none"
      BY DEF Resumptions
    <3>3. Only(c)
      BY <1>1, <3>2 DEF Only, InSequence, NoneRepeated
    <3> QED  BY <2>3, <3>2, <3>3, LiveKeepsOrder
  <2>4. ASSUME NEW S \in Requests, Subscribe(c, S) \/ Unsubscribe(c, S) PROVE InSequence(c)'
    <3>1. asks'[c] = asks[c] + 1 /\ replay' = replay /\ asks[c] \in Nat
      BY <1>1, <2>4 DEF Subscribe, Unsubscribe, Shape
    <3> SUFFICES ASSUME asks'[c] = 1, Resumptions(c)' = {1} PROVE FALSE
      BY DEF InSequence
    <3>2. 1 \in Asked /\ replay[c][1].at # "none" /\ asks[c] = 0
      BY <3>1 DEF Resumptions
    <3> QED  BY <1>1, <3>2 DEF Owned
  <2>5. ASSUME NEW S \in Requests, NEW after, SubscribeResuming(c, S, after)
        PROVE  InSequence(c)'
    <3> DEFINE s == [NoReplay EXCEPT !.at = "preparing", !.of = S, !.after = after]
    <3>1. /\ asks'[c] = asks[c] + 1 /\ asks[c] \in Nat
          /\ symbols'[c] = symbols[c] \union S /\ sent'[c] = sent[c]
          /\ replay' = [replay EXCEPT ![c][asks[c] + 1] = s]
      BY <1>1, <2>5 DEF SubscribeResuming, Shape
    <3>2. s.at = "preparing" /\ s.of = S /\ s.buffered = <<>>
      BY DEF NoReplay
    <3> HIDE DEF s
    <3> SUFFICES ASSUME asks'[c] = 1, Resumptions(c)' = {1} PROVE Sorted(c)'
      BY DEF InSequence
    <3>3. 1 \in Asked /\ asks[c] = 0
      BY <3>1 DEF Resumptions
    <3>4. replay'[c][1] = s
      BY <1>1, <3>1, <3>3, OneReplaced
    <3>5. symbols[c] = {} /\ sent[c] = <<>>
      BY <1>1, <3>3 DEF Owned
    <3>6. HeldIsAsked(c)'
      BY <3>1, <3>2, <3>4, <3>5, NothingElements DEF HeldIsAsked
    <3> QED  BY <3>1, <3>2, <3>4, <3>5, <3>6, UnsentSorted
  <2> QED  BY <2>1, <2>2, <2>3, <2>4, <2>5 DEF ConnStep, AskStep
<1>4. ASSUME NEW d \in Conns, d # c PROVE InSequence(d)'
  BY <1>2, <1>4, SameSequence DEF SInv, Alone, SameConn
<1> QED  BY <1>3, <1>4 DEF SInv

-----------------------------------------------------------------------------
(* The poller's steps *)

LEMMA GrowSequence ==
  ASSUME FlowAssumption, NEW c \in Conns, Ready(c), SameQueues(c), InSequence(c),
         NEW e \in 0 .. MaxEvents, Xadd(e)
  PROVE  InSequence(c)'
<1> SUFFICES ASSUME asks[c] = 1, Resumptions(c) = {1}, replay[c][1].at # "refused"
             PROVE  Sorted(c)'
  BY DEF SameQueues, InSequence, Resumptions
<1> DEFINE r == replay[c][1]
<1>1. 1 \in Asked /\ Sorted(c)
  BY DEF Resumptions, InSequence
<1>2. /\ replay'[c] = replay[c] /\ symbols'[c] = symbols[c] /\ live'[c] = live[c]
      /\ sent'[c] = sent[c] /\ Sent(c)' = Sent(c)
  BY DEF SameQueues, Sent
<1>3. /\ r.through \in Nat /\ r.through <= Len(log) /\ Len(log) \in Nat
      /\ r.buffered \in Seq(Cursors) /\ Ordered(c, 1) /\ LogOK /\ Shape
  BY <1>1, ReadyRequest DEF Ready
<1>4. \A i \in 1 .. Len(log) : log'[i] = log[i]
  BY <1>3, XaddLog
<1>5. ASSUME NEW x \in ElementsOf(r.buffered) PROVE x \in 1 .. Len(log)
  <2>1. x \in Cursors /\ x <= Handed
    BY <1>3, <1>5, ElementsType DEF Ordered
  <2>2. x \in Nat /\ x >= 1
    BY <2>1 DEF Cursors
  <2> QED  BY <1>3, <2>1, <2>2, HandedBounds
<1>6. HeldIsAsked(c)'
  <2> SUFFICES ASSUME r.at \in UnderWay
               PROVE  /\ symbols[c] \subseteq r.of
                      /\ \A x \in ElementsOf(r.buffered) : IsOf(x, r.of)'
    BY <1>2 DEF HeldIsAsked, IsOf
  <2>1. /\ symbols[c] \subseteq r.of
        /\ \A x \in ElementsOf(r.buffered) : IsOf(x, r.of)
    BY <1>1 DEF Sorted, HeldIsAsked
  <2> QED  BY <1>2, <1>4, <1>5, <2>1 DEF IsOf
<1>7. RangeIsRead(c)'
  <2> DEFINE read == ElementsOf(r.todo) \union r.replayed
  <2> SUFFICES ASSUME r.at = "sending"
               PROVE  /\ \A x \in ElementsOf(r.todo), y \in Sent(c) : y < x
                      /\ read = {} \/ \A i \in 1 .. r.through :
                                        IsOf(i, r.of)' /\ Owed(r, i) => i \in read
    BY <1>2 DEF RangeIsRead, IsOf, Owed
  <2>1. /\ \A x \in ElementsOf(r.todo), y \in Sent(c) : y < x
        /\ read = {} \/ \A i \in 1 .. r.through : IsOf(i, r.of) /\ Owed(r, i) => i \in read
    BY <1>1 DEF Sorted, RangeIsRead
  <2>2. \A i \in 1 .. r.through : i \in 1 .. Len(log)
    BY <1>3
  <2>3. \A i \in 1 .. r.through : IsOf(i, r.of)' => IsOf(i, r.of)
    BY <1>2, <1>4, <2>2 DEF IsOf
  <2> QED  BY <2>1, <2>3
<1>8. WaitingIsLater(c)' /\ SentSorted(c)'
  BY <1>1, <1>2 DEF Sorted, WaitingIsLater, Waiting, Passed, SentSorted
<1> QED  BY <1>6, <1>7, <1>8 DEF Sorted

(* The last event of the log is later than all that was sent, unless it is  *)
(* the end of the range.                                                    *)
LEMMA LastPasses ==
  ASSUME FlowAssumption, NEW c \in Conns, Only(c), poller = "answered"
  PROVE  Passed(c, Len(log))
<1>1. LogOK /\ Shape /\ Len(log) \in Nat
  BY OnlyRequest DEF Only, Ready, LogInv
<1>2. Handed = Len(log) - 1
  BY DEF Handed
<1> SUFFICES ASSUME NEW y \in Sent(c), ~(y < Len(log))
             PROVE  y = Len(log) /\ y = replay[c][1].through
  BY DEF Passed
<1>3. y \in Nat /\ y <= Len(log)
  BY OnlyRequest, CursorsNat DEF Only, Ready, Good, Arranged, LiveOrdered
<1>4. y = Len(log) /\ y > Handed
  BY <1>1, <1>2, <1>3
<1> QED  BY <1>4 DEF Only, Once

LEMMA DeliverSequence ==
  ASSUME FlowAssumption, QInv, NEW c \in Conns, InSequence(c), Deliver
  PROVE  InSequence(c)'
<1> DEFINE e == Len(log)
           r == replay[c][1]
           target == IsOf(e, symbols[c])
<1>0. Ready(c) /\ NoneRepeated(c) /\ Owned(c) /\ Shape
  BY DEF QInv, IInv, Ready, Good, Arranged
<1>1. /\ UNCHANGED <<log, symbols, pending, asks, sent>> /\ poller = "answered"
      /\ live'[c] = IF target /\ pending[c] = 0 THEN Append(live[c], e) ELSE live[c]
      /\ replay'[c] = IF target /\ pending[c] # 0
                      THEN [replay[c] EXCEPT ![pending[c]].buffered = Append(@, e)]
                      ELSE replay[c]
  BY DEF Deliver, store
<1>2. \A n \in Asked : replay'[c][n].at = replay[c][n].at
  <2>1. CASE target /\ pending[c] # 0
    <3>1. pending[c] \in Asked
      BY <1>0, <2>1 DEF Shape, Asked, FlowAssumption
    <3>2. replay[c] \in [Asked -> Replay]
      BY <1>0 DEF Shape
    <3>3. replay'[c] = [replay[c] EXCEPT ![pending[c]].buffered = Append(@, e)]
      BY <1>1, <2>1
    <3> DEFINE p == pending[c]
               q == replay[c]
               t == [q[p] EXCEPT !.buffered = Append(@, e)]
    <3>4. q[p] \in Replay /\ replay'[c] = [q EXCEPT ![p] = t]
      BY <3>1, <3>2, <3>3
    <3> HIDE DEF e
    <3>5. t.at = q[p].at
      <4> HIDE DEF q, p
      <4> QED  BY <3>4 DEF Replay
    <3> HIDE DEF p, t
    <3>6. \A n \in Asked : replay'[c][n] = IF n = p THEN t ELSE q[n]
      BY <3>2, <3>4
    <3> QED  BY <3>5, <3>6
  <2>2. CASE ~(target /\ pending[c] # 0)
    BY <1>1, <2>2
  <2> QED  BY <2>1, <2>2
<1> SUFFICES ASSUME asks[c] = 1, Resumptions(c) = {1}, r.at # "refused" PROVE Sorted(c)'
  <2>1. Resumptions(c)' = Resumptions(c)
    BY <1>2 DEF Resumptions
  <2>2. 1 \in Resumptions(c) => 1 \in Asked
    BY DEF Resumptions
  <2> QED  BY <1>1, <1>2, <2>1, <2>2 DEF InSequence
<1>3. 1 \in Asked /\ r.at # "none"
  BY DEF Resumptions
<1>4. Only(c)
  BY <1>0, <1>3 DEF Only, InSequence, NoneRepeated
<1>5. /\ r \in Replay /\ r.buffered \in Seq(Cursors) /\ live[c] \in Seq(Cursors)
      /\ replay[c] \in [Asked -> Replay] /\ Sorted(c) /\ Passed(c, e)
  BY <1>0, <1>1, <1>4, OnlyRequest, LastPasses DEF Only, Shape
<1>6. e \in Cursors
  <2>1. Len(log) \in Nat /\ Len(log) < Now /\ Now \in Nat
    BY <1>0, EndOfTime DEF FlowAssumption, Now, Ready
  <2>2. Len(log) # 0
    BY <1>0, <1>1 DEF Ready, LogInv, LogOK, Shape
  <2> QED  BY <2>1, <2>2 DEF Cursors
<1>7. pending[c] # 0 => pending[c] = 1 /\ r.at \in UnderWay
  <2> SUFFICES ASSUME pending[c] # 0 PROVE pending[c] = 1 /\ r.at \in UnderWay
    OBVIOUS
  <2>1. pending[c] \in Asked /\ replay[c][pending[c]].at \in UnderWay
    BY <1>0 DEF Shape, Asked, FlowAssumption, Owned
  <2>2. pending[c] \in Resumptions(c)
    BY <2>1 DEF Resumptions, UnderWay
  <2> QED  BY <2>1, <2>2
<1> HIDE DEF e
<1>8. CASE target /\ pending[c] # 0
  <2> DEFINE s == replay'[c][1]
  <2>1. replay'[c] = [replay[c] EXCEPT ![1].buffered = Append(@, e)] /\ live'[c] = live[c]
    BY <1>1, <1>7, <1>8
  <2>2. /\ s.at = r.at /\ s.of = r.of /\ s.after = r.after /\ s.through = r.through
        /\ s.todo = r.todo /\ s.replayed = r.replayed /\ s.buffered = Append(r.buffered, e)
    <3> DEFINE t == [r EXCEPT !.buffered = Append(@, e)]
    <3>1. s = t
      BY <1>3, <1>5, <2>1
    <3>2. r \in Replay
      BY <1>5
    <3> HIDE DEF r, s
    <3>3. /\ t.at = r.at /\ t.of = r.of /\ t.after = r.after /\ t.through = r.through
          /\ t.todo = r.todo /\ t.replayed = r.replayed /\ t.buffered = Append(r.buffered, e)
      BY <3>2 DEF Replay
    <3> QED  BY <3>1, <3>3
  <2> HIDE DEF s
  <2>3. ElementsOf(s.buffered) = ElementsOf(r.buffered) \union {e}
    BY <1>5, <1>6, <2>2, AppendElements
  <2>4. HeldIsAsked(c)'
    <3>1. /\ symbols[c] \subseteq r.of
          /\ \A x \in ElementsOf(r.buffered) : IsOf(x, r.of)
      BY <1>5, <1>7, <1>8 DEF Sorted, HeldIsAsked
    <3>2. IsOf(e, r.of)
      BY <1>8, <3>1 DEF IsOf
    <3>3. \A x \in ElementsOf(s.buffered) : IsOf(x, r.of)
      BY <2>3, <3>1, <3>2
    <3>4. \A x : IsOf(x, r.of)' = IsOf(x, r.of)
      <4>1. log' = log /\ replay'[c][1].of = r.of
        BY <1>1, <2>2 DEF s
      <4> QED  BY <4>1 DEF IsOf
    <3> QED  BY <1>1, <2>2, <3>1, <3>3, <3>4 DEF HeldIsAsked, s
  <2>5. RangeIsRead(c)'
    <3>1. Sent(c)' = Sent(c) /\ log' = log
      BY <1>1 DEF Sent
    <3> QED  BY <1>5, <2>2, <3>1 DEF Sorted, RangeIsRead, IsOf, Owed, s
  <2>6. WaitingIsLater(c)'
    <3>1. Waiting(c)' = Waiting(c) \union {e}
      BY <2>1, <2>2, <2>3 DEF Waiting, s
    <3> SUFFICES ASSUME r.at \in {"flushing", "done"}, NEW x \in Waiting(c) \union {e}, Owed(r, x)
                 PROVE  Passed(c, x)'
      BY <2>2, <3>1 DEF WaitingIsLater, Owed, s
    <3>2. Passed(c, x)
      BY <1>5 DEF Sorted, WaitingIsLater
    <3> QED  BY <1>1, <2>2, <3>2 DEF Passed, Sent, s
  <2>7. SentSorted(c)'
    BY <1>1, <1>5, <2>2 DEF Sorted, SentSorted, Owed, s
  <2> QED  BY <2>4, <2>5, <2>6, <2>7 DEF Sorted
<1>9. CASE ~(target /\ pending[c] # 0)
  <2>1. replay'[c] = replay[c]
    BY <1>1, <1>9
  <2>2. ElementsOf(live'[c]) \subseteq ElementsOf(live[c]) \union {e}
    BY <1>1, <1>5, <1>6, AppendElements
  <2>3. HeldIsAsked(c)' /\ RangeIsRead(c)' /\ SentSorted(c)'
    BY <1>1, <1>5, <2>1
       DEF Sorted, HeldIsAsked, RangeIsRead, SentSorted, IsOf, Owed, Sent
  <2>4. WaitingIsLater(c)'
    <3>1. Waiting(c)' \subseteq Waiting(c) \union {e}
      BY <2>1, <2>2 DEF Waiting
    <3> SUFFICES ASSUME r.at \in {"flushing", "done"}, NEW x \in Waiting(c) \union {e}, Owed(r, x)
                 PROVE  Passed(c, x)'
      BY <2>1, <3>1 DEF WaitingIsLater
    <3>2. Passed(c, x)
      BY <1>5 DEF Sorted, WaitingIsLater
    <3> QED  BY <1>1, <2>1, <3>2 DEF Passed, Sent
  <2> QED  BY <2>3, <2>4 DEF Sorted
<1> QED  BY <1>8, <1>9

LEMMA PollerSequence ==
  ASSUME FlowAssumption, QInv, SInv, PollerStep
  PROVE  SInv'
<1>1. \A c \in Conns : Ready(c) /\ InSequence(c)
  BY DEF QInv, IInv, Ready, SInv
<1>2. 0 \in 0 .. MaxEvents /\ (next <= MaxEvents => next \in 0 .. MaxEvents)
  BY DEF QInv, IInv, LogInv, LogOK, FlowAssumption
<1>3. CASE Deliver
  BY <1>1, <1>3, DeliverSequence DEF SInv
<1>4. CASE Restart
  <2>1. \A c \in Conns : asks'[c] = 0
    BY <1>4 DEF Restart
  <2> QED  BY <2>1 DEF SInv, InSequence
<1>5. CASE Unavailable \/ MarkGap \/ AppendEvent \/ AppendFails \/ AnswerLost
  <2>1. UNCHANGED <<fanout, asks, sent>>
    BY <1>5 DEF Unavailable, MarkGap, AppendEvent, AppendFails, AnswerLost
  <2>2. \A c \in Conns : SameQueues(c)
    BY <2>1 DEF fanout, SameQueues
  <2>3. UNCHANGED log \/ \E e \in 0 .. MaxEvents : Xadd(e)
    BY <1>2, <1>5 DEF Unavailable, MarkGap, AppendEvent, AppendFails, AnswerLost
  <2> QED  BY <1>1, <2>2, <2>3, SameSequence, GrowSequence DEF SInv
<1> QED  BY <1>3, <1>4, <1>5 DEF PollerStep, DeliverStep

LEMMA InitSInv == ASSUME Init PROVE SInv
BY DEF Init, SInv, InSequence

LEMMA NextSInv == ASSUME FlowAssumption, QInv, SInv, [Next]_vars PROVE SInv'
<1>1. CASE UNCHANGED vars
  <2>1. UNCHANGED <<log, symbols, pending, replay, live, asks, sent>>
    BY <1>1 DEF vars, store, fanout
  <2>2. \A c \in Conns : SameQueues(c)
    BY <2>1 DEF SameQueues
  <2> QED  BY <2>1, <2>2, SameSequence DEF SInv
<1>2. CASE Next
  BY <1>2, Kinds, PollerSequence, ConnSequence, RequestSequence
<1> QED  BY <1>1, <1>2

(* What is sent to the client of an only resumption, and what waits for it, *)
(* is in the order of the log, whatever the poller, _flush_replay_buffer    *)
(* and the live sends do.                                                   *)
THEOREM SentAndWaitingInOrder == Spec => []SInv
<1>1. Init => SInv
  BY InitSInv
<1>2. QInv /\ SInv /\ [Next]_vars => SInv'
  BY NextSInv, FlowAssumption
<1> QED  BY <1>1, <1>2, QueuesInOrder, PTL DEF Spec

(* _flush_replay_buffer and the live sends keep the order of the log: what  *)
(* an only resumption asked for is sent in it, and the one event that can   *)
(* come twice is the last of the range, appended before prepare_replay read *)
(* the end of the log and delivered after.                                  *)
THEOREM HandOffKeepsOrder == Spec => []SentInOrder
<1>1. ASSUME QInv, SInv, NEW c \in Conns, NEW n \in Asked, Served(c, n), asks[c] = 1,
             NEW i \in DOMAIN sent[c], NEW j \in DOMAIN sent[c], i < j
      PROVE  LET r == replay[c][n] IN
             \/ sent[c][i] < sent[c][j]
             \/ sent[c][i] = sent[c][j] /\ sent[c][j] = r.through
             \/ sent[c][i] > sent[c][j] /\ r.after # Now /\ sent[c][j] <= r.after
  <2>1. Owned(c) /\ NoneRepeated(c) /\ InSequence(c) /\ Shape /\ Replays
    BY <1>1 DEF QInv, IInv, Good, Arranged, SInv
  <2>2. \A m \in Asked : replay[c][m].at # "none" => m = 1
    BY <1>1, <2>1 DEF Owned, Asked
  <2>3. n = 1 /\ replay[c][1].at \in {"sending", "flushing", "done"}
    BY <1>1, <2>2 DEF Served
  <2>4. Resumptions(c) = {1}
    BY <2>2, <2>3 DEF Resumptions
  <2>5. Once(c) /\ SentSorted(c)
    BY <1>1, <2>1, <2>3, <2>4 DEF NoneRepeated, InSequence, Sorted
  <2>6. sent[c][i] \in Nat /\ sent[c][j] \in Nat /\ replay[c][1].after \in Nat
    <3>1. sent[c] \in Seq(Cursors) /\ replay[c][1].after \in Nat
      BY <1>1, <2>1, <2>3 DEF Shape, Replays, ReplayOK
    <3> QED  BY <1>1, <3>1, CursorsNat
  <2>7. sent[c][i] = sent[c][j] => sent[c][i] = replay[c][1].through
    BY <1>1, <2>5 DEF Once
  <2>8. \/ sent[c][i] < sent[c][j]
        \/ sent[c][i] = sent[c][j]
        \/ ~Owed(replay[c][1], sent[c][j])
    BY <1>1, <2>5 DEF SentSorted
  <2> QED  BY <2>3, <2>6, <2>7, <2>8 DEF Owed
<1>2. QInv /\ SInv => SentInOrder
  BY <1>1 DEF SentInOrder
<1> QED  BY <1>2, QueuesInOrder, SentAndWaitingInOrder, PTL
=============================================================================
