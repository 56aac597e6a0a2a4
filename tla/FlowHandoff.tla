---------------------------- MODULE FlowHandoff ----------------------------
(***************************************************************************)
(* The fan-out of option-flow events to WebSocket clients and the hand-off *)
(* from their replay to live delivery: FlowFanout                          *)
(* (gateway/core/flow_fanout.py), RedisFlowReplayStore                     *)
(* (gateway/core/flow_replay.py) and the flow branch of the WebSocket      *)
(* handlers (gateway/api/websocket.py).                                    *)
(*                                                                         *)
(* The poller hands over one event at a time.  Each is appended to the     *)
(* replay log, and only when the answer is there are the subscribers and   *)
(* their barriers looked up.  A subscription that resumes from a cursor    *)
(* raises a barrier, asks the log for its end, and after the               *)
(* acknowledgement a task sends the range, then what was held back.        *)
(*                                                                         *)
(* A cursor is a position in the log, trimmed entries included.  Tasks of  *)
(* live sends to one connection keep their order: locks and semaphores of  *)
(* asyncio are fair.  The two commands of a read are one step: with the    *)
(* default limits (100000 entries kept, 50000 replayed) what is trimmed    *)
(* between them is out of its range.  A client names cursors it was sent,  *)
(* "$", or the 0-0 an empty log was acknowledged with.                     *)
(*                                                                         *)
(* Left out: the JSON-safe copy and the wire format; permissions, quotas   *)
(* and the list of subscriptions a connection shows; a gateway without a   *)
(* replay store; the failure of the disk that holds the sentinel; close(). *)
(***************************************************************************)
EXTENDS Naturals, Sequences, FiniteSets

CONSTANTS
  Conns,          \* WebSocket connections, each with an id of its own
  Symbols,        \* underlyings
  SymbolOf,       \* the underlying of each event
  Requests,       \* sets of underlyings a message may name; Symbols: all flow
  MaxEvents,      \* bound: events the poller publishes
  MaxLen,         \* entries the log keeps
  MaxReplay,      \* entries one replay may have
  MaxAsks,        \* bound: flow requests of a connection
  MaxResumes,     \* bound: those of them that resume
  MaxFaults       \* bound: faults of one behaviour

ASSUME FlowAssumption ==
  /\ Requests \subseteq SUBSET Symbols /\ {} \notin Requests
  /\ UNION (Requests \ {Symbols}) # Symbols
  /\ MaxEvents \in Nat /\ MaxLen \in Nat \ {0} /\ MaxReplay \in Nat
  /\ MaxAsks \in Nat /\ MaxResumes \in Nat /\ MaxFaults \in Nat
  /\ SymbolOf \in [1 .. MaxEvents -> Symbols]

VARIABLES
  log,            \* the Redis stream since its creation: events, and 0 for a gap marker
  trimmed,        \* how many of its entries MAXLEN has removed
  gap,            \* _gap_pending, with the sentinel file that outlives the process
  healthy,        \* _healthy
  poller,         \* where the poller is with event next
  next,
  missed,         \* the lengths of the log at which an event was not appended
  conn,           \* of each connection: new, open or gone
  symbols,        \* _by_symbol and _all, by connection
  pending,        \* _pending_replays: the request whose barrier stands, or 0
  replay,         \* the barrier and the task of each request of each connection
  live,           \* cursors of the live sends under way, by connection
  asks,
  sent,           \* cursors sent on each connection
  excused,        \* cursors not delivered live, given up in sending, or not wanted
  faults

store == <<log, trimmed, gap, healthy>>
feed == <<poller, next, missed>>
fanout == <<symbols, pending, replay, live>>
vars == <<store, feed, conn, fanout, asks, sent, excused, faults>>

Asked == 1 .. MaxAsks
Now == MaxEvents + MaxEvents + MaxFaults + 3        \* "$": no log is that long

Places == {"none", "preparing", "prepared", "refused", "reading", "sending", "flushing", "done"}

NoReplay == [at |-> "none", of |-> {}, after |-> 0, through |-> 0, buffered |-> <<>>,
             todo |-> <<>>, replayed |-> {}]

NoAsk == [n \in Asked |-> NoReplay]

Init ==
  /\ log = <<>> /\ trimmed = 0 /\ gap \in BOOLEAN /\ healthy \in BOOLEAN
  /\ poller = "idle" /\ next = 1 /\ missed = {}
  /\ conn = [c \in Conns |-> "new"]
  /\ symbols = [c \in Conns |-> {}]
  /\ pending = [c \in Conns |-> 0]
  /\ replay = [c \in Conns |-> NoAsk]
  /\ live = [c \in Conns |-> <<>>]
  /\ asks = [c \in Conns |-> 0]
  /\ sent = [c \in Conns |-> <<>>]
  /\ excused = [c \in Conns |-> {}]
  /\ faults = 0

Fault ==
  /\ faults < MaxFaults
  /\ faults' = faults + 1

(* A cursor of the log that is an event of the underlyings S. *)
IsOf(cursor, S) == log[cursor] # 0 /\ SymbolOf[log[cursor]] \in S

-----------------------------------------------------------------------------
(* RedisFlowReplayStore.append, and deliver up to its answer *)

(* XADD with MAXLEN, taken to trim exactly; it may keep more. *)
Xadd(entry) ==
  /\ log' = Append(log, entry)
  /\ trimmed' = IF Len(log) + 1 - trimmed > MaxLen THEN Len(log) + 1 - MaxLen ELSE trimmed

(* The event is not in the log and not delivered: a gap is noted. *)
Miss ==
  /\ missed' = missed \union {Len(log')}
  /\ next' = next + 1
  /\ gap' = TRUE

(* A published event finds the store unavailable: no client, and no probe   *)
(* that succeeds.                                                           *)
Unavailable ==
  /\ poller = "idle" /\ next <= MaxEvents
  /\ ~healthy
  /\ UNCHANGED <<log, trimmed, healthy>>
  /\ Miss
  /\ UNCHANGED <<poller, conn, fanout, asks, sent, excused, faults>>

(* The gap is bounded by a marker before the next event. *)
MarkGap ==
  /\ poller = "idle" /\ next <= MaxEvents
  /\ gap
  /\ Xadd(0)
  /\ gap' = FALSE
  /\ healthy' = TRUE
  /\ UNCHANGED <<poller, next, missed, conn, fanout, asks, sent, excused, faults>>

(* Variant: an event is appended although the gap before it has no marker. *)
AppendUnmarked ==
  /\ poller = "idle" /\ next <= MaxEvents
  /\ Xadd(next)
  /\ poller' = "answered"
  /\ healthy' = TRUE
  /\ gap' = FALSE
  /\ UNCHANGED <<next, missed, conn, fanout, asks, sent, excused, faults>>

AppendEvent ==
  /\ poller = "idle" /\ next <= MaxEvents
  /\ ~gap
  /\ Xadd(next)
  /\ poller' = "answered"
  /\ healthy' = TRUE
  /\ UNCHANGED <<gap, next, missed, conn, fanout, asks, sent, excused, faults>>

(* The command fails, for the marker possibly after it was applied; a       *)
(* client that was replaced meanwhile does not latch the failure.           *)
AppendFails ==
  /\ Fault
  /\ poller = "idle" /\ next <= MaxEvents
  /\ \/ UNCHANGED <<log, trimmed>>
     \/ gap /\ Xadd(0)
  /\ Miss
  /\ healthy' \in {healthy, FALSE}
  /\ UNCHANGED <<poller, conn, fanout, asks, sent, excused>>

(* The answer to the append of an event is lost: the event is in the log,   *)
(* and is not delivered.                                                    *)
AnswerLost ==
  /\ Fault
  /\ poller = "answered"
  /\ gap' = TRUE
  /\ healthy' \in {healthy, FALSE}
  /\ next' = next + 1 /\ poller' = "idle"
  /\ excused' = [c \in Conns |-> excused[c] \union {Len(log)}]
  /\ UNCHANGED <<log, trimmed, missed, conn, fanout, asks, sent>>

(* Variant: an event with a barrier in its way goes out live all the same. *)
DeliverPastBarrier ==
  LET targets == {c \in Conns : IsOf(Len(log), symbols[c])} IN
  /\ poller = "answered"
  /\ live' = [c \in Conns |-> IF c \in targets THEN Append(live[c], Len(log)) ELSE live[c]]
  /\ replay' = replay
  /\ next' = next + 1 /\ poller' = "idle"
  /\ UNCHANGED <<store, missed, conn, symbols, pending, asks, sent, excused, faults>>

(* deliver after the append: behind a barrier, or on a task of its own. *)
Deliver ==
  LET targets == {c \in Conns : IsOf(Len(log), symbols[c])}
      held == {c \in targets : pending[c] # 0}
  IN
  /\ poller = "answered"
  /\ live' = [c \in Conns |->
                IF c \in targets \ held THEN Append(live[c], Len(log)) ELSE live[c]]
  /\ replay' = [c \in Conns |->
                  IF c \in held
                  THEN [replay[c] EXCEPT ![pending[c]].buffered = Append(@, Len(log))]
                  ELSE replay[c]]
  /\ next' = next + 1 /\ poller' = "idle"
  /\ UNCHANGED <<store, missed, conn, symbols, pending, asks, sent, excused, faults>>

Put(c, cursor) == sent' = [sent EXCEPT ![c] = Append(@, cursor)]

SendLive(c) ==
  /\ live[c] # <<>>
  /\ Put(c, Head(live[c]))
  /\ live' = [live EXCEPT ![c] = Tail(@)]
  /\ UNCHANGED <<store, feed, conn, symbols, pending, replay, asks, excused, faults>>

(* _deliver_bounded: the budget of a live send is over. *)
LiveTimesOut(c) ==
  /\ Fault
  /\ live[c] # <<>>
  /\ excused' = [excused EXCEPT ![c] = @ \union {Head(live[c])}]
  /\ live' = [live EXCEPT ![c] = Tail(@)]
  /\ UNCHANGED <<store, feed, conn, symbols, pending, replay, asks, sent>>

-----------------------------------------------------------------------------
(* The handler of a connection *)

(* It handles one message at a time and is inside prepare_replay until the  *)
(* end of the log is known; a request that resumes is prepared until then.  *)
Preparing(c) == \E n \in Asked : replay[c][n].at = "preparing"

Resumptions(c) == {n \in Asked : replay[c][n].at # "none"}

(* prepare_replay raises the barrier before anything is awaited. *)
SubscribeResuming(c, S, after) ==
  LET n == asks[c] + 1 IN
  /\ conn[c] = "open" /\ ~Preparing(c) /\ asks[c] < MaxAsks
  /\ Cardinality(Resumptions(c)) < MaxResumes
  /\ asks' = [asks EXCEPT ![c] = n]
  /\ pending' = [pending EXCEPT ![c] = n]
  /\ symbols' = [symbols EXCEPT ![c] = @ \union S]
  /\ replay' = [replay EXCEPT ![c][n] = [NoReplay EXCEPT !.at = "preparing", !.of = S,
                                                         !.after = after]]
  /\ UNCHANGED <<store, feed, conn, live, sent, excused, faults>>

Subscribe(c, S) ==
  /\ conn[c] = "open" /\ ~Preparing(c) /\ asks[c] < MaxAsks
  /\ asks' = [asks EXCEPT ![c] = @ + 1]
  /\ symbols' = [symbols EXCEPT ![c] = @ \union S]
  /\ UNCHANGED <<store, feed, conn, pending, replay, live, sent, excused, faults>>

Withdrawn(c, n) == IF pending[c] = n THEN [pending EXCEPT ![c] = 0] ELSE pending

HighWatermark(c, n) ==
  /\ replay[c][n].at = "preparing"
  /\ replay' = [replay EXCEPT ![c][n].at = "prepared", ![c][n].through = Len(log)]
  /\ healthy' = TRUE
  /\ UNCHANGED <<log, trimmed, gap, feed, conn, symbols, pending, live, asks, sent, excused,
                 faults>>

(* No store, or a failing command: the subscription stays, live only, and   *)
(* what the barrier held back is dropped with it.                           *)
ResumeRefused(c, n) ==
  /\ replay[c][n].at = "preparing"
  /\ \/ ~healthy /\ faults' = faults /\ UNCHANGED healthy
     \/ Fault /\ healthy' \in {healthy, FALSE}
  /\ pending' = Withdrawn(c, n)
  /\ replay' = [replay EXCEPT ![c][n] = [NoReplay EXCEPT !.at = "refused"]]
  /\ UNCHANGED <<log, trimmed, gap, feed, conn, symbols, live, asks, sent, excused>>

(* client_disconnect: also for an unsubscription without symbols. *)
Dropped(c) ==
  /\ pending' = [pending EXCEPT ![c] = 0]
  /\ symbols' = [symbols EXCEPT ![c] = {}]

(* A connection with all flow stays so when it names some underlyings. *)
Unsubscribe(c, S) ==
  /\ conn[c] = "open" /\ ~Preparing(c) /\ asks[c] < MaxAsks
  /\ asks' = [asks EXCEPT ![c] = @ + 1]
  /\ \/ S = Symbols /\ Dropped(c)
     \/ /\ S # Symbols /\ symbols[c] # Symbols
        /\ symbols' = [symbols EXCEPT ![c] = @ \ S]
        /\ pending' = pending
  /\ excused' = [excused EXCEPT ![c] = 1 .. Now]
  /\ UNCHANGED <<store, feed, conn, replay, live, sent, faults>>

Connect(c) ==
  /\ conn[c] = "new"
  /\ conn' = [conn EXCEPT ![c] = "open"]
  /\ UNCHANGED <<store, feed, fanout, asks, sent, excused, faults>>

(* The client leaves, or is too slow and is closed.  What its handler and   *)
(* its replay still do reaches nobody.                                      *)
Disconnect(c) ==
  /\ conn[c] = "open"
  /\ conn' = [conn EXCEPT ![c] = "gone"]
  /\ Dropped(c)
  /\ replay' = [replay EXCEPT ![c] = NoAsk]
  /\ live' = [live EXCEPT ![c] = <<>>]
  /\ asks' = [asks EXCEPT ![c] = 0]
  /\ sent' = [sent EXCEPT ![c] = <<>>]
  /\ excused' = [excused EXCEPT ![c] = {}]
  /\ UNCHANGED <<store, feed, faults>>

-----------------------------------------------------------------------------
(* start_pending_replay and _flush_replay_buffer *)

(* Launched after the acknowledgement, if the barrier still stands. *)
StartReplay(c, n) ==
  /\ replay[c][n].at = "prepared"
  /\ \/ pending[c] = n /\ replay' = [replay EXCEPT ![c][n].at = "reading"]
     \/ pending[c] # n /\ replay' = [replay EXCEPT ![c][n] = [NoReplay EXCEPT !.at = "done"]]
  /\ UNCHANGED <<store, feed, conn, symbols, pending, live, asks, sent, excused, faults>>

Entries(after, through) == {i \in 1 .. Len(log) : after < i /\ i <= through /\ trimmed < i}

TooOld(after) == trimmed < Len(log) /\ after < trimmed + 1

ElementsOf(s) == {s[i] : i \in DOMAIN s}

Increasing(s) == \A i, j \in DOMAIN s : i < j => s[i] < s[j]

InOrder(S) ==
  CHOOSE s \in [1 .. Cardinality(S) -> S] : ElementsOf(s) = S /\ Increasing(s)

(* Nothing to replay: the store is not asked. *)
Trivial(r) == r.after = Now \/ r.after = r.through

(* Why a range cannot be replayed: its start is trimmed, a gap lies in it,  *)
(* or it is too long.                                                       *)
Refused(r) ==
  /\ ~Trivial(r)
  /\ \/ TooOld(r.after)
     \/ \E i \in Entries(r.after, r.through) : log[i] = 0
     \/ Cardinality(Entries(r.after, r.through)) > MaxReplay

ReadRange(c, n) ==
  LET r == replay[c][n]
      range == IF Trivial(r) THEN {} ELSE Entries(r.after, r.through)
  IN
  /\ r.at = "reading"
  /\ ~Refused(r)
  /\ replay' = [replay EXCEPT ![c][n].at = "sending",
                              ![c][n].todo = InOrder({i \in range : IsOf(i, r.of)})]
  /\ healthy' = TRUE
  /\ UNCHANGED <<log, trimmed, gap, feed, conn, symbols, pending, live, asks, sent, excused,
                 faults>>

(* The store refuses the range, is unavailable, or fails. *)
ReadFails(r) ==
  \/ Refused(r) /\ faults' = faults /\ UNCHANGED healthy
  \/ ~healthy /\ faults' = faults /\ UNCHANGED healthy
  \/ ~Trivial(r) /\ Fault /\ healthy' \in {healthy, FALSE}

(* Variant: a replay that fails leaves its barrier up. *)
ReplayFailsHeld(c, n) ==
  /\ replay[c][n].at = "reading"
  /\ ReadFails(replay[c][n])
  /\ replay' = [replay EXCEPT ![c][n] = [NoReplay EXCEPT !.at = "done"]]
  /\ UNCHANGED <<log, trimmed, gap, feed, conn, symbols, pending, live, asks, sent, excused>>

(* replay_error: the connection loses all of its flow subscriptions, unless *)
(* the barrier was replaced.                                                *)
ReplayFails(c, n) ==
  /\ replay[c][n].at = "reading"
  /\ ReadFails(replay[c][n])
  /\ replay' = [replay EXCEPT ![c][n] = [NoReplay EXCEPT !.at = "done"]]
  /\ \/ pending[c] = n /\ Dropped(c)
     \/ pending[c] # n /\ UNCHANGED <<pending, symbols>>
  /\ UNCHANGED <<log, trimmed, gap, feed, conn, live, asks, sent, excused>>

SendReplayed(c, n) ==
  /\ replay[c][n].at = "sending" /\ replay[c][n].todo # <<>>
  /\ Put(c, Head(replay[c][n].todo))
  /\ replay' = [replay EXCEPT ![c][n].todo = Tail(@),
                              ![c][n].replayed = @ \union {Head(replay[c][n].todo)}]
  /\ UNCHANGED <<store, feed, conn, symbols, pending, live, asks, excused, faults>>

(* Variant: the flush sends again what the replay sent. *)
FreshAll(r) == r.buffered

(* What the flush still has to send of a batch. *)
Fresh(r) ==
  LET kept == InOrder({i \in DOMAIN r.buffered : r.buffered[i] \notin r.replayed})
  IN  [i \in DOMAIN kept |-> r.buffered[kept[i]]]

(* replay_complete is sent, or a batch of held events is: the next batch,   *)
(* unless the barrier was replaced.  Without one the barrier falls; when a  *)
(* batch was sent and nothing is held, it is whichever stands by now.       *)
NextBatch(c, n) ==
  LET r == replay[c][n]
      own == pending[c] = n
      over == r.at = "flushing" /\ r.buffered = <<>>
  IN
  /\ r.at \in {"sending", "flushing"} /\ r.todo = <<>>
  /\ \/ /\ own /\ Fresh(r) # <<>>
        /\ replay' = [replay EXCEPT ![c][n].at = "flushing", ![c][n].buffered = <<>>,
                                    ![c][n].todo = Fresh(r)]
        /\ pending' = pending
     \/ /\ ~own \/ Fresh(r) = <<>>
        /\ replay' = [replay EXCEPT ![c][n].at = "done", ![c][n].buffered = <<>>,
                                    ![c][n].replayed = {}]
        /\ pending' = IF own \/ over THEN [pending EXCEPT ![c] = 0] ELSE pending
  /\ UNCHANGED <<store, feed, conn, symbols, live, asks, sent, excused, faults>>

SendHeld(c, n) ==
  /\ replay[c][n].at = "flushing" /\ replay[c][n].todo # <<>>
  /\ Put(c, Head(replay[c][n].todo))
  /\ replay' = [replay EXCEPT ![c][n].todo = Tail(@)]
  /\ UNCHANGED <<store, feed, conn, symbols, pending, live, asks, excused, faults>>

(* The process dies and starts again: the log, the file of the gap and the  *)
(* other connections are new to it; the poller publishes its event again.   *)
Restart ==
  /\ Fault
  /\ healthy' \in BOOLEAN
  /\ poller' = "idle"
  /\ conn' = [c \in Conns |-> IF conn[c] = "new" THEN "new" ELSE "gone"]
  /\ symbols' = [c \in Conns |-> {}]
  /\ pending' = [c \in Conns |-> 0]
  /\ replay' = [c \in Conns |-> NoAsk]
  /\ live' = [c \in Conns |-> <<>>]
  /\ sent' = [c \in Conns |-> <<>>]
  /\ excused' = [c \in Conns |-> {}]
  /\ asks' = [c \in Conns |-> 0]
  /\ UNCHANGED <<log, trimmed, gap, next, missed>>

-----------------------------------------------------------------------------
DeliverStep == Unavailable \/ MarkGap \/ AppendEvent \/ Deliver

PrepareStep(c, n) == HighWatermark(c, n) \/ ResumeRefused(c, n)

ReplayStep(c, n) ==
  \/ StartReplay(c, n) \/ ReadRange(c, n) \/ ReplayFails(c, n) \/ SendReplayed(c, n)
  \/ NextBatch(c, n) \/ SendHeld(c, n)

Next ==
  \/ DeliverStep \/ AppendFails \/ AnswerLost \/ Restart
  \/ \E c \in Conns :
       \/ Connect(c) \/ Disconnect(c)
       \/ SendLive(c) \/ LiveTimesOut(c)
       \/ \E S \in Requests :
            \/ Subscribe(c, S) \/ Unsubscribe(c, S)
            \/ \E after \in {0, Now} \union {i \in DOMAIN log : log[i] # 0} : SubscribeResuming(c, S, after)
       \/ \E n \in Asked : PrepareStep(c, n) \/ ReplayStep(c, n)

Spec == Init /\ [][Next]_vars

(* Redis answers or fails, and tasks that can go on do. *)
Fairness ==
  \A c \in Conns, n \in Asked : WF_vars(PrepareStep(c, n)) /\ WF_vars(ReplayStep(c, n))

FairSpec == Spec /\ Fairness

-----------------------------------------------------------------------------
(* Properties *)

Cursors == 1 .. Now

(* The types of the variables; a barrier stands only while a request that   *)
(* will lift it is under way.                                               *)
TypeOK ==
  /\ log \in Seq(0 .. MaxEvents) /\ trimmed \in 0 .. Len(log)
  /\ gap \in BOOLEAN /\ healthy \in BOOLEAN
  /\ poller \in {"idle", "answered"}
  /\ poller = "answered" => log # <<>> /\ log[Len(log)] = next
  /\ next \in 1 .. MaxEvents + 1 /\ missed \subseteq 0 .. Now
  /\ conn \in [Conns -> {"new", "open", "gone"}]
  /\ symbols \in [Conns -> SUBSET Symbols]
  /\ pending \in [Conns -> 0 .. MaxAsks]
  /\ \A c \in Conns, n \in Asked : replay[c][n].at \in Places
  /\ \A c \in Conns : pending[c] # 0 =>
       replay[c][pending[c]].at \in {"preparing", "prepared", "reading", "sending", "flushing"}
  /\ \A c \in Conns : live[c] \in Seq(Cursors) /\ sent[c] \in Seq(Cursors)
  /\ asks \in [Conns -> 0 .. MaxAsks] /\ faults \in 0 .. MaxFaults

Sent(c) == ElementsOf(sent[c])

(* What an accepted resumption owes its connection. *)
Due(c, n) ==
  LET r == replay[c][n]
      from == IF r.after = Now THEN r.through ELSE r.after
  IN  {i \in DOMAIN log : from < i /\ IsOf(i, r.of)} \ excused[c]

Served(c, n) == conn[c] = "open" /\ replay[c][n].at \in {"sending", "flushing", "done"}

Gapless(c, n) ==
  Served(c, n) => \A i, j \in Due(c, n) : i < j /\ j \in Sent(c) => i \in Sent(c)

(* A client that connects and resumes gets every event after its cursor     *)
(* before any later one, over the replay, the events held back and live     *)
(* delivery.                                                                *)
NothingSkipped ==
  \A c \in Conns : Resumptions(c) = {1} => Gapless(c, 1)

(* A client whose only request resumes is sent what it asked for in the     *)
(* order of the log.  Only the last event of the range can come twice, the  *)
(* one whose append was on its way back when the end of the log was read;   *)
(* and one at or before the cursor of the client can come after it.         *)
SentInOrder ==
  \A c \in Conns, n \in Asked : Served(c, n) /\ asks[c] = 1 =>
    LET r == replay[c][n] IN
    \A i, j \in DOMAIN sent[c] : i < j =>
      \/ sent[c][i] < sent[c][j]
      \/ sent[c][i] = sent[c][j] /\ sent[c][j] = r.through
      \/ sent[c][i] > sent[c][j] /\ r.after # Now /\ sent[c][j] <= r.after

(* A replay that crosses an event missing from the log is never sent        *)
(* (CHANGELOG.md:84).                                                       *)
GapFailsClosed ==
  \A c \in Conns, n \in Asked :
    LET r == replay[c][n] IN
    Served(c, n) => \A p \in missed : ~(r.after <= p /\ p < r.through)

(* No barrier stands for ever: live events are not held back without end. *)
BarrierLifted == \A c \in Conns : pending[c] # 0 ~> pending[c] = 0
=============================================================================
