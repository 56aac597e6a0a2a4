-------------------------- MODULE StreamMultiplexer --------------------------
(***************************************************************************)
(* The upstream market-data connections and the clients they serve:        *)
(* SubscriptionManager, UpstreamConnection and StreamMultiplexer           *)
(* (gateway/core/stream.py), and what the WebSocket endpoint               *)
(* (gateway/api/websocket.py) does with them for a client that connects,   *)
(* subscribes, unsubscribes and leaves.                                    *)
(*                                                                         *)
(* A step is what a task does between two awaits.  The index of            *)
(* subscriptions and the first frame sent for a change of it are one step: *)
(* there is no await between them and frames of a socket keep their order. *)
(* The second frame, of the ancillary stock channels, is a later step.     *)
(* The connections have one supervisor, which waits for one upstream at a  *)
(* time.                                                                   *)
(*                                                                         *)
(* A channel is a pair <<upstream, feed>> for one symbol: operations on    *)
(* different symbols do not meet.  The lazy mode of the configuration's    *)
(* default is modelled (stream_lazy_connect), with eager upstreams.        *)
(*                                                                         *)
(* Left out: the data messages with their validation and fan-out, except   *)
(* the one whose durable admission fails; the shape filter of symbols and  *)
(* the permissions and quotas of clients; the tail of a close, whose       *)
(* socket nobody refers to any more, and with it the task of a refused     *)
(* attempt, which waits for that close and then only logs and returns;     *)
(* backoff times; and clients during stop(), which the server closes       *)
(* before it.                                                              *)
(***************************************************************************)
EXTENDS Naturals, Sequences, FiniteSets

CONSTANTS
  Clients,        \* WebSocket connections, each with an id of its own
  Streams,        \* the sequence of upstreams, in the order of _connections
  Stocks,         \* the upstream with ancillary channels
  Channels,       \* pairs <<upstream, feed>>
  Requests,       \* sequences of channels a client may name in a message
  Eager,          \* upstreams started with the multiplexer
  Tasks,          \* start() tasks an upstream may have at a time
  MaxRetries,     \* max_retries of an upstream
  MaxRequests,    \* bound: requests of one behaviour
  MaxFaults       \* bound: faults of one behaviour

Upstreams == {Streams[i] : i \in DOMAIN Streams}

ASSUME StreamAssumption ==
  /\ Streams \in Seq(Upstreams) /\ Stocks \in Upstreams /\ Eager \subseteq Upstreams
  /\ \A ch \in Channels : ch[1] \in Upstreams
  /\ \A r \in Requests : r \in Seq(Channels) /\ r # <<>>
  /\ MaxRetries \in Nat /\ MaxRequests \in Nat /\ MaxFaults \in Nat

VARIABLES
  phase,          \* of the multiplexer: see Phases
  running,        \* UpstreamConnection._running
  socket,         \* UpstreamConnection._ws, and whether it is authenticated
  connected,      \* UpstreamConnection._connected_event is set
  loop,           \* the start() tasks of each upstream
  index,          \* SubscriptionManager: the clients of each channel
  main,           \* at the provider: market channels subscribed
  ancillary,      \* at the provider: statuses and lulds are subscribed
  client,         \* where each client's handler is
  accounted,      \* Connection.subscriptions of each client
  supervisor,     \* the upstream it waits for in _ensure_connected, 0: it sleeps
  requests, faults

upstream == <<running, socket, connected, loop, main, ancillary>>
handlers == <<client, accounted>>
vars == <<phase, upstream, index, handlers, supervisor, requests, faults>>

Phases == {"running", "failed", "stopping", "stopped"}

LoopPlaces == {"none", "scheduled", "dialing", "authenticating", "resubscribing",
               "receiving", "sleeping"}

NoLoop == [at |-> "none", attempt |-> 0]

Idle == [at |-> "idle", op |-> "none", todo |-> <<>>, done |-> <<>>]

FirstOf(S) == CHOOSE i \in S : \A j \in S : i <= j

IsConnected(s) == socket[s] = "authenticated"

(* _aggregate for one upstream: the channels some client has. *)
Wanted(s) == {ch \in Channels : ch[1] = s /\ index[ch] # {}}

Init ==
  /\ phase = "running"
  /\ running = [s \in Upstreams |-> s \in Eager]
  /\ socket = [s \in Upstreams |-> "none"]
  /\ connected = [s \in Upstreams |-> FALSE]
  /\ loop = [s \in Upstreams |-> [t \in Tasks |->
                IF s \in Eager /\ t = CHOOSE u \in Tasks : TRUE
                THEN [at |-> "scheduled", attempt |-> 0] ELSE NoLoop]]
  /\ index = [ch \in Channels |-> {}]
  /\ main = {} /\ ancillary = FALSE
  /\ client = [c \in Clients |-> Idle]
  /\ accounted = [c \in Clients |-> {}]
  /\ supervisor = 0
  /\ requests = 0 /\ faults = 0

Fault ==
  /\ faults < MaxFaults
  /\ faults' = faults + 1

-----------------------------------------------------------------------------
(* Sockets *)

(* Handlers inside a send on an upstream of S. *)
Sending(S) == {c \in Clients : client[c].at = "sent" /\ Head(client[c].todo)[1] \in S}

(* The sockets of S are gone for the provider, which forgets what they had  *)
(* subscribed, and sends under way on them fail.                            *)
ForgottenUpstream(S) ==
  /\ main' = {ch \in main : ch[1] \notin S}
  /\ ancillary' = (ancillary /\ Stocks \notin S)
  /\ client' = [c \in Clients |-> IF c \in Sending(S) THEN [client[c] EXCEPT !.at = "raised"]
                                                      ELSE client[c]]

CloseSockets(S) ==
  /\ socket' = [s \in Upstreams |-> IF s \in S THEN "none" ELSE socket[s]]
  /\ connected' = [s \in Upstreams |-> connected[s] /\ s \notin S]
  /\ ForgottenUpstream(S)

SetLoop(s, t, at, attempt) == loop' = [loop EXCEPT ![s][t] = [at |-> at, attempt |-> attempt]]

(* The provider or the network ends a connection. *)
Lose(s) ==
  /\ Fault
  /\ socket[s] \in {"open", "authenticated"}
  /\ socket' = [socket EXCEPT ![s] = "lost"]
  /\ ForgottenUpstream({s})
  /\ UNCHANGED <<phase, running, connected, loop, index, accounted, supervisor, requests>>

-----------------------------------------------------------------------------
(* UpstreamConnection._connect_and_run *)

(* The task begins: it sets _running whatever happened since it was made. *)
LoopBegins(s, t) ==
  /\ loop[s][t].at = "scheduled"
  /\ running' = [running EXCEPT ![s] = TRUE]
  /\ SetLoop(s, t, "dialing", 0)
  /\ CloseSockets({s})
  /\ UNCHANGED <<phase, index, accounted, supervisor, requests, faults>>

DialSucceeds(s, t) ==
  /\ loop[s][t].at = "dialing"
  /\ socket' = [socket EXCEPT ![s] = "open"]
  /\ SetLoop(s, t, "authenticating", loop[s][t].attempt)
  /\ UNCHANGED <<phase, running, connected, index, main, ancillary, handlers, supervisor,
                 requests, faults>>

(* Authenticated, and in the same step the index is read and the frame for  *)
(* all of its channels is sent.                                             *)
AuthSucceeds(s, t) ==
  /\ loop[s][t].at = "authenticating" /\ socket[s] = "open"
  /\ socket' = [socket EXCEPT ![s] = "authenticated"]
  /\ connected' = [connected EXCEPT ![s] = TRUE]
  /\ \/ /\ Wanted(s) # {}
        /\ main' = main \union Wanted(s)
        /\ SetLoop(s, t, "resubscribing", loop[s][t].attempt)
     \/ /\ Wanted(s) = {}
        /\ SetLoop(s, t, "receiving", 0)
        /\ main' = main
  /\ UNCHANGED <<phase, running, index, ancillary, handlers, supervisor, requests, faults>>

(* The ancillary frame of the resubscription, for the channels it named. *)
Resubscribed(s, t) ==
  /\ loop[s][t].at = "resubscribing" /\ IsConnected(s)
  /\ ancillary' = (ancillary \/ s = Stocks)
  /\ SetLoop(s, t, "receiving", 0)
  /\ UNCHANGED <<phase, running, socket, connected, index, main, handlers, supervisor,
                 requests, faults>>

(* Variant: an upstream gives up one attempt late. *)
GiveUpLate(s, t) ==
  LET attempt == loop[s][t].attempt + 1 IN
  /\ CloseSockets({s})
  /\ \/ /\ ~running[s] \/ attempt > MaxRetries + 1
        /\ SetLoop(s, t, "none", 0)
        /\ running' = [running EXCEPT ![s] = FALSE]
     \/ /\ running[s] /\ attempt <= MaxRetries + 1
        /\ SetLoop(s, t, "sleeping", attempt)
        /\ running' = running
  /\ UNCHANGED <<phase, index, accounted, supervisor, requests>>

(* An attempt or a connection is over: close, then give up or back off. *)
GiveUpOrRetry(s, t) ==
  LET attempt == loop[s][t].attempt + 1 IN
  /\ CloseSockets({s})
  /\ \/ /\ ~running[s]
        /\ SetLoop(s, t, "none", 0)
        /\ running' = running
     \/ /\ running[s] /\ attempt > MaxRetries
        /\ SetLoop(s, t, "none", 0)
        /\ running' = [running EXCEPT ![s] = FALSE]
     \/ /\ running[s] /\ attempt <= MaxRetries
        /\ SetLoop(s, t, "sleeping", attempt)
        /\ running' = running
  /\ UNCHANGED <<phase, index, accounted, supervisor, requests>>

AttemptFails(s, t) ==
  /\ Fault
  /\ \/ loop[s][t].at = "dialing"
     \/ loop[s][t].at = "authenticating" /\ socket[s] = "open"
  /\ GiveUpOrRetry(s, t)

(* "connection limit exceeded": dormant at once; the task that waits for    *)
(* the close of its socket has nothing left to do.                          *)
AttemptRefused(s, t) ==
  /\ Fault
  /\ loop[s][t].at = "authenticating" /\ socket[s] = "open"
  /\ running' = [running EXCEPT ![s] = FALSE]
  /\ SetLoop(s, t, "none", 0)
  /\ CloseSockets({s})
  /\ UNCHANGED <<phase, index, accounted, supervisor, requests>>

(* The task finds its socket lost, or closed under it. *)
ConnectionEnds(s, t) ==
  /\ loop[s][t].at \in {"authenticating", "resubscribing", "receiving"}
  /\ socket[s] \in {"none", "lost"}
  /\ GiveUpOrRetry(s, t)
  /\ faults' = faults

BackoffEnds(s, t) ==
  /\ loop[s][t].at = "sleeping"
  /\ SetLoop(s, t, IF running[s] THEN "dialing" ELSE "none", loop[s][t].attempt)
  /\ UNCHANGED <<phase, running, socket, connected, main, ancillary, index, handlers,
                 supervisor, requests, faults>>

-----------------------------------------------------------------------------
(* StreamMultiplexer._ensure_connected, up to its wait *)

(* Variant: _running is left to the task, so a second subscriber starts one too. *)
StartTaskOnly(s) ==
  /\ running' = running
  /\ connected' = [connected EXCEPT ![s] = FALSE]
  /\ \E t \in Tasks : loop[s][t].at = "none" /\ SetLoop(s, t, "scheduled", 0)

(* _running is set before the task has run. *)
StartTask(s) ==
  /\ running' = [running EXCEPT ![s] = TRUE]
  /\ connected' = [connected EXCEPT ![s] = FALSE]
  /\ \E t \in Tasks : loop[s][t].at = "none" /\ SetLoop(s, t, "scheduled", 0)

(* Under the lock: a dormant upstream gets a task. *)
StartIfDormant(s) ==
  \/ running[s] /\ UNCHANGED <<running, connected, loop>>
  \/ ~running[s] /\ StartTask(s)

-----------------------------------------------------------------------------
(* The handler of a client *)

Place(c, at) == client' = [client EXCEPT ![c].at = at]

Request(c, op, req) ==
  /\ client[c].at = "idle" /\ requests < MaxRequests
  /\ client' = [client EXCEPT ![c] = [at |-> op, op |-> op, todo |-> req, done |-> <<>>]]
  /\ requests' = requests + 1
  /\ UNCHANGED <<phase, upstream, index, accounted, supervisor, faults>>

(* The channel at hand is done: the next one, or the answer.  An answered   *)
(* request is accounted to the connection; a refused one is not.            *)
Advance(c) ==
  LET h == client[c]
      ended == Append(h.done, Head(h.todo))
      named == {ended[i] : i \in DOMAIN ended}
      left == Tail(h.todo)
  IN  \/ /\ left # <<>>
         /\ client' = [client EXCEPT ![c] = [h EXCEPT !.at = h.op, !.todo = left, !.done = ended]]
         /\ accounted' = accounted
      \/ /\ left = <<>>
         /\ client' = [client EXCEPT ![c] = Idle]
         /\ accounted' = [accounted EXCEPT ![c] = CASE h.op = "subscribe" -> @ \union named
                                                    [] h.op = "unsubscribe" -> @ \ named
                                                    [] OTHER -> @]

(* client_subscribe once the upstream is connected: the index, and the      *)
(* frame when no other client had the channel.                              *)
Register(c) ==
  LET ch == Head(client[c].todo) IN
  /\ index' = [index EXCEPT ![ch] = @ \union {c}]
  /\ \/ /\ index[ch] = {}
        /\ main' = main \union {ch}
        /\ Place(c, "sent") /\ accounted' = accounted
     \/ /\ index[ch] # {}
        /\ main' = main
        /\ Advance(c)

(* The request is refused; the feeds it had subscribed are unsubscribed. *)
Refuse(c) ==
  LET h == client[c] IN
  \/ /\ h.done # <<>>
     /\ client' = [client EXCEPT ![c] = [at |-> "rollback", op |-> "rollback",
                                         todo |-> h.done, done |-> <<>>]]
  \/ /\ h.done = <<>>
     /\ client' = [client EXCEPT ![c] = Idle]

(* Variant: a failed transport does not keep _ensure_connected from starting. *)
EnsureAfterFailure(c) ==
  LET s == Head(client[c].todo)[1] IN
  /\ client[c].at = "subscribe"
  /\ \/ /\ IsConnected(s)
        /\ Register(c)
        /\ UNCHANGED <<running, connected, loop>>
     \/ /\ ~IsConnected(s)
        /\ StartIfDormant(s)
        /\ Place(c, "waiting")
        /\ UNCHANGED <<main, index, accounted>>
  /\ UNCHANGED <<phase, socket, ancillary, supervisor, requests, faults>>

EnsureConnected(c) ==
  LET s == Head(client[c].todo)[1] IN
  /\ client[c].at = "subscribe"
  /\ \/ /\ phase = "failed"
        /\ Refuse(c)
        /\ UNCHANGED <<running, connected, loop, main, index, accounted>>
     \/ /\ phase # "failed" /\ IsConnected(s)
        /\ Register(c)
        /\ UNCHANGED <<running, connected, loop>>
     \/ /\ phase # "failed" /\ ~IsConnected(s)
        /\ StartIfDormant(s)
        /\ Place(c, "waiting")
        /\ UNCHANGED <<main, index, accounted>>
  /\ UNCHANGED <<phase, socket, ancillary, supervisor, requests, faults>>

(* The event is set: whether there is a connection is looked at again. *)
WaitSucceeds(c) ==
  LET s == Head(client[c].todo)[1] IN
  /\ client[c].at = "waiting" /\ connected[s]
  /\ \/ IsConnected(s) /\ Register(c)
     \/ ~IsConnected(s) /\ Refuse(c) /\ UNCHANGED <<main, index, accounted>>
  /\ UNCHANGED <<phase, running, socket, connected, loop, ancillary, supervisor, requests, faults>>

WaitTimesOut(c) ==
  /\ client[c].at = "waiting"
  /\ Refuse(c)
  /\ UNCHANGED <<phase, upstream, index, accounted, supervisor, requests, faults>>

(* Variant: unsubscribing tells the provider while another client has the channel. *)
UnregisterForAll(c) ==
  LET ch == Head(client[c].todo) IN
  /\ client[c].at \in {"unsubscribe", "rollback"}
  /\ index' = [index EXCEPT ![ch] = @ \ {c}]
  /\ \/ /\ IsConnected(ch[1])
        /\ main' = main \ {ch}
        /\ Place(c, "sent") /\ accounted' = accounted
     \/ /\ ~IsConnected(ch[1])
        /\ main' = main
        /\ Advance(c)
  /\ UNCHANGED <<phase, running, socket, connected, loop, ancillary, supervisor, requests, faults>>

(* client_unsubscribe of one channel, for an unsubscription or a rollback. *)
Unregister(c) ==
  LET ch == Head(client[c].todo)
      last == index[ch] = {c}
  IN
  /\ client[c].at \in {"unsubscribe", "rollback"}
  /\ index' = [index EXCEPT ![ch] = @ \ {c}]
  /\ \/ /\ last /\ IsConnected(ch[1])
        /\ main' = main \ {ch}
        /\ Place(c, "sent") /\ accounted' = accounted
     \/ /\ ~(last /\ IsConnected(ch[1]))
        /\ main' = main
        /\ Advance(c)
  /\ UNCHANGED <<phase, running, socket, connected, loop, ancillary, supervisor, requests, faults>>

(* Variant: an unsubscription drops the ancillary channels of its own feeds. *)
AncillaryPerFeed(c, s) ==
  \/ /\ s = Stocks
     /\ ancillary' = (client[c].op = "subscribe")
  \/ /\ s # Stocks
     /\ ancillary' = ancillary

(* _send_ancillary_channel_request of a client's change.  An unsubscription *)
(* leaves out what is streamed on another feed by then.                     *)
AncillaryFrame(c, s) ==
  \/ /\ s = Stocks /\ client[c].op = "subscribe"
     /\ ancillary' = TRUE
  \/ /\ s = Stocks /\ client[c].op # "subscribe" /\ Wanted(s) = {}
     /\ ancillary' = FALSE
  \/ /\ s # Stocks \/ (client[c].op # "subscribe" /\ Wanted(s) # {})
     /\ ancillary' = ancillary

(* The handler goes on: the next channel, or the next upstream of a leave. *)
Continue(c) ==
  \/ client[c].op # "leave" /\ Advance(c)
  \/ /\ client[c].op = "leave"
     /\ client' = [client EXCEPT ![c].at = "leave", ![c].todo = Tail(@)]
     /\ accounted' = accounted

FrameSent(c) ==
  /\ client[c].at = "sent"
  /\ AncillaryFrame(c, Head(client[c].todo)[1])
  /\ Continue(c)
  /\ UNCHANGED <<phase, running, socket, connected, loop, main, index, supervisor, requests, faults>>

-----------------------------------------------------------------------------
(* The end of a client: client_disconnect, one upstream after the other *)

Leaving(c) ==
  client' = [client EXCEPT ![c] = [at |-> "leave", op |-> "leave", done |-> <<>>,
                                   todo |-> [i \in DOMAIN Streams |-> <<Streams[i], "all">>]]]

Disconnect(c) ==
  /\ client[c].at = "idle"
  /\ Leaving(c)
  /\ UNCHANGED <<phase, upstream, index, accounted, supervisor, requests, faults>>

Gone(c) ==
  /\ client' = [client EXCEPT ![c] = [Idle EXCEPT !.at = "gone"]]
  /\ accounted' = [accounted EXCEPT ![c] = {}]

(* remove_client for the upstreams left, up to the first whose change needs *)
(* a frame.                                                                 *)
LeaveUpstreams(c) ==
  LET todo == client[c].todo
      removed(i) == {ch \in Wanted(todo[i][1]) : index[ch] = {c}}
      frames == {i \in DOMAIN todo : removed(i) # {} /\ IsConnected(todo[i][1])}
      upto == IF frames = {} THEN Len(todo) ELSE FirstOf(frames)
      passed == {todo[i][1] : i \in 1 .. upto}
  IN
  /\ client[c].at = "leave"
  /\ index' = [ch \in Channels |-> IF ch[1] \in passed THEN index[ch] \ {c} ELSE index[ch]]
  /\ \/ /\ frames # {}
        /\ main' = main \ removed(upto)
        /\ client' = [client EXCEPT ![c].at = "sent", ![c].todo = SubSeq(todo, upto, Len(todo))]
        /\ accounted' = accounted
     \/ /\ frames = {}
        /\ main' = main
        /\ Gone(c)
  /\ UNCHANGED <<phase, running, socket, connected, loop, ancillary, supervisor, requests, faults>>

(* The send on a lost socket raised, or had ended and finds no socket for   *)
(* the second frame.  An exception ends the handler, except in a rollback,  *)
(* where it is caught; in a leave it skips the upstreams left.              *)
SendFailed(c) ==
  /\ client[c].at = "raised"
  /\ \/ Continue(c)
     \/ client[c].op \in {"subscribe", "unsubscribe"} /\ Leaving(c) /\ accounted' = accounted
     \/ client[c].op = "leave" /\ Gone(c)
  /\ UNCHANGED <<phase, upstream, index, supervisor, requests, faults>>

-----------------------------------------------------------------------------
(* The supervisor, a failed transport, and stop *)

Dormant(s) == ~running[s] /\ ~IsConnected(s) /\ Wanted(s) # {}

(* Variant: the supervisor passes over the upstreams that were not eager. *)
SuperviseEager ==
  LET dormant == {i \in DOMAIN Streams :
                    i > supervisor /\ Dormant(Streams[i]) /\ Streams[i] \in Eager} IN
  /\ phase = "running"
  /\ \/ /\ dormant # {}
        /\ StartTask(Streams[FirstOf(dormant)])
        /\ supervisor' = FirstOf(dormant)
     \/ /\ dormant = {} /\ supervisor # 0
        /\ supervisor' = 0
        /\ UNCHANGED <<running, connected, loop>>
  /\ UNCHANGED <<phase, socket, main, ancillary, index, handlers, requests, faults>>

(* _supervise_once, from where it slept or waited (for the event or for the *)
(* time-out) to the next upstream it has to wait for, or to sleep.          *)
Supervise ==
  LET dormant == {i \in DOMAIN Streams : i > supervisor /\ Dormant(Streams[i])} IN
  /\ phase = "running"
  /\ \/ /\ dormant # {}
        /\ StartTask(Streams[FirstOf(dormant)])
        /\ supervisor' = FirstOf(dormant)
     \/ /\ dormant = {} /\ supervisor # 0
        /\ supervisor' = 0
        /\ UNCHANGED <<running, connected, loop>>
  /\ UNCHANGED <<phase, socket, main, ancillary, index, handlers, requests, faults>>

(* _fail_transport: an event whose durable admission failed. *)
FailTransport(s) ==
  /\ Fault
  /\ phase = "running" /\ IsConnected(s)
  /\ \E t \in Tasks : loop[s][t].at = "receiving"
  /\ phase' = "failed"
  /\ supervisor' = 0
  /\ running' = [u \in Upstreams |-> FALSE]
  /\ CloseSockets(Upstreams)
  /\ UNCHANGED <<loop, index, accounted, requests>>

Stop ==
  /\ phase \in {"running", "failed"}
  /\ \A c \in Clients : client[c].at = "gone"
  /\ phase' = "stopping"
  /\ supervisor' = 0
  /\ running' = [u \in Upstreams |-> FALSE]
  /\ CloseSockets(Upstreams)
  /\ UNCHANGED <<loop, index, accounted, requests, faults>>

(* The tasks still there are cancelled; their sockets stay as they are. *)
Stopped ==
  /\ phase = "stopping"
  /\ phase' = "stopped"
  /\ loop' = [s \in Upstreams |-> [t \in Tasks |-> NoLoop]]
  /\ UNCHANGED <<running, socket, connected, main, ancillary, index, handlers, supervisor,
                 requests, faults>>

-----------------------------------------------------------------------------
LoopStep(s) ==
  \E t \in Tasks : \/ LoopBegins(s, t) \/ DialSucceeds(s, t) \/ AuthSucceeds(s, t)
                   \/ Resubscribed(s, t) \/ ConnectionEnds(s, t) \/ BackoffEnds(s, t)

HandlerStep(c) ==
  \/ EnsureConnected(c) \/ WaitSucceeds(c) \/ WaitTimesOut(c) \/ Unregister(c)
  \/ FrameSent(c) \/ SendFailed(c) \/ LeaveUpstreams(c)

Next ==
  \/ \E s \in Upstreams : LoopStep(s) \/ Lose(s) \/ FailTransport(s)
  \/ \E s \in Upstreams, t \in Tasks : AttemptFails(s, t) \/ AttemptRefused(s, t)
  \/ \E c \in Clients :
       \/ HandlerStep(c) \/ Disconnect(c)
       \/ \E req \in Requests, op \in {"subscribe", "unsubscribe"} : Request(c, op, req)
  \/ Supervise \/ Stop \/ Stopped

Spec == Init /\ [][Next]_vars

(* Tasks that can go on do: the event loop, the provider's answers while    *)
(* no fault is left, and the time-outs.                                     *)
Fairness ==
  /\ \A s \in Upstreams : WF_vars(LoopStep(s))
  /\ \A c \in Clients : WF_vars(HandlerStep(c))
  /\ WF_vars(Supervise)

FairSpec == Spec /\ Fairness

-----------------------------------------------------------------------------
(* Properties *)

(* The types of the variables. *)
TypeOK ==
  /\ phase \in Phases
  /\ running \in [Upstreams -> BOOLEAN]
  /\ socket \in [Upstreams -> {"none", "open", "authenticated", "lost"}]
  /\ connected \in [Upstreams -> BOOLEAN]
  /\ loop \in [Upstreams -> [Tasks -> [at : LoopPlaces, attempt : 0 .. MaxRetries]]]
  /\ index \in [Channels -> SUBSET Clients]
  /\ main \subseteq Channels /\ ancillary \in BOOLEAN
  /\ \A c \in Clients : client[c].at \in {"idle", "subscribe", "waiting", "unsubscribe",
                                          "rollback", "sent", "raised", "leave", "gone"}
  /\ accounted \in [Clients -> SUBSET Channels]
  /\ supervisor \in 0 .. Len(Streams)
  /\ requests \in 0 .. MaxRequests /\ faults \in 0 .. MaxFaults

(* Two tasks never run the connect loop of one upstream, whoever finds it   *)
(* dormant at the same time: subscribers, the supervisor, or a subscriber   *)
(* while the start of the task is still scheduled (stream.py:457-463).      *)
OneLoop ==
  \A s \in Upstreams : Cardinality({t \in Tasks : loop[s][t].at # "none"}) <= 1

(* On an authenticated socket the provider streams exactly the channels of  *)
(* the index, whatever subscriptions, departures and reconnects overlapped. *)
UpstreamMatchesIndex ==
  \A s \in Upstreams : IsConnected(s) => {ch \in main : ch[1] = s} = Wanted(s)

(* Statuses and LULD bands are never missing for a symbol that is streamed, *)
(* once no frame is under way: a partial unsubscription keeps them.  A stop *)
(* may cancel the resubscription of a departed client's symbols.            *)
AncillaryCovers ==
  /\ phase # "stopped"
  /\ IsConnected(Stocks) /\ Wanted(Stocks) # {}
  /\ \A t \in Tasks : loop[Stocks][t].at # "resubscribing"
  /\ Sending({Stocks}) = {}
  => ancillary

(* After a durable admission failed no upstream gets a new connect task,    *)
(* from a subscriber or from the supervisor.  It says no more: a task that  *)
(* was made before it and has not begun, or is dialing, still connects, as  *)
(* _fail_transport closes only the sockets there are.                       *)
FailedStaysDown ==
  [][phase = "failed" =>
       \A s \in Upstreams, t \in Tasks : loop[s][t].at = "none" => loop'[s][t].at = "none"]_vars

(* A wanted upstream that is down comes back, however it went down.         *)
Revived ==
  \A s \in Upstreams :
    (phase = "running" /\ Wanted(s) # {})
      ~> (phase # "running" \/ IsConnected(s) \/ Wanted(s) = {})

(* "Roll back any prior subscriptions for this request" (websocket.py:645): *)
(* what is accounted to an idle connection is still in the index.           *)
AccountedIsSubscribed ==
  \A c \in Clients : client[c].at = "idle" => \A ch \in accounted[c] : c \in index[ch]
=============================================================================
