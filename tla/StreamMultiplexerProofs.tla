----------------------- MODULE StreamMultiplexerProofs -----------------------
(***************************************************************************)
(* Safety of module StreamMultiplexer for any number of clients, upstreams *)
(* and channels.                                                           *)
(***************************************************************************)
EXTENDS StreamMultiplexer, FiniteSetTheorems, WellFoundedInduction, TLAPS

Steps == Channels \union (Upstreams \X {"all"})

ClientPlaces == {"idle", "subscribe", "waiting", "unsubscribe", "rollback", "sent", "raised",
                 "leave", "gone"}

Changes == {"subscribe", "unsubscribe", "rollback"}

Handlers == [at : ClientPlaces, op : Changes \union {"none", "leave"},
             todo : Seq(Steps), done : Seq(Channels)]

(* A handler that is at work has something to do, of the kind of its work. *)
HandlerOK(h) ==
  /\ h \in Handlers
  /\ h.op \in Changes => h.todo \in Seq(Channels)
  /\ h.op = "leave" => h.todo \in Seq(Upstreams \X {"all"})
  /\ h.at \in Changes => h.op = h.at
  /\ h.at = "waiting" => h.op = "subscribe"
  /\ h.at = "leave" => h.op = "leave"
  /\ h.at \in {"sent", "raised"} => h.op \in Changes \union {"leave"}
  /\ h.at \in Changes \union {"waiting", "sent", "raised"} => h.todo # <<>>

ClientsOK ==
  /\ client \in [Clients -> Handlers]
  /\ \A c \in Clients : HandlerOK(client[c])
  /\ accounted \in [Clients -> SUBSET Channels]

-----------------------------------------------------------------------------
NatLess == {p \in Nat \X Nat : p[1] < p[2]}

(* The order of the natural numbers is well founded. *)
LEMMA NatLessWellFounded == IsWellFoundedOn(NatLess, Nat)
BY NatLessThanWellFounded DEF OpToRel, NatLess

(* A set of positions has a first one. *)
LEMMA FirstIsFirst ==
  ASSUME NEW S \in SUBSET Nat, S # {}
  PROVE  FirstOf(S) \in S /\ \A i \in S : FirstOf(S) <= i
<1>1. PICK n \in S : \A k \in S : ~ (<<k, n>> \in NatLess)
  BY NatLessWellFounded, WFMin
<1>2. \A k \in S : n <= k
  <2>1. SUFFICES ASSUME NEW k \in S PROVE n <= k
    OBVIOUS
  <2>2. ~ (<<k, n>> \in NatLess) /\ k \in Nat /\ n \in Nat
    BY <1>1
  <2> QED BY <2>2 DEF NatLess
<1> QED BY <1>2 DEF FirstOf

(* The steps of a handler keep it well formed. *)
LEMMA ForgottenOK ==
  ASSUME ClientsOK, NEW S, ForgottenUpstream(S), UNCHANGED accounted
  PROVE  ClientsOK' /\ \A c \in Clients : client[c].at = "gone" => client'[c].at = "gone"
<1> SUFFICES \A c \in Clients : /\ HandlerOK(client'[c])
                                /\ client[c].at = "gone" => client'[c].at = "gone"
  BY DEF ClientsOK, HandlerOK, ForgottenUpstream
<1> TAKE c \in Clients
<1>1. CASE c \in Sending(S)
  <2>1. client'[c] = [client[c] EXCEPT !.at = "raised"] /\ client[c].at = "sent"
    BY <1>1 DEF ForgottenUpstream, Sending
  <2> QED BY <2>1 DEF ClientsOK, HandlerOK, Handlers, ClientPlaces, Changes
<1>2. CASE c \notin Sending(S)
  BY <1>2 DEF ClientsOK, ForgottenUpstream
<1> QED BY <1>1, <1>2

LEMMA HandlerSet ==
  ASSUME ClientsOK, NEW c \in Clients, NEW h, HandlerOK(h),
         client' = [client EXCEPT ![c] = h], accounted' \in [Clients -> SUBSET Channels]
  PROVE  ClientsOK'
BY DEF ClientsOK, HandlerOK

LEMMA AdvanceOK ==
  ASSUME ClientsOK, NEW c \in Clients, client[c].op \in Changes, client[c].todo # <<>>, Advance(c)
  PROVE  ClientsOK'
<1> DEFINE h == client[c]
           ended == Append(h.done, Head(h.todo))
           left == Tail(h.todo)
<1>1. /\ h.todo \in Seq(Channels) /\ h.done \in Seq(Channels) /\ h \in Handlers
      /\ ended \in Seq(Channels) /\ left \in Seq(Channels)
      /\ \A i \in DOMAIN ended : ended[i] \in Channels
  BY DEF ClientsOK, HandlerOK, Handlers
<1>2. Seq(Channels) \subseteq Seq(Steps)
  BY DEF Steps
<1>3. CASE left # <<>>
  <2>1. client' = [client EXCEPT ![c] = [h EXCEPT !.at = h.op, !.todo = left, !.done = ended]]
    BY <1>3 DEF Advance
  <2>2. UNCHANGED accounted
    BY <1>3 DEF Advance
  <2> HIDE DEF left, ended
  <2>3. HandlerOK([h EXCEPT !.at = h.op, !.todo = left, !.done = ended])
    BY <1>1, <1>2, <1>3 DEF HandlerOK, Handlers, ClientPlaces, Changes
  <2> QED BY <2>1, <2>2, <2>3 DEF ClientsOK, HandlerOK
<1>4. CASE left = <<>>
  <2>1. client' = [client EXCEPT ![c] = Idle]
    BY <1>4 DEF Advance
  <2>2. HandlerOK(Idle)
    BY DEF HandlerOK, Handlers, Idle, ClientPlaces, Changes
  <2>3. accounted' \in [Clients -> SUBSET Channels]
    <3>1. {ended[i] : i \in DOMAIN ended} \subseteq Channels
      BY <1>1
    <3>2. accounted' = [accounted EXCEPT ![c] =
            CASE h.op = "subscribe" -> @ \union {ended[i] : i \in DOMAIN ended}
              [] h.op = "unsubscribe" -> @ \ {ended[i] : i \in DOMAIN ended}
              [] OTHER -> @]
      BY <1>4 DEF Advance
    <3> HIDE DEF ended
    <3> QED BY <3>1, <3>2 DEF ClientsOK
  <2> QED BY <2>1, <2>2, <2>3 DEF ClientsOK, HandlerOK
<1> QED BY <1>3, <1>4

LEMMA RefuseOK ==
  ASSUME ClientsOK, NEW c \in Clients, Refuse(c), UNCHANGED accounted
  PROVE  ClientsOK'
<1>1. Seq(Channels) \subseteq Seq(Steps)
  BY DEF Steps
<1>2. HandlerOK(Idle)
  BY DEF HandlerOK, Handlers, Idle, ClientPlaces, Changes
<1>3. client[c].done # <<>> =>
        HandlerOK([at |-> "rollback", op |-> "rollback", todo |-> client[c].done, done |-> <<>>])
  BY <1>1 DEF HandlerOK, Handlers, ClientPlaces, Changes, ClientsOK
<1> QED BY <1>2, <1>3 DEF Refuse, ClientsOK, HandlerOK

LEMMA LeavingOK ==
  ASSUME ClientsOK, NEW c \in Clients, Leaving(c), UNCHANGED accounted
  PROVE  ClientsOK'
<1> DEFINE todo == [i \in DOMAIN Streams |-> <<Streams[i], "all">>]
<1>1. todo \in Seq(Upstreams \X {"all"}) /\ todo \in Seq(Steps)
  <2>1. DOMAIN Streams = 1 .. Len(Streams) /\ Len(Streams) \in Nat
    BY StreamAssumption
  <2>2. \A i \in DOMAIN Streams : todo[i] \in Upstreams \X {"all"}
    BY DEF Upstreams
  <2>3. todo \in Seq(Upstreams \X {"all"})
    BY <2>1, <2>2
  <2> QED BY <2>3 DEF Steps
<1> HIDE DEF todo
<1>2. HandlerOK([at |-> "leave", op |-> "leave", done |-> <<>>, todo |-> todo])
  BY <1>1 DEF HandlerOK, Handlers, ClientPlaces, Changes
<1>3. client' = [client EXCEPT ![c] = [at |-> "leave", op |-> "leave", done |-> <<>>,
                                        todo |-> todo]]
  BY DEF Leaving, todo
<1>4. accounted' \in [Clients -> SUBSET Channels]
  BY DEF ClientsOK
<1> QED BY <1>2, <1>3, <1>4, HandlerSet

LEMMA GoneOK ==
  ASSUME ClientsOK, NEW c \in Clients, Gone(c)
  PROVE  ClientsOK'
<1> DEFINE h == [at |-> "gone", op |-> "none", todo |-> <<>>, done |-> <<>>]
<1>1. HandlerOK(h)
  BY DEF HandlerOK, Handlers, ClientPlaces, Changes
<1>2. accounted' \in [Clients -> SUBSET Channels]
  BY DEF ClientsOK, Gone
<1>3. client' = [client EXCEPT ![c] = h]
  <2>1. [Idle EXCEPT !.at = "gone"] = h
    BY DEF Idle
  <2> HIDE DEF h
  <2> QED BY <2>1 DEF Gone
<1> HIDE DEF h
<1> QED BY <1>1, <1>2, <1>3, HandlerSet

-----------------------------------------------------------------------------
(* Types *)

TypesOK == TypeOK /\ ClientsOK

LEMMA InitTypes == Init => TypesOK
<1> SUFFICES ASSUME Init PROVE TypesOK
  OBVIOUS
<1>1. ClientsOK
  BY DEF Init, ClientsOK, HandlerOK, Handlers, Idle, ClientPlaces, Changes
<1>2. loop \in [Upstreams -> [Tasks -> [at : LoopPlaces, attempt : 0 .. MaxRetries]]]
  BY StreamAssumption DEF Init, NoLoop, LoopPlaces
<1>3. Len(Streams) \in Nat
  BY StreamAssumption
<1>4. \A c \in Clients : client[c].at = "idle"
  BY DEF Init, Idle
<1>5. /\ running \in [Upstreams -> BOOLEAN] /\ connected \in [Upstreams -> BOOLEAN]
      /\ socket \in [Upstreams -> {"none", "open", "authenticated", "lost"}]
      /\ index \in [Channels -> SUBSET Clients]
      /\ accounted \in [Clients -> SUBSET Channels]
  BY DEF Init
<1>6. /\ phase = "running" /\ main = {} /\ ancillary = FALSE /\ supervisor = 0
      /\ requests = 0 /\ faults = 0
  BY DEF Init
<1>7. 0 \in 0 .. Len(Streams) /\ 0 \in 0 .. MaxRequests /\ 0 \in 0 .. MaxFaults
  BY <1>3, StreamAssumption
<1>8. TypeOK
  BY <1>2, <1>4, <1>5, <1>6, <1>7 DEF TypeOK, Phases
<1> QED BY <1>1, <1>8 DEF TypesOK

(* What an action has to say of the variables it changes. *)
LEMMA SetLoopType ==
  ASSUME TypesOK, NEW s \in Upstreams, NEW t \in Tasks, NEW at \in LoopPlaces,
         NEW n \in 0 .. MaxRetries, SetLoop(s, t, at, n)
  PROVE  /\ loop' \in [Upstreams -> [Tasks -> [at : LoopPlaces, attempt : 0 .. MaxRetries]]]
         /\ loop'[s][t] = [at |-> at, attempt |-> n]
         /\ \A u \in Tasks : u # t => loop'[s][u] = loop[s][u]
         /\ \A r \in Upstreams : r # s => loop'[r] = loop[r]
BY DEF TypesOK, TypeOK, SetLoop

LEMMA PlacesOf ==
  ClientsOK => \A c \in Clients : client[c].at \in {"idle", "subscribe", "waiting", "unsubscribe",
                                                    "rollback", "sent", "raised", "leave", "gone"}
BY DEF ClientsOK, HandlerOK, Handlers, ClientPlaces

LEMMA CloseTypes ==
  ASSUME TypesOK, NEW S \in SUBSET Upstreams, CloseSockets(S), UNCHANGED accounted
  PROVE  /\ socket' \in [Upstreams -> {"none", "open", "authenticated", "lost"}]
         /\ connected' \in [Upstreams -> BOOLEAN]
         /\ main' \subseteq Channels /\ ancillary' \in BOOLEAN
         /\ ClientsOK'
<1>1. ClientsOK'
  BY ForgottenOK DEF CloseSockets, TypesOK
<1> QED BY <1>1 DEF CloseSockets, ForgottenUpstream, TypesOK, TypeOK

LoopsType == [Upstreams -> [Tasks -> [at : LoopPlaces, attempt : 0 .. MaxRetries]]]

LEMMA GiveUpTypes ==
  ASSUME TypesOK, NEW s \in Upstreams, NEW t \in Tasks, GiveUpOrRetry(s, t),
         faults' \in 0 .. MaxFaults
  PROVE  TypesOK'
<1> DEFINE n == loop[s][t].attempt + 1
<1>0. n \in Nat /\ 0 \in 0 .. MaxRetries /\ (n <= MaxRetries => n \in 0 .. MaxRetries)
  BY StreamAssumption DEF TypesOK, TypeOK
<1>1. CloseSockets({s}) /\ UNCHANGED <<phase, index, accounted, supervisor, requests>>
  BY DEF GiveUpOrRetry
<1>2. /\ socket' \in [Upstreams -> {"none", "open", "authenticated", "lost"}]
      /\ connected' \in [Upstreams -> BOOLEAN]
      /\ main' \subseteq Channels /\ ancillary' \in BOOLEAN
      /\ ClientsOK'
  BY <1>1, CloseTypes
<1>3. loop' \in LoopsType /\ running' \in [Upstreams -> BOOLEAN]
  <2>1. running \in [Upstreams -> BOOLEAN]
    BY DEF TypesOK, TypeOK
  <2>2. CASE SetLoop(s, t, "none", 0) /\ (running' = running \/ running' = [running EXCEPT ![s] = FALSE])
    BY <1>0, <2>1, <2>2, SetLoopType DEF LoopPlaces, LoopsType
  <2>3. CASE n <= MaxRetries /\ SetLoop(s, t, "sleeping", n) /\ running' = running
    BY <1>0, <2>1, <2>3, SetLoopType DEF LoopPlaces, LoopsType
  <2> QED BY <2>2, <2>3 DEF GiveUpOrRetry
<1> QED BY <1>1, <1>2, <1>3, PlacesOf DEF TypesOK, TypeOK, LoopsType, ClientsOK, HandlerOK, Handlers, ClientPlaces

LEMMA LoopTypes ==
  ASSUME TypesOK, NEW s \in Upstreams, NEW t \in Tasks,
         \/ LoopBegins(s, t) \/ DialSucceeds(s, t) \/ AuthSucceeds(s, t) \/ Resubscribed(s, t)
         \/ AttemptFails(s, t) \/ AttemptRefused(s, t) \/ ConnectionEnds(s, t)
         \/ BackoffEnds(s, t)
  PROVE  TypesOK'
<1> DEFINE n == loop[s][t].attempt
<1>0. /\ {s} \in SUBSET Upstreams
      /\ n \in 0 .. MaxRetries /\ 0 \in 0 .. MaxRetries
  BY StreamAssumption DEF TypesOK, TypeOK
<1> HIDE DEF n
<1>1. CASE LoopBegins(s, t)
  <2>1. UNCHANGED accounted /\ CloseSockets({s})
    BY <1>1 DEF LoopBegins
  <2>2. loop' \in LoopsType
    BY <1>0, <1>1, SetLoopType DEF LoopBegins, LoopPlaces, LoopsType
  <2>3. ClientsOK'
    BY <1>0, <2>1, CloseTypes
  <2>4. \A c \in Clients : client'[c].at \in ClientPlaces
    BY <2>3 DEF ClientsOK, HandlerOK, Handlers
  <2> QED BY <1>0, <1>1, <2>1, <2>2, <2>3, <2>4, CloseTypes DEF LoopBegins, TypesOK, TypeOK, ClientPlaces, LoopsType
<1>2. CASE DialSucceeds(s, t)
  <2>1. loop' \in LoopsType
    BY <1>0, <1>2, SetLoopType DEF DialSucceeds, LoopPlaces, LoopsType, n
  <2> QED BY <1>2, <2>1 DEF DialSucceeds, TypesOK, TypeOK, LoopsType, handlers, ClientsOK
<1>3. CASE AuthSucceeds(s, t)
  <2>1. loop' \in LoopsType
    <3>1. CASE SetLoop(s, t, "resubscribing", n)
      BY <1>0, <3>1, SetLoopType DEF LoopPlaces, LoopsType
    <3>2. CASE SetLoop(s, t, "receiving", 0)
      BY <1>0, <3>2, SetLoopType DEF LoopPlaces, LoopsType
    <3> QED BY <1>3, <3>1, <3>2 DEF AuthSucceeds, n
  <2>2. main' \subseteq Channels
    BY <1>3 DEF AuthSucceeds, Wanted, TypesOK, TypeOK
  <2> QED BY <1>3, <2>1, <2>2 DEF AuthSucceeds, TypesOK, TypeOK, LoopsType, handlers, ClientsOK
<1>4. CASE Resubscribed(s, t)
  <2>1. loop' \in LoopsType
    BY <1>0, <1>4, SetLoopType DEF Resubscribed, LoopPlaces, LoopsType
  <2> QED BY <1>4, <2>1 DEF Resubscribed, TypesOK, TypeOK, LoopsType, handlers, ClientsOK
<1>5. CASE AttemptFails(s, t)
  <2>1. faults' \in 0 .. MaxFaults /\ GiveUpOrRetry(s, t)
    BY <1>5, StreamAssumption DEF AttemptFails, Fault, TypesOK, TypeOK
  <2> QED BY <2>1, GiveUpTypes
<1>6. CASE AttemptRefused(s, t)
  <2>1. UNCHANGED accounted /\ CloseSockets({s})
    BY <1>6 DEF AttemptRefused
  <2>2. loop' \in LoopsType
    BY <1>0, <1>6, SetLoopType DEF AttemptRefused, LoopPlaces, LoopsType
  <2>3. ClientsOK'
    BY <1>0, <2>1, CloseTypes
  <2>4. \A c \in Clients : client'[c].at \in ClientPlaces
    BY <2>3 DEF ClientsOK, HandlerOK, Handlers
  <2>5. faults' \in 0 .. MaxFaults
    BY <1>6, StreamAssumption DEF AttemptRefused, Fault, TypesOK, TypeOK
  <2> QED BY <1>0, <1>6, <2>1, <2>2, <2>3, <2>4, <2>5, CloseTypes DEF AttemptRefused, TypesOK, TypeOK, ClientPlaces, LoopsType
<1>7. CASE ConnectionEnds(s, t)
  <2>1. faults' \in 0 .. MaxFaults /\ GiveUpOrRetry(s, t)
    BY <1>7 DEF ConnectionEnds, TypesOK, TypeOK
  <2> QED BY <2>1, GiveUpTypes
<1>8. CASE BackoffEnds(s, t)
  <2>1. loop' \in LoopsType
    <3>1. CASE SetLoop(s, t, "dialing", n)
      BY <1>0, <3>1, SetLoopType DEF LoopPlaces, LoopsType
    <3>2. CASE SetLoop(s, t, "none", n)
      BY <1>0, <3>2, SetLoopType DEF LoopPlaces, LoopsType
    <3> QED BY <1>8, <3>1, <3>2 DEF BackoffEnds, n
  <2> QED BY <1>8, <2>1 DEF BackoffEnds, TypesOK, TypeOK, LoopsType, handlers, ClientsOK
<1> QED BY <1>1, <1>2, <1>3, <1>4, <1>5, <1>6, <1>7, <1>8

LEMMA StartTypes ==
  ASSUME TypesOK, NEW s \in Upstreams, StartTask(s)
  PROVE  /\ running' \in [Upstreams -> BOOLEAN] /\ connected' \in [Upstreams -> BOOLEAN]
         /\ loop' \in LoopsType
<1>1. PICK t \in Tasks : SetLoop(s, t, "scheduled", 0)
  BY DEF StartTask
<1>2. 0 \in 0 .. MaxRetries
  BY StreamAssumption
<1>3. loop' \in LoopsType
  BY <1>1, <1>2, SetLoopType DEF LoopPlaces, LoopsType
<1> QED BY <1>3 DEF StartTask, TypesOK, TypeOK

LEMMA HeadOf ==
  ASSUME ClientsOK, NEW c \in Clients, client[c].op \in Changes, client[c].todo # <<>>
  PROVE  Head(client[c].todo) \in Channels /\ Head(client[c].todo)[1] \in Upstreams
<1>1. client[c].todo \in Seq(Channels)
  BY DEF ClientsOK, HandlerOK
<1>2. Head(client[c].todo) \in Channels
  BY <1>1
<1> QED BY <1>2, StreamAssumption

(* A handler inside a send keeps what it was doing. *)
LEMMA SentOK ==
  ASSUME ClientsOK, NEW c \in Clients, client[c].op \in Changes \union {"leave"},
         client[c].todo # <<>>, Place(c, "sent"), UNCHANGED accounted
  PROVE  ClientsOK'
<1> DEFINE h == [client[c] EXCEPT !.at = "sent"]
<1>1. HandlerOK(h)
  BY DEF ClientsOK, HandlerOK, Handlers, ClientPlaces, Changes
<1>2. client' = [client EXCEPT ![c] = h]
  BY DEF Place
<1>3. accounted' \in [Clients -> SUBSET Channels]
  BY DEF ClientsOK
<1> HIDE DEF h
<1> QED BY <1>1, <1>2, <1>3, HandlerSet

LEMMA RegisterTypes ==
  ASSUME TypesOK, NEW c \in Clients, client[c].at \in {"subscribe", "waiting"}, Register(c)
  PROVE  index' \in [Channels -> SUBSET Clients] /\ main' \subseteq Channels /\ ClientsOK'
<1> DEFINE ch == Head(client[c].todo)
<1>1. client[c].op \in Changes /\ client[c].todo # <<>>
  BY DEF TypesOK, ClientsOK, HandlerOK, Changes
<1>2. ch \in Channels
  BY <1>1, HeadOf DEF TypesOK
<1>3. ClientsOK'
  <2>1. CASE Place(c, "sent") /\ accounted' = accounted
    BY <1>1, <2>1, SentOK DEF TypesOK
  <2>2. CASE Advance(c)
    BY <1>1, <2>2, AdvanceOK DEF TypesOK
  <2> QED BY <2>1, <2>2 DEF Register
<1> HIDE DEF ch
<1>4. main' = main \union {ch} \/ main' = main
  BY DEF Register, ch
<1>5. index' = [index EXCEPT ![ch] = @ \union {c}]
  BY DEF Register, ch
<1> QED BY <1>2, <1>3, <1>4, <1>5 DEF TypesOK, TypeOK

LEMMA EnsureTypes ==
  ASSUME TypesOK, NEW c \in Clients, EnsureConnected(c)
  PROVE  TypesOK'
<1> DEFINE s == Head(client[c].todo)[1]
<1>1. client[c].at = "subscribe" /\ client[c].op \in Changes /\ client[c].todo # <<>>
  BY DEF EnsureConnected, TypesOK, ClientsOK, HandlerOK, Changes
<1>2. s \in Upstreams
  BY <1>1, HeadOf DEF TypesOK
<1>3. /\ UNCHANGED <<phase, socket, ancillary, supervisor, requests, faults>>
  BY DEF EnsureConnected
<1>4. CASE Refuse(c) /\ UNCHANGED <<running, connected, loop, main, index, accounted>>
  <2>1. ClientsOK'
    BY <1>4, RefuseOK DEF TypesOK
  <2> QED BY <1>3, <1>4, <2>1, PlacesOf DEF TypesOK, TypeOK, ClientsOK, HandlerOK, Handlers, ClientPlaces
<1>5. CASE Register(c) /\ UNCHANGED <<running, connected, loop>>
  <2>1. /\ index' \in [Channels -> SUBSET Clients] /\ main' \subseteq Channels /\ ClientsOK'
    BY <1>1, <1>5, RegisterTypes
  <2> QED BY <1>3, <1>5, <2>1 DEF TypesOK, TypeOK, ClientsOK, HandlerOK, Handlers, ClientPlaces
<1>6. CASE StartIfDormant(s) /\ Place(c, "waiting") /\ UNCHANGED <<main, index, accounted>>
  <2>1. /\ running' \in [Upstreams -> BOOLEAN] /\ connected' \in [Upstreams -> BOOLEAN]
        /\ loop' \in LoopsType
    <3>1. CASE UNCHANGED <<running, connected, loop>>
      BY <3>1 DEF TypesOK, TypeOK, LoopsType
    <3>2. CASE StartTask(s)
      BY <1>2, <3>2, StartTypes
    <3> QED BY <1>6, <3>1, <3>2 DEF StartIfDormant
  <2>2. ClientsOK'
    <3> DEFINE h == [client[c] EXCEPT !.at = "waiting"]
    <3>1. HandlerOK(h)
      BY <1>1 DEF TypesOK, ClientsOK, HandlerOK, Handlers, ClientPlaces, Changes
    <3>2. client' = [client EXCEPT ![c] = h]
      BY <1>6 DEF Place
    <3>3. accounted' \in [Clients -> SUBSET Channels]
      BY <1>6 DEF TypesOK, ClientsOK
    <3> HIDE DEF h
    <3> QED BY <3>1, <3>2, <3>3, HandlerSet DEF TypesOK
  <2> QED BY <1>3, <1>6, <2>1, <2>2 DEF TypesOK, TypeOK, ClientsOK, HandlerOK, Handlers, ClientPlaces, LoopsType
<1> QED BY <1>4, <1>5, <1>6 DEF EnsureConnected

LEMMA UnregisterTypes ==
  ASSUME TypesOK, NEW c \in Clients, Unregister(c)
  PROVE  TypesOK'
<1> DEFINE ch == Head(client[c].todo)
<1>1. client[c].op \in Changes /\ client[c].todo # <<>>
  BY DEF Unregister, TypesOK, ClientsOK, HandlerOK, Changes
<1>2. ch \in Channels
  BY <1>1, HeadOf DEF TypesOK
<1>3. ClientsOK'
  <2>1. CASE Place(c, "sent") /\ accounted' = accounted
    BY <1>1, <2>1, SentOK DEF TypesOK
  <2>2. CASE Advance(c)
    BY <1>1, <2>2, AdvanceOK DEF TypesOK
  <2> QED BY <2>1, <2>2 DEF Unregister
<1> HIDE DEF ch
<1>4. main' = main \ {ch} \/ main' = main
  BY DEF Unregister, ch
<1>5. index' = [index EXCEPT ![ch] = @ \ {c}]
  BY DEF Unregister, ch
<1>6. UNCHANGED <<phase, running, socket, connected, loop, ancillary, supervisor, requests, faults>>
  BY DEF Unregister
<1> QED BY <1>2, <1>3, <1>4, <1>5, <1>6 DEF TypesOK, TypeOK, ClientsOK, HandlerOK, Handlers, ClientPlaces

LEMMA ContinueOK ==
  ASSUME ClientsOK, NEW c \in Clients, client[c].at \in {"sent", "raised"}, Continue(c)
  PROVE  ClientsOK'
<1>1. client[c].op \in Changes \union {"leave"} /\ client[c].todo # <<>>
  BY DEF ClientsOK, HandlerOK, Changes
<1>2. CASE client[c].op # "leave"
  BY <1>1, <1>2, AdvanceOK DEF Continue
<1>3. CASE client[c].op = "leave"
  <2> DEFINE h == [client[c] EXCEPT !.at = "leave", !.todo = Tail(@)]
  <2>1. client[c].todo \in Seq(Upstreams \X {"all"}) /\ client[c] \in Handlers
    BY <1>3 DEF ClientsOK, HandlerOK
  <2>2. Tail(client[c].todo) \in Seq(Upstreams \X {"all"})
    BY <1>1, <2>1
  <2>3. Tail(client[c].todo) \in Seq(Steps)
    BY <2>2 DEF Steps
  <2>4. HandlerOK(h)
    BY <1>3, <2>1, <2>2, <2>3 DEF HandlerOK, Handlers, ClientPlaces, Changes
  <2>5. client' = [client EXCEPT ![c] = h] /\ accounted' = accounted
    BY <1>3 DEF Continue
  <2>6. accounted' \in [Clients -> SUBSET Channels]
    BY <2>5 DEF ClientsOK
  <2> HIDE DEF h
  <2> QED BY <2>4, <2>5, <2>6, HandlerSet
<1> QED BY <1>2, <1>3

(* What the client would take from the provider by leaving upstream u.      *)
LastOf(c, u) == {ch \in Wanted(u) : index[ch] = {c}}

(* A leave passes the upstreams of todo up to upto, the last of them, or    *)
(* the first that needs a frame.                                            *)
Leaves(c, todo, upto) ==
  /\ client[c].op = "leave" /\ client[c].at = "leave" /\ todo = client[c].todo
  /\ upto <= Len(todo)
  /\ index' = [ch \in Channels |-> IF \E i \in 1 .. upto : ch[1] = todo[i][1]
                                   THEN index[ch] \ {c} ELSE index[ch]]
  /\ UNCHANGED <<phase, running, socket, connected, loop, ancillary, supervisor, requests, faults>>
  /\ \/ /\ 1 <= upto
        /\ client' = [client EXCEPT ![c].at = "sent", ![c].todo = SubSeq(todo, upto, Len(todo))]
        /\ accounted' = accounted
        /\ main' = main \ LastOf(c, todo[upto][1])
        /\ \A i \in 1 .. upto - 1 : ~IsConnected(todo[i][1]) \/ LastOf(c, todo[i][1]) = {}
     \/ /\ main' = main
        /\ Gone(c)
        /\ \A i \in 1 .. upto : ~IsConnected(todo[i][1]) \/ LastOf(c, todo[i][1]) = {}

LEMMA LeaveParts ==
  ASSUME TypesOK, NEW c \in Clients, LeaveUpstreams(c)
  PROVE  \E todo \in Seq(Upstreams \X {"all"}), upto \in Nat : Leaves(c, todo, upto)
<1> DEFINE todo == client[c].todo
           removed(i) == LastOf(c, todo[i][1])
           frames == {i \in DOMAIN todo : removed(i) # {} /\ IsConnected(todo[i][1])}
           upto == IF frames = {} THEN Len(todo) ELSE FirstOf(frames)
<1>1. client[c].op = "leave" /\ client[c].at = "leave" /\ todo \in Seq(Upstreams \X {"all"})
  BY DEF LeaveUpstreams, TypesOK, ClientsOK, HandlerOK
<1>2. frames \in SUBSET Nat /\ DOMAIN todo = 1 .. Len(todo) /\ Len(todo) \in Nat
  BY <1>1
<1>3. frames # {} => FirstOf(frames) \in frames /\ \A i \in frames : FirstOf(frames) <= i
  BY <1>2, FirstIsFirst
<1>a. \A i \in frames : i \in 1 .. Len(todo)
  BY <1>2
<1>b. \A i \in 1 .. Len(todo) : i \in frames \/ ~IsConnected(todo[i][1]) \/ removed(i) = {}
  BY <1>2
<1>c. /\ frames = {} => upto = Len(todo)
      /\ frames # {} => upto = FirstOf(frames)
  OBVIOUS
<1>4. upto \in Nat /\ upto <= Len(todo)
  <2> HIDE DEF todo, frames, upto
  <2>1. CASE frames = {}
    BY <1>2, <1>c, <2>1
  <2>2. CASE frames # {}
    <3>1. FirstOf(frames) \in 1 .. Len(todo)
      BY <1>3, <1>a, <2>2
    <3>2. upto = FirstOf(frames)
      BY <1>c, <2>2
    <3> QED BY <1>2, <3>1, <3>2
  <2> QED BY <2>1, <2>2
<1>5. index' = [ch \in Channels |-> IF ch[1] \in {todo[i][1] : i \in 1 .. upto}
                                    THEN index[ch] \ {c} ELSE index[ch]]
  BY DEF LeaveUpstreams, LastOf
<1>6. index' = [ch \in Channels |-> IF \E i \in 1 .. upto : ch[1] = todo[i][1]
                                    THEN index[ch] \ {c} ELSE index[ch]]
  BY <1>5
<1>7. UNCHANGED <<phase, running, socket, connected, loop, ancillary, supervisor, requests, faults>>
  BY DEF LeaveUpstreams
<1>8. CASE frames # {}
  <2>1. /\ main' = main \ removed(upto)
        /\ client' = [client EXCEPT ![c].at = "sent", ![c].todo = SubSeq(todo, upto, Len(todo))]
        /\ accounted' = accounted
    BY <1>8 DEF LeaveUpstreams, LastOf
  <2>2. 1 <= upto /\ \A i \in 1 .. upto - 1 : i \notin frames
    <3> HIDE DEF todo, frames, upto
    <3>1. upto \in frames /\ upto \in 1 .. Len(todo) /\ \A i \in frames : upto <= i
      BY <1>3, <1>8, <1>a, <1>c
    <3> QED BY <1>2, <1>4, <3>1
  <2> HIDE DEF todo, upto, frames, removed
  <2>3. \A i \in 1 .. upto - 1 : ~IsConnected(todo[i][1]) \/ removed(i) = {}
    BY <1>2, <1>4, <1>b, <2>2
  <2> QED BY <1>1, <1>4, <1>6, <1>7, <2>1, <2>2, <2>3 DEF todo, removed, Leaves
<1>9. CASE frames = {}
  <2>1. main' = main /\ Gone(c) /\ upto = Len(todo)
    BY <1>9 DEF LeaveUpstreams, LastOf
  <2>2. \A i \in 1 .. upto : ~IsConnected(todo[i][1]) \/ removed(i) = {}
    BY <1>2, <1>9
  <2> HIDE DEF todo, upto, removed
  <2> QED BY <1>1, <1>4, <1>6, <1>7, <2>1, <2>2 DEF todo, removed, Leaves
<1> QED BY <1>8, <1>9

LEMMA LeaveTypes ==
  ASSUME TypesOK, NEW c \in Clients, LeaveUpstreams(c)
  PROVE  TypesOK'
<1>1. PICK todo \in Seq(Upstreams \X {"all"}), upto \in Nat : Leaves(c, todo, upto)
  BY LeaveParts
<1>2. index' \in [Channels -> SUBSET Clients] /\ main' \subseteq Channels
  BY <1>1 DEF Leaves, TypesOK, TypeOK
<1>3. ClientsOK'
  <2>1. CASE Gone(c)
    BY <2>1, GoneOK DEF TypesOK
  <2>2. CASE /\ 1 <= upto
             /\ client' = [client EXCEPT ![c].at = "sent",
                                         ![c].todo = SubSeq(todo, upto, Len(todo))]
             /\ accounted' = accounted
    <3> DEFINE rest == SubSeq(todo, upto, Len(todo))
               h == [client[c] EXCEPT !.at = "sent", !.todo = rest]
    <3>1. rest \in Seq(Upstreams \X {"all"}) /\ Len(rest) = Len(todo) - upto + 1
      BY <1>1, <2>2 DEF Leaves
    <3>2. rest # <<>> /\ rest \in Seq(Steps)
      <4>1. Len(todo) \in Nat
        OBVIOUS
      <4> HIDE DEF rest
      <4> QED BY <1>1, <3>1, <4>1 DEF Leaves, Steps
    <3> HIDE DEF rest
    <3>3. HandlerOK(h)
      BY <1>1, <3>1, <3>2 DEF Leaves, TypesOK, ClientsOK, HandlerOK, Handlers, ClientPlaces, Changes
    <3>4. client' = [client EXCEPT ![c] = h]
      BY <2>2 DEF rest
    <3>5. accounted' \in [Clients -> SUBSET Channels]
      BY <2>2 DEF TypesOK, ClientsOK
    <3> HIDE DEF h
    <3> QED BY <3>3, <3>4, <3>5, HandlerSet DEF TypesOK
  <2> QED BY <1>1, <2>1, <2>2 DEF Leaves
<1> QED BY <1>1, <1>2, <1>3 DEF Leaves, TypesOK, TypeOK, ClientsOK, HandlerOK, Handlers, ClientPlaces

LEMMA HandlerTypes ==
  ASSUME TypesOK, NEW c \in Clients, HandlerStep(c)
  PROVE  TypesOK'
<1>1. CASE EnsureConnected(c)
  BY <1>1, EnsureTypes
<1>2. CASE WaitSucceeds(c)
  <2>1. CASE Register(c)
    <3>1. index' \in [Channels -> SUBSET Clients] /\ main' \subseteq Channels /\ ClientsOK'
      BY <1>2, <2>1, RegisterTypes DEF WaitSucceeds
    <3> QED BY <1>2, <3>1 DEF WaitSucceeds, TypesOK, TypeOK, ClientsOK, HandlerOK, Handlers, ClientPlaces
  <2>2. CASE Refuse(c) /\ UNCHANGED <<main, index, accounted>>
    <3>1. ClientsOK'
      BY <2>2, RefuseOK DEF TypesOK
    <3> QED BY <1>2, <2>2, <3>1 DEF WaitSucceeds, TypesOK, TypeOK, ClientsOK, HandlerOK, Handlers, ClientPlaces
  <2> QED BY <1>2, <2>1, <2>2 DEF WaitSucceeds
<1>3. CASE WaitTimesOut(c)
  <2>1. ClientsOK'
    BY <1>3, RefuseOK DEF WaitTimesOut, TypesOK
  <2> QED BY <1>3, <2>1 DEF WaitTimesOut, upstream, TypesOK, TypeOK, ClientsOK, HandlerOK, Handlers, ClientPlaces
<1>4. CASE Unregister(c)
  BY <1>4, UnregisterTypes
<1>5. CASE FrameSent(c)
  <2>1. ClientsOK'
    BY <1>5, ContinueOK DEF FrameSent, TypesOK
  <2>2. ancillary' \in BOOLEAN
    BY <1>5 DEF FrameSent, AncillaryFrame, TypesOK, TypeOK
  <2>3. UNCHANGED <<phase, running, socket, connected, loop, main, index, supervisor, requests, faults>>
    BY <1>5 DEF FrameSent
  <2> QED BY <2>1, <2>2, <2>3 DEF TypesOK, TypeOK, ClientsOK, HandlerOK, Handlers, ClientPlaces
<1>6. CASE SendFailed(c)
  <2>1. ClientsOK'
    <3>1. CASE Continue(c)
      BY <1>6, <3>1, ContinueOK DEF SendFailed, TypesOK
    <3>2. CASE Leaving(c) /\ accounted' = accounted
      BY <3>2, LeavingOK DEF TypesOK
    <3>3. CASE Gone(c)
      BY <3>3, GoneOK DEF TypesOK
    <3> QED BY <1>6, <3>1, <3>2, <3>3 DEF SendFailed
  <2>2. UNCHANGED <<phase, upstream, index, supervisor, requests, faults>>
    BY <1>6 DEF SendFailed
  <2> QED BY <2>1, <2>2 DEF upstream, TypesOK, TypeOK, ClientsOK, HandlerOK, Handlers, ClientPlaces
<1>7. CASE LeaveUpstreams(c)
  BY <1>7, LeaveTypes
<1> QED BY <1>1, <1>2, <1>3, <1>4, <1>5, <1>6, <1>7 DEF HandlerStep

(* The upstream the supervisor waits for is one of them. *)
LEMMA DormantFirst ==
  ASSUME NEW D \in SUBSET DOMAIN Streams, D # {}
  PROVE  /\ FirstOf(D) \in D /\ FirstOf(D) \in 0 .. Len(Streams)
         /\ Streams[FirstOf(D)] \in Upstreams
<1>1. DOMAIN Streams = 1 .. Len(Streams) /\ Len(Streams) \in Nat
  BY StreamAssumption
<1>2. D \in SUBSET Nat
  BY <1>1
<1>3. FirstOf(D) \in D
  BY <1>2, FirstIsFirst
<1>4. FirstOf(D) \in DOMAIN Streams
  BY <1>3
<1> QED BY <1>1, <1>3, <1>4 DEF Upstreams

LEMMA SuperviseTypes ==
  ASSUME TypesOK, Supervise
  PROVE  TypesOK'
<1> DEFINE D == {i \in DOMAIN Streams : i > supervisor /\ Dormant(Streams[i])}
<1>1. UNCHANGED <<phase, socket, main, ancillary, index, handlers, requests, faults>>
  BY DEF Supervise
<1>2. Len(Streams) \in Nat
  BY StreamAssumption
<1>3. /\ running' \in [Upstreams -> BOOLEAN] /\ connected' \in [Upstreams -> BOOLEAN]
      /\ loop' \in LoopsType /\ supervisor' \in 0 .. Len(Streams)
  <2>1. CASE D # {}
    <3>1. StartTask(Streams[FirstOf(D)]) /\ supervisor' = FirstOf(D)
      BY <2>1 DEF Supervise
    <3>2. D \in SUBSET DOMAIN Streams
      OBVIOUS
    <3> HIDE DEF D
    <3>3. FirstOf(D) \in 0 .. Len(Streams) /\ Streams[FirstOf(D)] \in Upstreams
      BY <2>1, <3>2, DormantFirst
    <3> QED BY <3>1, <3>3, StartTypes
  <2>2. CASE D = {}
    <3>1. supervisor' = 0 /\ UNCHANGED <<running, connected, loop>>
      BY <2>2 DEF Supervise
    <3> QED BY <1>2, <3>1 DEF TypesOK, TypeOK, LoopsType
  <2> QED BY <2>1, <2>2
<1> QED BY <1>1, <1>3 DEF TypesOK, TypeOK, handlers, ClientsOK, LoopsType

LEMMA RequestTypes ==
  ASSUME TypesOK, NEW c \in Clients, NEW req \in Requests, NEW op \in {"subscribe", "unsubscribe"},
         Request(c, op, req)
  PROVE  TypesOK'
<1> DEFINE h == [at |-> op, op |-> op, todo |-> req, done |-> <<>>]
<1>1. req \in Seq(Channels) /\ req # <<>>
  BY StreamAssumption
<1>2. req \in Seq(Steps) /\ <<>> \in Seq(Channels)
  BY <1>1 DEF Steps
<1>3. HandlerOK(h)
  BY <1>1, <1>2 DEF HandlerOK, Handlers, ClientPlaces, Changes
<1>4. client' = [client EXCEPT ![c] = h]
  BY DEF Request
<1>5. accounted' \in [Clients -> SUBSET Channels]
  BY DEF Request, TypesOK, TypeOK
<1> HIDE DEF h
<1>6. ClientsOK'
  BY <1>3, <1>4, <1>5, HandlerSet DEF TypesOK
<1>7. requests' \in 0 .. MaxRequests
  BY StreamAssumption DEF Request, TypesOK, TypeOK
<1>8. UNCHANGED <<phase, upstream, index, accounted, supervisor, faults>>
  BY DEF Request
<1> QED BY <1>6, <1>7, <1>8 DEF TypesOK, TypeOK, upstream, ClientsOK, HandlerOK, Handlers, ClientPlaces

LEMMA OtherTypes ==
  ASSUME TypesOK,
         \/ \E s \in Upstreams : Lose(s) \/ FailTransport(s)
         \/ \E c \in Clients : Disconnect(c)
         \/ Stop \/ Stopped
  PROVE  TypesOK'
<1>0. Fault => faults' \in 0 .. MaxFaults
  BY StreamAssumption DEF Fault, TypesOK, TypeOK
<1>1. ASSUME NEW s \in Upstreams, Lose(s)
      PROVE  TypesOK'
  <2>1. ClientsOK'
    BY <1>1, ForgottenOK DEF Lose, TypesOK
  <2>2. main' \subseteq Channels /\ ancillary' \in BOOLEAN
    BY <1>1 DEF Lose, ForgottenUpstream, TypesOK, TypeOK
  <2>3. socket' = [socket EXCEPT ![s] = "lost"] /\ Fault
    BY <1>1 DEF Lose
  <2>4. UNCHANGED <<phase, running, connected, loop, index, accounted, supervisor, requests>>
    BY <1>1 DEF Lose
  <2> QED BY <1>0, <2>1, <2>2, <2>3, <2>4 DEF TypesOK, TypeOK, ClientsOK, HandlerOK, Handlers, ClientPlaces
<1>2. ASSUME CloseSockets(Upstreams), UNCHANGED <<loop, index, accounted, requests>>,
             running' = [u \in Upstreams |-> FALSE], supervisor' = 0, phase' \in Phases,
             faults' \in 0 .. MaxFaults
      PROVE  TypesOK'
  <2>1. /\ socket' \in [Upstreams -> {"none", "open", "authenticated", "lost"}]
        /\ connected' \in [Upstreams -> BOOLEAN]
        /\ main' \subseteq Channels /\ ancillary' \in BOOLEAN
        /\ ClientsOK'
    BY <1>2, CloseTypes
  <2>2. 0 \in 0 .. Len(Streams)
    BY StreamAssumption
  <2> QED BY <1>2, <2>1, <2>2 DEF TypesOK, TypeOK, ClientsOK, HandlerOK, Handlers, ClientPlaces
<1>3. ASSUME NEW s \in Upstreams, FailTransport(s)
      PROVE  TypesOK'
  BY <1>0, <1>2, <1>3 DEF FailTransport, Phases
<1>4. CASE Stop
  <2>1. faults' \in 0 .. MaxFaults /\ phase' \in Phases
    BY <1>4 DEF Stop, TypesOK, TypeOK, Phases
  <2> QED BY <1>2, <1>4, <2>1 DEF Stop
<1>5. ASSUME NEW c \in Clients, Disconnect(c)
      PROVE  TypesOK'
  <2>1. ClientsOK'
    BY <1>5, LeavingOK DEF Disconnect, TypesOK
  <2>2. UNCHANGED <<phase, upstream, index, accounted, supervisor, requests, faults>>
    BY <1>5 DEF Disconnect
  <2> QED BY <2>1, <2>2 DEF TypesOK, TypeOK, upstream, ClientsOK, HandlerOK, Handlers, ClientPlaces
<1>6. CASE Stopped
  <2>1. loop' \in LoopsType /\ phase' \in Phases
    BY <1>6, StreamAssumption DEF Stopped, LoopsType, NoLoop, LoopPlaces, Phases
  <2>2. UNCHANGED <<running, socket, connected, main, ancillary, index, handlers, supervisor,
                    requests, faults>>
    BY <1>6 DEF Stopped
  <2> QED BY <2>1, <2>2 DEF TypesOK, TypeOK, handlers, ClientsOK, LoopsType
<1> QED BY <1>1, <1>3, <1>4, <1>5, <1>6

LEMMA StutterTypes ==
  ASSUME TypesOK, UNCHANGED vars
  PROVE  TypesOK'
BY DEF TypesOK, TypeOK, ClientsOK, vars, upstream, handlers

(* Every kind of step, named once. *)
LoopAction(s, t) ==
  \/ LoopBegins(s, t) \/ DialSucceeds(s, t) \/ AuthSucceeds(s, t) \/ Resubscribed(s, t)
  \/ AttemptFails(s, t) \/ AttemptRefused(s, t) \/ ConnectionEnds(s, t) \/ BackoffEnds(s, t)

OtherAction ==
  \/ \E s \in Upstreams : Lose(s) \/ FailTransport(s)
  \/ \E c \in Clients : Disconnect(c)
  \/ Stop \/ Stopped

LEMMA StepKinds ==
  ASSUME [Next]_vars
  PROVE  \/ \E s \in Upstreams, t \in Tasks : LoopAction(s, t)
         \/ \E c \in Clients : HandlerStep(c)
         \/ \E c \in Clients, req \in Requests, op \in {"subscribe", "unsubscribe"} :
              Request(c, op, req)
         \/ Supervise \/ OtherAction \/ UNCHANGED vars
BY DEF Next, LoopStep, LoopAction, OtherAction

LEMMA NextTypes ==
  ASSUME TypesOK, [Next]_vars
  PROVE  TypesOK'
<1>1. ASSUME NEW s \in Upstreams, NEW t \in Tasks, LoopAction(s, t) PROVE TypesOK'
  BY <1>1, LoopTypes DEF LoopAction
<1>2. CASE OtherAction
  BY <1>2, OtherTypes DEF OtherAction
<1> QED BY <1>1, <1>2, StepKinds, HandlerTypes, RequestTypes, SuperviseTypes, StutterTypes

(* Every variable keeps its type, and every handler its form. *)
THEOREM TypeCorrect == Spec => []TypeOK
<1>1. Spec => []TypesOK
  BY InitTypes, NextTypes, PTL DEF Spec
<1>2. TypesOK => TypeOK
  BY DEF TypesOK
<1> QED BY <1>1, <1>2, PTL

-----------------------------------------------------------------------------
(* One connect loop for an upstream *)

OneActive ==
  \A s \in Upstreams : \A t, u \in Tasks :
    loop[s][t].at # "none" /\ loop[s][u].at # "none" => t = u

(* While the multiplexer runs, _running is cleared only with the task.      *)
DormantIsQuiet ==
  phase = "running" =>
    \A s \in Upstreams : ~running[s] => \A t \in Tasks : loop[s][t].at = "none"

(* A task that is to dial has closed the socket it had. *)
DialsWithout ==
  \A s \in Upstreams, t \in Tasks :
    loop[s][t].at \in {"dialing", "sleeping"} => socket[s] = "none"

AllGone == phase \in {"stopping", "stopped"} => \A c \in Clients : client[c].at = "gone"

LoopsOK == OneActive /\ DormantIsQuiet /\ DialsWithout

LEMMA InitLoops == Init => LoopsOK /\ AllGone
<1> SUFFICES ASSUME Init PROVE LoopsOK /\ AllGone
  OBVIOUS
<1> DEFINE first == CHOOSE u \in Tasks : TRUE
<1>1. \A s \in Upstreams, t \in Tasks :
        /\ loop[s][t].at \in {"none", "scheduled"}
        /\ loop[s][t].at # "none" => s \in Eager /\ t = first
  BY DEF Init, NoLoop
<1>2. phase = "running" /\ \A s \in Upstreams : running[s] <=> s \in Eager
  BY DEF Init
<1> HIDE DEF first
<1> QED BY <1>1, <1>2 DEF LoopsOK, OneActive, DormantIsQuiet, DialsWithout, AllGone

(* A task's own step keeps it the only one. *)
LEMMA OwnStep ==
  ASSUME TypesOK, LoopsOK, NEW s \in Upstreams, NEW t \in Tasks, NEW at \in LoopPlaces,
         NEW n \in 0 .. MaxRetries,
         loop[s][t].at # "none", SetLoop(s, t, at, n), phase' = phase,
         \A r \in Upstreams : r # s => running'[r] = running[r] /\ socket'[r] = socket[r],
         at # "none" => (running[s] => running'[s]),
         at \in {"dialing", "sleeping"} => socket'[s] = "none"
  PROVE  LoopsOK'
<1>1. /\ loop'[s][t] = [at |-> at, attempt |-> n]
      /\ \A u \in Tasks : u # t => loop'[s][u] = loop[s][u]
      /\ \A r \in Upstreams : r # s => loop'[r] = loop[r]
  BY SetLoopType
<1>2. \A u \in Tasks : u # t => loop[s][u].at = "none"
  BY DEF LoopsOK, OneActive
<1>3. OneActive'
  BY <1>1, <1>2 DEF LoopsOK, OneActive
<1>4. DormantIsQuiet'
  BY <1>1, <1>2 DEF LoopsOK, DormantIsQuiet
<1>5. DialsWithout'
  BY <1>1, <1>2 DEF LoopsOK, DialsWithout
<1> QED BY <1>3, <1>4, <1>5 DEF LoopsOK

LEMMA CloseElsewhere ==
  ASSUME TypesOK, NEW s \in Upstreams, CloseSockets({s})
  PROVE  socket'[s] = "none" /\ \A r \in Upstreams : r # s => socket'[r] = socket[r]
BY DEF CloseSockets

LEMMA LoopActionLoops ==
  ASSUME TypesOK, LoopsOK, NEW s \in Upstreams, NEW t \in Tasks, LoopAction(s, t)
  PROVE  LoopsOK'
<1> DEFINE n == loop[s][t].attempt
<1>0. /\ n \in 0 .. MaxRetries /\ 0 \in 0 .. MaxRetries /\ n + 1 \in Nat
      /\ n + 1 <= MaxRetries => n + 1 \in 0 .. MaxRetries
  BY StreamAssumption DEF TypesOK, TypeOK
<1>a. running \in [Upstreams -> BOOLEAN] /\ socket \in [Upstreams -> {"none", "open", "authenticated", "lost"}]
  BY DEF TypesOK, TypeOK
<1>1. ASSUME GiveUpOrRetry(s, t), loop[s][t].at # "none" PROVE LoopsOK'
  <2>1. CloseSockets({s}) /\ phase' = phase
    BY <1>1 DEF GiveUpOrRetry
  <2>2. socket'[s] = "none" /\ \A r \in Upstreams : r # s => socket'[r] = socket[r]
    BY <2>1, CloseElsewhere
  <2>3. CASE SetLoop(s, t, "none", 0) /\ (running' = running \/ running' = [running EXCEPT ![s] = FALSE])
    <3>1. \A r \in Upstreams : r # s => running'[r] = running[r]
      BY <1>a, <2>3
    <3> QED BY <1>0, <1>1, <2>1, <2>2, <2>3, <3>1, OwnStep DEF LoopPlaces
  <2>4. CASE n + 1 <= MaxRetries /\ SetLoop(s, t, "sleeping", n + 1) /\ running' = running
    BY <1>0, <1>1, <2>1, <2>2, <2>4, OwnStep DEF LoopPlaces
  <2> QED BY <1>1, <2>3, <2>4 DEF GiveUpOrRetry
<1>2. CASE LoopBegins(s, t)
  <2>1. /\ running' = [running EXCEPT ![s] = TRUE] /\ SetLoop(s, t, "dialing", 0) /\ phase' = phase
        /\ CloseSockets({s}) /\ loop[s][t].at # "none"
    BY <1>2 DEF LoopBegins
  <2>2. socket'[s] = "none" /\ \A r \in Upstreams : r # s => socket'[r] = socket[r]
    BY <2>1, CloseElsewhere
  <2>3. running'[s] /\ \A r \in Upstreams : r # s => running'[r] = running[r]
    BY <1>a, <2>1
  <2> QED BY <1>0, <2>1, <2>2, <2>3, OwnStep DEF LoopPlaces
<1>3. CASE DialSucceeds(s, t)
  <2>1. /\ running' = running /\ SetLoop(s, t, "authenticating", n) /\ phase' = phase
        /\ loop[s][t].at # "none" /\ socket' = [socket EXCEPT ![s] = "open"]
    BY <1>3 DEF DialSucceeds
  <2> QED BY <1>0, <1>a, <2>1, OwnStep DEF LoopPlaces
<1>4. CASE AuthSucceeds(s, t)
  <2>1. /\ running' = running /\ phase' = phase
        /\ loop[s][t].at # "none" /\ socket' = [socket EXCEPT ![s] = "authenticated"]
    BY <1>4 DEF AuthSucceeds
  <2>2. SetLoop(s, t, "resubscribing", n) \/ SetLoop(s, t, "receiving", 0)
    BY <1>4 DEF AuthSucceeds
  <2>3. \A r \in Upstreams : r # s => socket'[r] = socket[r]
    BY <1>a, <2>1
  <2>4. CASE SetLoop(s, t, "resubscribing", n)
    BY <1>0, <2>1, <2>3, <2>4, OwnStep DEF LoopPlaces
  <2>5. CASE SetLoop(s, t, "receiving", 0)
    BY <1>0, <2>1, <2>3, <2>5, OwnStep DEF LoopPlaces
  <2> QED BY <2>2, <2>4, <2>5
<1>5. CASE Resubscribed(s, t)
  <2>1. /\ running' = running /\ phase' = phase /\ SetLoop(s, t, "receiving", 0)
        /\ loop[s][t].at # "none" /\ socket' = socket
    BY <1>5 DEF Resubscribed
  <2> QED BY <1>0, <2>1, OwnStep DEF LoopPlaces
<1>6. CASE AttemptFails(s, t)
  BY <1>1, <1>6 DEF AttemptFails
<1>7. CASE AttemptRefused(s, t)
  <2>1. /\ running' = [running EXCEPT ![s] = FALSE] /\ SetLoop(s, t, "none", 0) /\ phase' = phase
        /\ CloseSockets({s}) /\ loop[s][t].at # "none"
    BY <1>7 DEF AttemptRefused
  <2>2. socket'[s] = "none" /\ \A r \in Upstreams : r # s => socket'[r] = socket[r]
    BY <2>1, CloseElsewhere
  <2>3. \A r \in Upstreams : r # s => running'[r] = running[r]
    BY <1>a, <2>1
  <2> QED BY <1>0, <2>1, <2>2, <2>3, OwnStep DEF LoopPlaces
<1>8. CASE ConnectionEnds(s, t)
  BY <1>1, <1>8 DEF ConnectionEnds
<1>9. CASE BackoffEnds(s, t)
  <2>1. /\ running' = running /\ phase' = phase /\ loop[s][t].at = "sleeping" /\ socket' = socket
        /\ SetLoop(s, t, "dialing", n) \/ SetLoop(s, t, "none", n)
    BY <1>9 DEF BackoffEnds
  <2>2. socket[s] = "none"
    BY <2>1 DEF LoopsOK, DialsWithout
  <2>3. CASE SetLoop(s, t, "dialing", n)
    BY <1>0, <2>1, <2>2, <2>3, OwnStep DEF LoopPlaces
  <2>4. CASE SetLoop(s, t, "none", n)
    BY <1>0, <2>1, <2>4, OwnStep DEF LoopPlaces
  <2> QED BY <2>1, <2>3, <2>4
<1> QED BY <1>2, <1>3, <1>4, <1>5, <1>6, <1>7, <1>8, <1>9 DEF LoopAction

(* A task is started only for an upstream that has none. *)
LEMMA StartLoops ==
  ASSUME TypesOK, LoopsOK, NEW s \in Upstreams, StartTask(s), ~running[s], phase = "running",
         phase' = phase, socket' = socket
  PROVE  LoopsOK'
<1>1. PICK t \in Tasks : loop[s][t].at = "none" /\ SetLoop(s, t, "scheduled", 0)
  BY DEF StartTask
<1>2. /\ loop'[s][t] = [at |-> "scheduled", attempt |-> 0]
      /\ \A u \in Tasks : u # t => loop'[s][u] = loop[s][u]
      /\ \A r \in Upstreams : r # s => loop'[r] = loop[r]
  BY <1>1, SetLoopType, StreamAssumption DEF LoopPlaces
<1>3. \A u \in Tasks : loop[s][u].at = "none"
  BY DEF LoopsOK, DormantIsQuiet
<1>4. running'[s] /\ \A r \in Upstreams : r # s => running'[r] = running[r]
  BY DEF StartTask, TypesOK, TypeOK
<1>5. OneActive'
  BY <1>2, <1>3 DEF LoopsOK, OneActive
<1>6. DormantIsQuiet'
  BY <1>2, <1>4 DEF LoopsOK, DormantIsQuiet
<1>7. DialsWithout'
  BY <1>2, <1>3 DEF LoopsOK, DialsWithout
<1> QED BY <1>5, <1>6, <1>7 DEF LoopsOK

(* What a handler's step does to the connections: nothing, or a start. *)
LEMMA HandlerLoops ==
  ASSUME TypesOK, LoopsOK, AllGone, NEW c \in Clients, HandlerStep(c)
  PROVE  /\ LoopsOK' /\ AllGone'
         /\ phase \notin {"stopping", "stopped"} /\ phase' = phase /\ socket' = socket
         /\ phase = "failed" => loop' = loop
<1>1. client[c].at # "gone"
  BY DEF HandlerStep, EnsureConnected, WaitSucceeds, WaitTimesOut, Unregister, FrameSent,
         SendFailed, LeaveUpstreams
<1>2. phase \notin {"stopping", "stopped"}
  BY <1>1 DEF AllGone
<1>3. phase' = phase /\ socket' = socket
  BY ZenonT(80) DEF HandlerStep, EnsureConnected, WaitSucceeds, WaitTimesOut, Unregister, FrameSent,
         SendFailed, LeaveUpstreams, upstream
<1>4. \/ running' = running /\ loop' = loop
      \/ EnsureConnected(c) /\ phase # "failed" /\ StartIfDormant(Head(client[c].todo)[1])
  BY DEF HandlerStep, EnsureConnected, WaitSucceeds, WaitTimesOut, Unregister, FrameSent,
         SendFailed, LeaveUpstreams, upstream
<1>5. LoopsOK' /\ (phase = "failed" => loop' = loop)
  <2>1. CASE running' = running /\ loop' = loop
    BY <1>3, <2>1 DEF LoopsOK, OneActive, DormantIsQuiet, DialsWithout
  <2>2. CASE EnsureConnected(c) /\ phase # "failed" /\ StartIfDormant(Head(client[c].todo)[1])
    <3> DEFINE s == Head(client[c].todo)[1]
    <3>1. s \in Upstreams
      BY <2>2, HeadOf DEF EnsureConnected, TypesOK, ClientsOK, HandlerOK, Changes
    <3>2. phase = "running"
      BY <1>2, <2>2 DEF TypesOK, TypeOK, Phases
    <3>3. CASE running' = running /\ loop' = loop
      BY <1>3, <3>3 DEF LoopsOK, OneActive, DormantIsQuiet, DialsWithout
    <3>4. CASE ~running[s] /\ StartTask(s)
      BY <1>3, <3>1, <3>2, <3>4, StartLoops
    <3> QED BY <2>2, <3>2, <3>3, <3>4 DEF StartIfDormant
  <2> QED BY <1>4, <2>1, <2>2
<1> QED BY <1>2, <1>3, <1>5 DEF AllGone

LEMMA SuperviseLoops ==
  ASSUME TypesOK, LoopsOK, Supervise
  PROVE  LoopsOK'
<1> DEFINE D == {i \in DOMAIN Streams : i > supervisor /\ Dormant(Streams[i])}
<1>1. phase = "running" /\ phase' = phase /\ socket' = socket
  BY DEF Supervise
<1>2. CASE D # {}
  <2>1. StartTask(Streams[FirstOf(D)])
    BY <1>2 DEF Supervise
  <2>2. D \in SUBSET DOMAIN Streams /\ \A i \in D : ~running[Streams[i]]
    BY DEF Dormant
  <2> HIDE DEF D
  <2>3. FirstOf(D) \in D /\ Streams[FirstOf(D)] \in Upstreams
    BY <1>2, <2>2, DormantFirst
  <2> QED BY <1>1, <2>1, <2>2, <2>3, StartLoops
<1>3. CASE D = {}
  <2>1. running' = running /\ loop' = loop
    BY <1>3 DEF Supervise
  <2> QED BY <1>1, <2>1 DEF LoopsOK, OneActive, DormantIsQuiet, DialsWithout
<1> QED BY <1>2, <1>3

LEMMA OtherLoops ==
  ASSUME TypesOK, LoopsOK, AllGone, OtherAction
  PROVE  LoopsOK' /\ AllGone'
<1>1. ASSUME NEW s \in Upstreams, Lose(s) PROVE LoopsOK' /\ AllGone'
  <2>1. /\ socket[s] \in {"open", "authenticated"} /\ socket' = [socket EXCEPT ![s] = "lost"]
        /\ ForgottenUpstream({s}) /\ UNCHANGED <<phase, running, loop, accounted>>
    BY <1>1 DEF Lose
  <2>2. \A r \in Upstreams : socket[r] = "none" => socket'[r] = "none"
    BY <2>1 DEF TypesOK, TypeOK
  <2>3. \A c \in Clients : client[c].at = "gone" => client'[c].at = "gone"
    BY <2>1, ForgottenOK DEF TypesOK
  <2> QED BY <2>1, <2>2, <2>3 DEF LoopsOK, OneActive, DormantIsQuiet, DialsWithout, AllGone
<1>2. ASSUME CloseSockets(Upstreams), loop' = loop, phase' # "running" PROVE LoopsOK'
  <2>1. \A r \in Upstreams : socket'[r] = "none"
    BY <1>2 DEF CloseSockets
  <2> QED BY <1>2, <2>1 DEF LoopsOK, OneActive, DormantIsQuiet, DialsWithout
<1>3. ASSUME NEW s \in Upstreams, FailTransport(s) PROVE LoopsOK' /\ AllGone'
  BY <1>2, <1>3 DEF FailTransport, AllGone
<1>4. ASSUME NEW c \in Clients, Disconnect(c) PROVE LoopsOK' /\ AllGone'
  <2>1. client[c].at = "idle" /\ UNCHANGED <<phase, running, socket, loop>>
    BY <1>4 DEF Disconnect, upstream
  <2>2. phase \notin {"stopping", "stopped"}
    BY <2>1 DEF AllGone
  <2> QED BY <2>1, <2>2 DEF LoopsOK, OneActive, DormantIsQuiet, DialsWithout, AllGone
<1>5. CASE Stop
  <2>1. /\ CloseSockets(Upstreams) /\ loop' = loop /\ phase' = "stopping" /\ UNCHANGED accounted
        /\ \A c \in Clients : client[c].at = "gone"
    BY <1>5 DEF Stop
  <2>2. \A c \in Clients : client'[c].at = "gone"
    BY <2>1, ForgottenOK DEF CloseSockets, TypesOK
  <2> QED BY <1>2, <2>1, <2>2 DEF AllGone
<1>6. CASE Stopped
  <2>1. /\ phase = "stopping" /\ phase' = "stopped" /\ UNCHANGED <<socket, client>>
        /\ \A s \in Upstreams, t \in Tasks : loop'[s][t].at = "none"
    BY <1>6 DEF Stopped, handlers, NoLoop
  <2> QED BY <2>1 DEF LoopsOK, OneActive, DormantIsQuiet, DialsWithout, AllGone
<1> QED BY <1>1, <1>3, <1>4, <1>5, <1>6 DEF OtherAction

LEMMA NextLoops ==
  ASSUME TypesOK, LoopsOK, AllGone, [Next]_vars
  PROVE  LoopsOK' /\ AllGone'
<1>1. ASSUME NEW s \in Upstreams, NEW t \in Tasks, LoopAction(s, t) PROVE LoopsOK' /\ AllGone'
  <2>1. LoopsOK'
    BY <1>1, LoopActionLoops
  <2>2. phase' = phase /\ accounted' = accounted
    BY <1>1 DEF LoopAction, LoopBegins, DialSucceeds, AuthSucceeds, Resubscribed, AttemptFails,
       AttemptRefused, ConnectionEnds, BackoffEnds, GiveUpOrRetry, handlers
  <2>3. client' = client \/ ForgottenUpstream({s})
    BY <1>1 DEF LoopAction, LoopBegins, DialSucceeds, AuthSucceeds, Resubscribed, AttemptFails,
       AttemptRefused, ConnectionEnds, BackoffEnds, GiveUpOrRetry, CloseSockets, handlers
  <2>4. \A c \in Clients : client[c].at = "gone" => client'[c].at = "gone"
    BY <2>2, <2>3, ForgottenOK DEF TypesOK
  <2> QED BY <2>1, <2>2, <2>4 DEF AllGone
<1>2. ASSUME NEW c \in Clients, HandlerStep(c) PROVE LoopsOK' /\ AllGone'
  BY <1>2, HandlerLoops
<1>3. ASSUME NEW c \in Clients, NEW req \in Requests, NEW op \in {"subscribe", "unsubscribe"},
             Request(c, op, req)
      PROVE  LoopsOK' /\ AllGone'
  <2>1. client[c].at = "idle" /\ UNCHANGED <<phase, running, socket, loop>>
    BY <1>3 DEF Request, upstream
  <2>2. phase \notin {"stopping", "stopped"}
    BY <2>1 DEF AllGone
  <2> QED BY <2>1, <2>2 DEF LoopsOK, OneActive, DormantIsQuiet, DialsWithout, AllGone
<1>4. CASE Supervise
  <2>1. UNCHANGED <<phase, client>>
    BY <1>4 DEF Supervise, handlers
  <2> QED BY <1>4, <2>1, SuperviseLoops DEF AllGone
<1>5. CASE UNCHANGED vars
  BY <1>5 DEF LoopsOK, OneActive, DormantIsQuiet, DialsWithout, AllGone, vars, upstream, handlers
<1> QED BY <1>1, <1>2, <1>3, <1>4, <1>5, OtherLoops, StepKinds

(* No two tasks run the connect loop of one upstream                        *)
(* (stream.py:457-463, start, and 1295-1330, _ensure_connected).                      *)
THEOREM LoopsInvariance == Spec => [](TypesOK /\ LoopsOK /\ AllGone)
<1>1. Init => TypesOK /\ LoopsOK /\ AllGone
  BY InitTypes, InitLoops
<1>2. TypesOK /\ LoopsOK /\ AllGone /\ [Next]_vars => (TypesOK /\ LoopsOK /\ AllGone)'
  BY NextTypes, NextLoops
<1> QED BY <1>1, <1>2, PTL DEF Spec

(* The same, of the number of tasks, as the runs state it. *)
THEOREM OneConnection == Spec => []OneLoop
<1>1. LoopsOK => OneLoop
  <2> SUFFICES ASSUME LoopsOK, NEW s \in Upstreams
               PROVE  Cardinality({t \in Tasks : loop[s][t].at # "none"}) <= 1
    BY DEF OneLoop
  <2> DEFINE A == {t \in Tasks : loop[s][t].at # "none"}
  <2>1. CASE A = {}
    BY <2>1, FS_EmptySet
  <2>2. ASSUME NEW t \in A PROVE Cardinality(A) <= 1
    <3>1. A = {t}
      BY <2>2 DEF LoopsOK, OneActive
    <3> HIDE DEF A
    <3> QED BY <3>1, FS_Singleton
  <2> QED BY <2>1, <2>2
<1> QED BY <1>1, LoopsInvariance, PTL

(* _fail_transport is final (stream.py:1216-1240): no action gives an        *)
(* upstream a new connect task after it.                                    *)
THEOREM FailureIsFinal == Spec => FailedStaysDown
<1>1. ASSUME TypesOK, LoopsOK, AllGone, [Next]_vars, phase = "failed",
             NEW r \in Upstreams, NEW u \in Tasks, loop[r][u].at = "none"
      PROVE  loop'[r][u].at = "none"
  <2>1. ASSUME NEW s \in Upstreams, NEW t \in Tasks, LoopAction(s, t)
        PROVE  loop'[r][u].at = "none"
    <3>1. PICK at, n : SetLoop(s, t, at, n)
      BY <2>1 DEF LoopAction, LoopBegins, DialSucceeds, AuthSucceeds, Resubscribed,
         AttemptFails, AttemptRefused, ConnectionEnds, BackoffEnds, GiveUpOrRetry
    <3>2. loop[s][t].at # "none"
      BY <2>1 DEF LoopAction, LoopBegins, DialSucceeds, AuthSucceeds, Resubscribed,
         AttemptFails, AttemptRefused, ConnectionEnds, BackoffEnds
    <3> QED BY <1>1, <3>1, <3>2 DEF SetLoop, TypesOK, TypeOK
  <2>2. ASSUME NEW c \in Clients, HandlerStep(c) PROVE loop' = loop
    BY <1>1, <2>2, HandlerLoops
  <2>3. ASSUME NEW c \in Clients, NEW req \in Requests, NEW op \in {"subscribe", "unsubscribe"},
               Request(c, op, req)
        PROVE  loop' = loop
    BY <2>3 DEF Request, upstream
  <2>4. CASE Supervise
    BY <1>1, <2>4 DEF Supervise
  <2>5. CASE OtherAction
    <3>1. CASE Stopped
      BY <3>1 DEF Stopped, NoLoop
    <3>2. CASE ~Stopped
      BY <2>5, <3>2, <1>1 DEF OtherAction, Lose, FailTransport, Disconnect, Stop, upstream
    <3> QED BY <3>1, <3>2
  <2>6. CASE UNCHANGED vars
    BY <1>1, <2>6 DEF vars, upstream
  <2> QED BY <1>1, <2>1, <2>2, <2>3, <2>4, <2>5, <2>6, StepKinds
<1>2. TypesOK /\ LoopsOK /\ AllGone /\ [Next]_vars =>
        [phase = "failed" =>
           \A s \in Upstreams, t \in Tasks : loop[s][t].at = "none" => loop'[s][t].at = "none"]_vars
  BY <1>1
<1> QED BY <1>2, LoopsInvariance, PTL DEF Spec, FailedStaysDown

-----------------------------------------------------------------------------
(* The provider streams what the index has *)

MainMatches ==
  \A ch \in Channels : ch \in main <=> (IsConnected(ch[1]) /\ index[ch] # {})

(* The ancillary channels are on, or somebody is about to send their frame. *)
AncillaryKept ==
  phase # "stopped" /\ IsConnected(Stocks) /\ Wanted(Stocks) # {} =>
    \/ ancillary
    \/ \E t \in Tasks : loop[Stocks][t].at = "resubscribing"
    \/ \E c \in Sending({Stocks}) : client[c].op = "subscribe"

LEMMA InitMain == Init => MainMatches /\ AncillaryKept
BY StreamAssumption DEF Init, MainMatches, AncillaryKept, IsConnected

(* Closing or losing sockets forgets what they streamed. *)
LEMMA CloseMain ==
  ASSUME TypesOK, MainMatches, NEW S \in SUBSET Upstreams, ForgottenUpstream(S), index' = index,
         \A r \in Upstreams : IF r \in S THEN socket'[r] # "authenticated" ELSE socket'[r] = socket[r]
  PROVE  MainMatches'
<1> SUFFICES ASSUME NEW ch \in Channels
             PROVE  ch \in main' <=> (socket'[ch[1]] = "authenticated" /\ index'[ch] # {})
  BY DEF MainMatches, IsConnected
<1>1. ch[1] \in Upstreams
  BY StreamAssumption
<1>2. ch \in main' <=> ch \in main /\ ch[1] \notin S
  BY DEF ForgottenUpstream
<1> QED BY <1>1, <1>2 DEF MainMatches, IsConnected

LEMMA CloseAncillary ==
  ASSUME TypesOK, AncillaryKept, NEW S \in SUBSET Upstreams, ForgottenUpstream(S), index' = index,
         \A r \in Upstreams : IF r \in S THEN socket'[r] # "authenticated" ELSE socket'[r] = socket[r],
         phase = "stopped" => phase' = "stopped",
         Stocks \in S \/ \A t \in Tasks :
           loop[Stocks][t].at = "resubscribing" => loop'[Stocks][t].at = "resubscribing"
  PROVE  AncillaryKept'
<1>1. CASE Stocks \in S
  BY <1>1, StreamAssumption DEF AncillaryKept, IsConnected
<1>2. CASE Stocks \notin S
  <2>1. socket'[Stocks] = socket[Stocks] /\ ancillary' = ancillary
    BY <1>2, StreamAssumption DEF ForgottenUpstream, TypesOK, TypeOK
  <2>2. \A c \in Sending({Stocks}) : c \in Clients /\ c \notin Sending(S)
    BY <1>2 DEF Sending
  <2>3. \A c \in Sending({Stocks}) : client'[c] = client[c]
    BY <2>2 DEF ForgottenUpstream
  <2>4. \A c \in Sending({Stocks}) : c \in Sending({Stocks})'
    BY <2>2, <2>3 DEF Sending
  <2>5. Wanted(Stocks)' = Wanted(Stocks)
    BY DEF Wanted
  <2> QED BY <1>2, <2>1, <2>3, <2>4, <2>5 DEF AncillaryKept, IsConnected
<1> QED BY <1>1, <1>2

(* Steps of an upstream's own task. *)
LEMMA LoopActionMain ==
  ASSUME TypesOK, LoopsOK, MainMatches, AncillaryKept,
         NEW s \in Upstreams, NEW t \in Tasks, LoopAction(s, t)
  PROVE  MainMatches' /\ AncillaryKept'
<1>0. index' = index /\ phase' = phase
  BY DEF LoopAction, LoopBegins, DialSucceeds, AuthSucceeds, Resubscribed, AttemptFails,
     AttemptRefused, ConnectionEnds, BackoffEnds, GiveUpOrRetry
<1>a. socket \in [Upstreams -> {"none", "open", "authenticated", "lost"}]
  BY DEF TypesOK, TypeOK
<1>b. \A at, n : SetLoop(s, t, at, n) =>
        /\ \A r \in Upstreams : r # s => loop'[r] = loop[r]
        /\ \A u \in Tasks : u # t => loop'[s][u] = loop[s][u]
        /\ loop'[s][t].at = at
  BY DEF SetLoop, TypesOK, TypeOK
<1>c. PICK at, n : SetLoop(s, t, at, n)
  BY DEF LoopAction, LoopBegins, DialSucceeds, AuthSucceeds, Resubscribed,
     AttemptFails, AttemptRefused, ConnectionEnds, BackoffEnds, GiveUpOrRetry
<1>d. \A r \in Upstreams : r # s => loop'[r] = loop[r]
  BY <1>b, <1>c
<1>1. CASE CloseSockets({s})
  <2>1. ForgottenUpstream({s})
    BY <1>1 DEF CloseSockets
  <2>2. \A r \in Upstreams : IF r \in {s} THEN socket'[r] # "authenticated" ELSE socket'[r] = socket[r]
    BY <1>1, CloseElsewhere
  <2>3. Stocks \in {s} \/ loop'[Stocks] = loop[Stocks]
    BY <1>d, StreamAssumption
  <2> QED BY <1>0, <2>1, <2>2, <2>3, CloseMain, CloseAncillary
<1>2. CASE DialSucceeds(s, t)
  <2>1. /\ socket[s] = "none" /\ socket' = [socket EXCEPT ![s] = "open"]
        /\ UNCHANGED <<main, ancillary, client>>
    BY <1>2 DEF DialSucceeds, LoopsOK, DialsWithout, handlers
  <2>2. \A r \in Upstreams : IsConnected(r)' <=> IsConnected(r)
    BY <1>a, <2>1 DEF IsConnected
  <2>3. Stocks # s => loop'[Stocks] = loop[Stocks]
    BY <1>d, StreamAssumption
  <2>4. ~IsConnected(s)
    BY <2>1 DEF IsConnected
  <2>5. Wanted(Stocks)' = Wanted(Stocks) /\ Sending({Stocks})' = Sending({Stocks})
    BY <1>0, <2>1 DEF Wanted, Sending
  <2> QED BY <1>0, <2>1, <2>2, <2>3, <2>4, <2>5, StreamAssumption DEF MainMatches, AncillaryKept
<1>3. CASE AuthSucceeds(s, t)
  <2>1. /\ socket[s] = "open" /\ socket' = [socket EXCEPT ![s] = "authenticated"]
        /\ UNCHANGED <<ancillary, client>> /\ main' = main \union Wanted(s)
    BY <1>3 DEF AuthSucceeds, handlers
  <2>2. IsConnected(s)' /\ ~IsConnected(s) /\ \A r \in Upstreams : r # s => (IsConnected(r)' <=> IsConnected(r))
    BY <1>a, <2>1 DEF IsConnected
  <2>3. MainMatches'
    BY <1>0, <2>1, <2>2, StreamAssumption DEF MainMatches, Wanted
  <2>4. Wanted(Stocks)' = Wanted(Stocks) /\ Sending({Stocks})' = Sending({Stocks})
    BY <1>0, <2>1 DEF Wanted, Sending
  <2>5. CASE s = Stocks
    <3>1. Wanted(s) # {} => SetLoop(s, t, "resubscribing", loop[s][t].attempt)
      BY <1>3 DEF AuthSucceeds
    <3>2. Wanted(Stocks)' # {} => loop'[Stocks][t].at = "resubscribing"
      BY <1>b, <2>4, <2>5, <3>1
    <3> QED BY <2>3, <3>2 DEF AncillaryKept
  <2>6. CASE s # Stocks
    <3>1. loop'[Stocks] = loop[Stocks] /\ (IsConnected(Stocks)' <=> IsConnected(Stocks))
      BY <1>d, <2>2, <2>6, StreamAssumption
    <3>2. phase' = phase /\ ancillary' = ancillary /\ client' = client
      BY <1>0, <2>1
    <3> QED BY <2>3, <2>4, <3>1, <3>2 DEF AncillaryKept
  <2> QED BY <2>3, <2>5, <2>6
<1>4. CASE Resubscribed(s, t)
  <2>1. /\ UNCHANGED <<socket, main, client>> /\ ancillary' = (ancillary \/ s = Stocks)
    BY <1>4 DEF Resubscribed, handlers
  <2>2. MainMatches'
    BY <1>0, <2>1 DEF MainMatches, IsConnected
  <2>3. CASE s = Stocks
    <3>1. ancillary'
      BY <2>1, <2>3
    <3> QED BY <2>2, <3>1 DEF AncillaryKept
  <2>4. CASE s # Stocks
    <3>1. Wanted(Stocks)' = Wanted(Stocks) /\ Sending({Stocks})' = Sending({Stocks})
      BY <1>0, <2>1 DEF Wanted, Sending
    <3>2. phase' = phase /\ client' = client /\ loop'[Stocks] = loop[Stocks]
      BY <1>0, <1>d, <2>1, <2>4, StreamAssumption
    <3>3. ancillary' <=> ancillary
      BY <2>1, <2>4
    <3>4. IsConnected(Stocks)' <=> IsConnected(Stocks)
      BY <2>1 DEF IsConnected
    <3> QED BY <2>2, <3>1, <3>2, <3>3, <3>4 DEF AncillaryKept
  <2> QED BY <2>2, <2>3, <2>4
<1>5. CASE BackoffEnds(s, t)
  <2>1. /\ UNCHANGED <<socket, main, ancillary, client>> /\ socket[s] = "none"
    BY <1>5 DEF BackoffEnds, handlers, LoopsOK, DialsWithout
  <2>2. MainMatches'
    BY <1>0, <2>1 DEF MainMatches, IsConnected
  <2>3. Wanted(Stocks)' = Wanted(Stocks) /\ Sending({Stocks})' = Sending({Stocks})
    BY <1>0, <2>1 DEF Wanted, Sending
  <2>4. s = Stocks \/ loop'[Stocks] = loop[Stocks]
    BY <1>d, StreamAssumption
  <2> QED BY <1>0, <2>1, <2>2, <2>3, <2>4 DEF AncillaryKept, IsConnected
<1> QED BY <1>1, <1>2, <1>3, <1>4, <1>5 DEF LoopAction, LoopBegins, AttemptFails,
       AttemptRefused, ConnectionEnds, GiveUpOrRetry

(* A handler changes its own place only. *)
LEMMA OthersKeep ==
  ASSUME TypesOK, NEW c \in Clients, HandlerStep(c), NEW d \in Clients, d # c
  PROVE  client'[d] = client[d]
<1>1. Advance(c) => \E h : client' = [client EXCEPT ![c] = h]
  BY DEF Advance
<1>2. \A at : Place(c, at) => \E h : client' = [client EXCEPT ![c] = h]
  <2> SUFFICES ASSUME NEW at, Place(c, at) PROVE \E h : client' = [client EXCEPT ![c] = h]
    OBVIOUS
  <2> DEFINE h == [client[c] EXCEPT !.at = at]
  <2>1. client' = [client EXCEPT ![c] = h]
    BY DEF Place
  <2> HIDE DEF h
  <2> QED BY <2>1
<1>3. Refuse(c) => \E h : client' = [client EXCEPT ![c] = h]
  BY DEF Refuse
<1>4. Leaving(c) => \E h : client' = [client EXCEPT ![c] = h]
  BY DEF Leaving
<1>5. Gone(c) => \E h : client' = [client EXCEPT ![c] = h]
  BY DEF Gone
<1>6. Continue(c) => \E h : client' = [client EXCEPT ![c] = h]
  <2> DEFINE h == [client[c] EXCEPT !.at = "leave", !.todo = Tail(@)]
  <2>1. CASE client[c].op # "leave"
    BY <1>1, <2>1 DEF Continue
  <2>2. CASE client[c].op = "leave"
    <3>1. Continue(c) => client' = [client EXCEPT ![c] = h]
      BY <2>2 DEF Continue
    <3> HIDE DEF h
    <3> QED BY <3>1
  <2> QED BY <2>1, <2>2
<1>7. LeaveUpstreams(c) => \E h : client' = [client EXCEPT ![c] = h]
  <2> SUFFICES ASSUME LeaveUpstreams(c) PROVE \E h : client' = [client EXCEPT ![c] = h]
    OBVIOUS
  <2>1. PICK todo \in Seq(Upstreams \X {"all"}), upto \in Nat : Leaves(c, todo, upto)
    BY LeaveParts
  <2> DEFINE h == [client[c] EXCEPT !.at = "sent", !.todo = SubSeq(todo, upto, Len(todo))]
  <2>2. Gone(c) \/ client' = [client EXCEPT ![c] = h]
    BY <2>1 DEF Leaves
  <2> HIDE DEF h
  <2> QED BY <1>5, <2>2
<1>8. \/ Advance(c) \/ Place(c, "sent") \/ Place(c, "waiting") \/ Refuse(c)
      \/ Leaving(c) \/ Gone(c) \/ Continue(c) \/ LeaveUpstreams(c)
  BY DEF HandlerStep, EnsureConnected, Register, WaitSucceeds, WaitTimesOut, Unregister,
         FrameSent, SendFailed
<1>9. PICK h : client' = [client EXCEPT ![c] = h]
  BY <1>1, <1>2, <1>3, <1>4, <1>5, <1>6, <1>7, <1>8
<1> QED BY <1>9 DEF TypesOK, ClientsOK

(* A change that adds no wanted stock channel keeps the ancillary channels. *)
LEMMA KeepAncillary ==
  ASSUME AncillaryKept, NEW c \in Clients,
         \A d \in Clients : d # c => client'[d] = client[d],
         ~(c \in Sending({Stocks}) /\ client[c].op = "subscribe"),
         ancillary' = ancillary, phase' = phase, socket' = socket,
         \A t \in Tasks : loop[Stocks][t].at = "resubscribing" => loop'[Stocks][t].at = "resubscribing",
         Wanted(Stocks)' # {} => Wanted(Stocks) # {}
  PROVE  AncillaryKept'
<1>1. \A d \in Sending({Stocks}) : d # c => d \in Sending({Stocks})' /\ client'[d] = client[d]
  BY DEF Sending
<1>2. IsConnected(Stocks)' = IsConnected(Stocks)
  BY DEF IsConnected
<1> QED BY <1>1, <1>2 DEF AncillaryKept

LEMMA RegisterMain ==
  ASSUME TypesOK, MainMatches, AncillaryKept, NEW c \in Clients, HandlerStep(c), Register(c),
         client[c].at \in {"subscribe", "waiting"}, IsConnected(Head(client[c].todo)[1]),
         UNCHANGED <<phase, socket, loop, ancillary>>
  PROVE  MainMatches' /\ AncillaryKept'
<1> DEFINE ch == Head(client[c].todo)
<1>1. ch \in Channels /\ client[c].op = "subscribe"
  BY HeadOf DEF TypesOK, ClientsOK, HandlerOK, Changes
<1>2. /\ index' = [index EXCEPT ![ch] = @ \union {c}]
      /\ index[ch] = {} => main' = main \union {ch} /\ Place(c, "sent")
      /\ index[ch] # {} => main' = main
      /\ IsConnected(ch[1])
  BY DEF Register
<1>3. \A d \in Clients : d # c => client'[d] = client[d]
  BY OthersKeep
<1>4. index[ch] = {} /\ ch[1] = Stocks => c \in Sending({Stocks})' /\ client'[c].op = "subscribe"
  <2> SUFFICES ASSUME Place(c, "sent"), ch[1] = Stocks
               PROVE  c \in Sending({Stocks})' /\ client'[c].op = "subscribe"
    BY <1>2
  <2>1. client'[c] = [client[c] EXCEPT !.at = "sent"] /\ client[c] \in Handlers
    BY DEF Place, TypesOK, ClientsOK
  <2>2. client'[c].at = "sent" /\ client'[c].todo = client[c].todo /\ client'[c].op = client[c].op
    BY <2>1 DEF Handlers
  <2> QED BY <1>1, <2>2 DEF Sending
<1> HIDE DEF ch
<1>5. MainMatches'
  <2> SUFFICES ASSUME NEW x \in Channels
               PROVE  x \in main' <=> (IsConnected(x[1]) /\ index'[x] # {})
    BY DEF MainMatches, IsConnected
  <2>1. index'[x] = IF x = ch THEN index[x] \union {c} ELSE index[x]
    BY <1>2 DEF TypesOK, TypeOK
  <2>2. x \in main <=> (IsConnected(x[1]) /\ index[x] # {})
    BY DEF MainMatches
  <2> QED BY <1>2, <2>1, <2>2
<1>6. CASE index[ch] = {} /\ ch[1] = Stocks
  BY <1>4, <1>5, <1>6 DEF AncillaryKept
<1>7. CASE ~(index[ch] = {} /\ ch[1] = Stocks)
  <2>1. Wanted(Stocks)' # {} => Wanted(Stocks) # {}
    BY <1>1, <1>2, <1>7 DEF Wanted, TypesOK, TypeOK
  <2>2. c \notin Sending({Stocks})
    BY DEF Sending
  <2> QED BY <1>3, <1>5, <2>1, <2>2, KeepAncillary
<1> QED BY <1>6, <1>7

LEMMA UnregisterMain ==
  ASSUME TypesOK, MainMatches, AncillaryKept, NEW c \in Clients, HandlerStep(c), Unregister(c)
  PROVE  MainMatches' /\ AncillaryKept'
<1> DEFINE ch == Head(client[c].todo)
<1>1. ch \in Channels
  BY HeadOf DEF Unregister, TypesOK, ClientsOK, HandlerOK, Changes
<1>2. /\ index' = [index EXCEPT ![ch] = @ \ {c}]
      /\ main' = IF index[ch] = {c} /\ IsConnected(ch[1]) THEN main \ {ch} ELSE main
      /\ UNCHANGED <<phase, socket, loop, ancillary>>
      /\ client[c].at # "sent"
  BY DEF Unregister
<1> HIDE DEF ch
<1>3. MainMatches'
  <2> SUFFICES ASSUME NEW x \in Channels
               PROVE  x \in main' <=> (IsConnected(x[1]) /\ index'[x] # {})
    BY <1>2 DEF MainMatches, IsConnected
  <2>1. index'[x] = IF x = ch THEN index[x] \ {c} ELSE index[x]
    BY <1>2 DEF TypesOK, TypeOK
  <2>2. x \in main <=> (IsConnected(x[1]) /\ index[x] # {})
    BY DEF MainMatches
  <2> QED BY <1>2, <2>1, <2>2
<1>4. Wanted(Stocks)' # {} => Wanted(Stocks) # {}
  BY <1>2 DEF Wanted, TypesOK, TypeOK
<1>5. \A d \in Clients : d # c => client'[d] = client[d]
  BY OthersKeep
<1>6. c \notin Sending({Stocks})
  BY <1>2 DEF Sending
<1> QED BY <1>2, <1>3, <1>4, <1>5, <1>6, KeepAncillary

LEMMA LeaveMain ==
  ASSUME TypesOK, MainMatches, AncillaryKept, NEW c \in Clients, HandlerStep(c), LeaveUpstreams(c)
  PROVE  MainMatches' /\ AncillaryKept'
<1>1. PICK todo \in Seq(Upstreams \X {"all"}), upto \in Nat : Leaves(c, todo, upto)
  BY LeaveParts
<1>2. /\ index' = [ch \in Channels |-> IF \E i \in 1 .. upto : ch[1] = todo[i][1]
                                       THEN index[ch] \ {c} ELSE index[ch]]
      /\ UNCHANGED <<phase, socket, loop, ancillary>> /\ client[c].at # "sent"
  BY <1>1 DEF Leaves
<1>3. MainMatches'
  <2> SUFFICES ASSUME NEW x \in Channels
               PROVE  x \in main' <=> (IsConnected(x[1]) /\ index'[x] # {})
    BY <1>2 DEF MainMatches, IsConnected
  <2>1. x \in main <=> (IsConnected(x[1]) /\ index[x] # {})
    BY DEF MainMatches
  <2>2. \A u : u = x[1] => (x \in LastOf(c, u) <=> index[x] = {c})
    BY DEF LastOf, Wanted
  <2>3. CASE /\ 1 <= upto /\ main' = main \ LastOf(c, todo[upto][1])
             /\ \A i \in 1 .. upto - 1 : ~IsConnected(todo[i][1]) \/ LastOf(c, todo[i][1]) = {}
    <3>1. CASE x[1] = todo[upto][1]
      <4>1. index'[x] = index[x] \ {c}
        BY <1>2, <2>3, <3>1
      <4>2. x \in main' <=> x \in main /\ index[x] # {c}
        BY <2>2, <2>3, <3>1
      <4> QED BY <2>1, <4>1, <4>2
    <3>2. CASE x[1] # todo[upto][1]
      <4>1. x \in main' <=> x \in main
        BY <2>3, <3>2 DEF LastOf, Wanted
      <4>2. CASE \E i \in 1 .. upto : x[1] = todo[i][1]
        <5>1. PICK i \in 1 .. upto : x[1] = todo[i][1]
          BY <4>2
        <5>2. i \in 1 .. upto - 1
          BY <3>2, <5>1
        <5>3. ~IsConnected(x[1]) \/ index[x] # {c}
          BY <2>2, <2>3, <5>1, <5>2
        <5>4. index'[x] = index[x] \ {c}
          BY <1>2, <4>2
        <5> QED BY <2>1, <4>1, <5>3, <5>4
      <4>3. CASE ~ \E i \in 1 .. upto : x[1] = todo[i][1]
        BY <1>2, <2>1, <4>1, <4>3
      <4> QED BY <4>2, <4>3
    <3> QED BY <3>1, <3>2
  <2>4. CASE /\ main' = main
             /\ \A i \in 1 .. upto : ~IsConnected(todo[i][1]) \/ LastOf(c, todo[i][1]) = {}
    <3>1. CASE \E i \in 1 .. upto : x[1] = todo[i][1]
      <4>1. ~IsConnected(x[1]) \/ index[x] # {c}
        BY <2>2, <2>4, <3>1
      <4>2. index'[x] = index[x] \ {c}
        BY <1>2, <3>1
      <4> QED BY <2>1, <2>4, <4>1, <4>2
    <3>2. CASE ~ \E i \in 1 .. upto : x[1] = todo[i][1]
      BY <1>2, <2>1, <2>4, <3>2
    <3> QED BY <3>1, <3>2
  <2> QED BY <1>1, <2>3, <2>4 DEF Leaves
<1>4. Wanted(Stocks)' # {} => Wanted(Stocks) # {}
  <2>1. \A ch \in Channels : index'[ch] # {} => index[ch] # {}
    BY <1>2
  <2> QED BY <2>1 DEF Wanted
<1>5. \A d \in Clients : d # c => client'[d] = client[d]
  BY OthersKeep
<1>6. c \notin Sending({Stocks})
  BY <1>2 DEF Sending
<1> QED BY <1>2, <1>3, <1>4, <1>5, <1>6, KeepAncillary

(* A step of a handler that leaves the index and the connections alone. *)
LEMMA QuietHandler ==
  ASSUME TypesOK, MainMatches, AncillaryKept, NEW c \in Clients, HandlerStep(c),
         client[c].at # "sent",
         UNCHANGED <<phase, socket, ancillary, main, index>>,
         \A t \in Tasks : loop[Stocks][t].at = "resubscribing" => loop'[Stocks][t].at = "resubscribing"
  PROVE  MainMatches' /\ AncillaryKept'
<1>1. MainMatches'
  BY DEF MainMatches, IsConnected
<1>2. Wanted(Stocks)' # {} => Wanted(Stocks) # {}
  BY DEF Wanted
<1>3. \A d \in Clients : d # c => client'[d] = client[d]
  BY OthersKeep
<1>4. c \notin Sending({Stocks})
  BY DEF Sending
<1> QED BY <1>1, <1>2, <1>3, <1>4, KeepAncillary

(* A new task does not replace one that is resubscribing. *)
LEMMA StartKeeps ==
  ASSUME TypesOK, NEW s \in Upstreams, StartTask(s), NEW r \in Upstreams, NEW u \in Tasks,
         loop[r][u].at = "resubscribing"
  PROVE  loop'[r][u].at = "resubscribing"
<1>1. PICK t \in Tasks : loop[s][t].at = "none" /\ SetLoop(s, t, "scheduled", 0)
  BY DEF StartTask
<1>2. /\ \A v \in Tasks : v # t => loop'[s][v] = loop[s][v]
      /\ \A q \in Upstreams : q # s => loop'[q] = loop[q]
  BY <1>1 DEF SetLoop, TypesOK, TypeOK
<1> QED BY <1>1, <1>2

LEMMA HandlerMain ==
  ASSUME TypesOK, MainMatches, AncillaryKept, NEW c \in Clients, HandlerStep(c)
  PROVE  MainMatches' /\ AncillaryKept'
<1>1. CASE EnsureConnected(c)
  <2> DEFINE s == Head(client[c].todo)[1]
  <2>1. client[c].at = "subscribe" /\ UNCHANGED <<phase, socket, ancillary>> /\ s \in Upstreams
    BY <1>1, HeadOf DEF EnsureConnected, TypesOK, ClientsOK, HandlerOK, Changes
  <2>2. CASE IsConnected(s) /\ Register(c) /\ UNCHANGED loop
    BY <2>1, <2>2, RegisterMain
  <2>3. CASE Refuse(c) /\ UNCHANGED <<loop, main, index>>
    BY <2>1, <2>3, QuietHandler
  <2>4. CASE StartIfDormant(s) /\ UNCHANGED <<main, index>>
    <3>1. \A t \in Tasks : loop[Stocks][t].at = "resubscribing" => loop'[Stocks][t].at = "resubscribing"
      BY <2>1, <2>4, StartKeeps, StreamAssumption DEF StartIfDormant
    <3> QED BY <2>1, <2>4, <3>1, QuietHandler
  <2> QED BY <1>1, <2>2, <2>3, <2>4 DEF EnsureConnected
<1>2. CASE WaitSucceeds(c)
  <2>1. client[c].at = "waiting" /\ UNCHANGED <<phase, socket, ancillary, loop>>
    BY <1>2 DEF WaitSucceeds
  <2>2. CASE IsConnected(Head(client[c].todo)[1]) /\ Register(c)
    BY <2>1, <2>2, RegisterMain
  <2>3. CASE UNCHANGED <<main, index>>
    BY <2>1, <2>3, QuietHandler
  <2> QED BY <1>2, <2>2, <2>3 DEF WaitSucceeds
<1>3. CASE WaitTimesOut(c)
  BY <1>3, QuietHandler DEF WaitTimesOut, upstream
<1>4. CASE Unregister(c)
  BY <1>4, UnregisterMain
<1>5. CASE FrameSent(c)
  <2>1. client[c].at = "sent" /\ UNCHANGED <<phase, socket, main, index, loop>>
    BY <1>5 DEF FrameSent
  <2>2. MainMatches'
    BY <2>1 DEF MainMatches, IsConnected
  <2>3. Wanted(Stocks)' = Wanted(Stocks)
    BY <2>1 DEF Wanted
  <2>4. \A d \in Clients : d # c => client'[d] = client[d]
    BY OthersKeep
  <2>5. CASE Head(client[c].todo)[1] = Stocks /\ client[c].op = "subscribe"
    <3>1. ancillary' = TRUE
      BY <1>5, <2>5 DEF FrameSent, AncillaryFrame
    <3> QED BY <2>2, <3>1 DEF AncillaryKept
  <2>6. CASE Wanted(Stocks) = {}
    BY <2>2, <2>3, <2>6 DEF AncillaryKept
  <2>7. CASE /\ ~(Head(client[c].todo)[1] = Stocks /\ client[c].op = "subscribe")
             /\ Wanted(Stocks) # {}
    <3>1. ancillary' = ancillary
      BY <1>5, <2>7 DEF FrameSent, AncillaryFrame
    <3>2. ~(c \in Sending({Stocks}) /\ client[c].op = "subscribe")
      BY <2>7 DEF Sending
    <3> QED BY <2>1, <2>2, <2>3, <2>4, <3>1, <3>2, KeepAncillary
  <2> QED BY <2>5, <2>6, <2>7
<1>6. CASE SendFailed(c)
  BY <1>6, QuietHandler DEF SendFailed, upstream
<1>7. CASE LeaveUpstreams(c)
  BY <1>7, LeaveMain
<1> QED BY <1>1, <1>2, <1>3, <1>4, <1>5, <1>6, <1>7 DEF HandlerStep

(* Steps of nobody's handler that change no index. *)
LEMMA StepMain ==
  ASSUME TypesOK, MainMatches, AncillaryKept,
         \/ Supervise \/ OtherAction \/ UNCHANGED vars
         \/ \E c \in Clients, req \in Requests, op \in {"subscribe", "unsubscribe"} :
              Request(c, op, req)
  PROVE  MainMatches' /\ AncillaryKept'
<1>1. ASSUME NEW c \in Clients, client[c].at = "idle", NEW h, client' = [client EXCEPT ![c] = h],
             UNCHANGED <<phase, upstream, index>>
      PROVE  MainMatches' /\ AncillaryKept'
  <2>1. MainMatches'
    BY <1>1 DEF MainMatches, IsConnected, upstream
  <2>2. Wanted(Stocks)' = Wanted(Stocks)
    BY <1>1 DEF Wanted
  <2>3. (\A d \in Clients : d # c => client'[d] = client[d]) /\ c \notin Sending({Stocks})
    BY <1>1 DEF Sending, TypesOK, ClientsOK
  <2>4. UNCHANGED <<phase, socket, ancillary, loop>>
    BY <1>1 DEF upstream
  <2> QED BY <2>1, <2>2, <2>3, <2>4, KeepAncillary
<1>2. ASSUME NEW c \in Clients, NEW req \in Requests, NEW op \in {"subscribe", "unsubscribe"},
             Request(c, op, req)
      PROVE  MainMatches' /\ AncillaryKept'
  BY <1>1, <1>2 DEF Request
<1>3. ASSUME NEW c \in Clients, Disconnect(c) PROVE MainMatches' /\ AncillaryKept'
  <2>1. client[c].at = "idle" /\ UNCHANGED <<phase, upstream, index>>
    BY <1>3 DEF Disconnect
  <2>2. PICK h : client' = [client EXCEPT ![c] = h]
    BY <1>3 DEF Disconnect, Leaving
  <2> QED BY <1>1, <2>1, <2>2
<1>4. ASSUME NEW S \in SUBSET Upstreams, ForgottenUpstream(S), index' = index, loop' = loop,
             phase = "stopped" => phase' = "stopped",
             \A r \in Upstreams : IF r \in S THEN socket'[r] # "authenticated"
                                             ELSE socket'[r] = socket[r]
      PROVE  MainMatches' /\ AncillaryKept'
  BY <1>4, CloseMain, CloseAncillary
<1>5. ASSUME NEW s \in Upstreams, Lose(s) PROVE MainMatches' /\ AncillaryKept'
  <2>1. /\ ForgottenUpstream({s}) /\ index' = index /\ loop' = loop /\ phase' = phase
        /\ socket' = [socket EXCEPT ![s] = "lost"]
    BY <1>5 DEF Lose
  <2>2. \A r \in Upstreams : IF r \in {s} THEN socket'[r] # "authenticated"
                                          ELSE socket'[r] = socket[r]
    BY <2>1 DEF TypesOK, TypeOK
  <2> QED BY <1>4, <2>1, <2>2
<1>6. ASSUME CloseSockets(Upstreams), index' = index, loop' = loop, phase # "stopped"
      PROVE  MainMatches' /\ AncillaryKept'
  <2>1. \A r \in Upstreams : socket'[r] # "authenticated"
    BY <1>6 DEF CloseSockets
  <2>2. ForgottenUpstream(Upstreams) /\ Upstreams \in SUBSET Upstreams
    BY <1>6 DEF CloseSockets
  <2> QED BY <1>4, <1>6, <2>1, <2>2
<1>7. ASSUME NEW s \in Upstreams, FailTransport(s) PROVE MainMatches' /\ AncillaryKept'
  BY <1>6, <1>7 DEF FailTransport
<1>8. CASE Stop
  BY <1>6, <1>8 DEF Stop
<1>9. CASE Stopped
  <2>1. phase' = "stopped" /\ UNCHANGED <<socket, main, index>>
    BY <1>9 DEF Stopped
  <2> QED BY <2>1 DEF MainMatches, AncillaryKept, IsConnected
<1>10. CASE Supervise
  <2> DEFINE D == {i \in DOMAIN Streams : i > supervisor /\ Dormant(Streams[i])}
  <2>1. UNCHANGED <<phase, socket, main, ancillary, index, client>>
    BY <1>10 DEF Supervise, handlers
  <2>2. \A t \in Tasks : loop[Stocks][t].at = "resubscribing" => loop'[Stocks][t].at = "resubscribing"
    <3>1. CASE D # {}
      <4>1. StartTask(Streams[FirstOf(D)]) /\ D \in SUBSET DOMAIN Streams
        BY <1>10, <3>1 DEF Supervise
      <4> HIDE DEF D
      <4>2. Streams[FirstOf(D)] \in Upstreams
        BY <3>1, <4>1, DormantFirst
      <4> QED BY <4>1, <4>2, StartKeeps, StreamAssumption
    <3>2. CASE D = {}
      BY <1>10, <3>2 DEF Supervise
    <3> QED BY <3>1, <3>2
  <2>3. Wanted(Stocks)' = Wanted(Stocks) /\ Sending({Stocks})' = Sending({Stocks})
    BY <2>1 DEF Wanted, Sending
  <2>4. MainMatches'
    BY <2>1 DEF MainMatches, IsConnected
  <2> QED BY <2>1, <2>2, <2>3, <2>4 DEF AncillaryKept, IsConnected
<1>11. CASE UNCHANGED vars
  <2>1. UNCHANGED <<phase, socket, main, ancillary, index, client, loop>>
    BY <1>11 DEF vars, upstream, handlers
  <2>2. Wanted(Stocks)' = Wanted(Stocks) /\ Sending({Stocks})' = Sending({Stocks})
    BY <2>1 DEF Wanted, Sending
  <2>3. MainMatches'
    BY <2>1 DEF MainMatches, IsConnected
  <2> QED BY <2>1, <2>2, <2>3 DEF AncillaryKept, IsConnected
<1> QED BY <1>2, <1>3, <1>5, <1>7, <1>8, <1>9, <1>10, <1>11 DEF OtherAction

IInv == TypesOK /\ LoopsOK /\ AllGone /\ MainMatches /\ AncillaryKept

(* The strengthening of the properties below is inductive. *)
THEOREM Invariance == Spec => []IInv
<1>1. Init => IInv
  BY InitTypes, InitLoops, InitMain DEF IInv
<1>2. IInv /\ [Next]_vars => IInv'
  <2> SUFFICES ASSUME IInv, [Next]_vars PROVE IInv'
    OBVIOUS
  <2>1. TypesOK' /\ LoopsOK' /\ AllGone'
    BY NextTypes, NextLoops DEF IInv
  <2>2. MainMatches' /\ AncillaryKept'
    BY StepKinds, LoopActionMain, HandlerMain, StepMain DEF IInv
  <2> QED BY <2>1, <2>2 DEF IInv
<1> QED BY <1>1, <1>2, PTL DEF Spec

(* The provider streams exactly what the index of subscriptions has on an   *)
(* authenticated socket (stream.py:497-640, 830-905).                       *)
THEOREM StreamsTheIndex == Spec => []UpstreamMatchesIndex
<1>1. IInv => UpstreamMatchesIndex
  BY DEF IInv, TypesOK, TypeOK, MainMatches, UpstreamMatchesIndex, Wanted
<1> QED BY <1>1, Invariance, PTL

(* Statuses and LULD bands are on while a stock is streamed and no frame is *)
(* under way (stream.py, _send_ancillary_channel_request).                  *)
THEOREM AncillaryKeepsUp == Spec => []AncillaryCovers
<1>1. IInv => AncillaryCovers
  BY DEF IInv, AncillaryKept, AncillaryCovers
<1> QED BY <1>1, Invariance, PTL
=============================================================================
