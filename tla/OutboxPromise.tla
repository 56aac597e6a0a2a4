--------------------------- MODULE OutboxPromise ---------------------------
(***************************************************************************)
(* What the durable event transport promises its producers, with nothing   *)
(* of how it keeps the promise: an event is accepted (made durable), the   *)
(* producer is told so, and the broker ends up holding it.  Nothing is ever *)
(* taken back: a crash, a shutdown, a broker outage or a storage error is   *)
(* invisible at this level.                                                 *)
(*                                                                         *)
(* gateway.core.durable_outbox_sink is shown to implement this in          *)
(* DurableOutbox, by model checking and, for the safety part, by proof.    *)
(***************************************************************************)

CONSTANT Identities    \* what the broker deduplicates on: lane and event id

VARIABLES
  accepted,            \* identities that survive a restart of the gateway
  promised,            \* identities some producer was told are admitted
  delivered            \* identities the broker stores

vars == <<accepted, promised, delivered>>

TypeOK ==
  /\ accepted \subseteq Identities
  /\ promised \subseteq accepted
  /\ delivered \subseteq accepted

Init ==
  /\ accepted = {}
  /\ promised = {}
  /\ delivered = {}

(* A whole batch becomes durable at once. *)
Accept(S) ==
  /\ accepted' = accepted \union S
  /\ UNCHANGED <<promised, delivered>>

(* Only what is already durable is reported to a producer. *)
Promise(S) ==
  /\ S \subseteq accepted
  /\ promised' = promised \union S
  /\ UNCHANGED <<accepted, delivered>>

(* Only what is already durable reaches the broker. *)
Deliver(i) ==
  /\ i \in accepted \ delivered
  /\ delivered' = delivered \union {i}
  /\ UNCHANGED <<accepted, promised>>

Next ==
  \/ \E S \in SUBSET Identities : Accept(S) \/ Promise(S)
  \/ \E i \in Identities : Deliver(i)

Spec == Init /\ [][Next]_vars

(* What a producer that was told True may count on in the end. *)
PromiseKept == \A i \in Identities : i \in promised ~> i \in delivered

=============================================================================
