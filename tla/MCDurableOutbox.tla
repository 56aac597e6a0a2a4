-------------------------- MODULE MCDurableOutbox --------------------------
(* Small instances of DurableOutbox for TLC. *)
EXTENDS DurableOutbox

Event(t, i, b) == [topic |-> t, id |-> i, body |-> b]

MCTopics == {"heber:events", "heber:events:backfill", "heber:watch"}

\* Safety: one event, the same key with other content, and a flow record.
SafetySingles == {Event("heber:events", 1, "a"), Event("heber:events", 1, "b")}
SafetyFlows   == {<<Event("heber:events", 2, "a")>>}

\* Liveness: an event that is published alone and in a batch with another.
LiveSingles == {Event("heber:events", 1, "a")}
LiveBatches == {<<Event("heber:events", 1, "a"), Event("heber:events", 2, "a")>>}

NoBatches == {}
=============================================================================
