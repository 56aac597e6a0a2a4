--------------------------- MODULE MCBackfillJobs ---------------------------
(* Small instances of BackfillJobs for TLC. *)
EXTENDS BackfillJobs
=============================================================================
