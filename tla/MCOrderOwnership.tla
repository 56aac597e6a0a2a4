-------------------------- MODULE MCOrderOwnership --------------------------
(* Small instances of OrderOwnership for TLC.  Tasks and clients are       *)
(* interchangeable: no definition names one.                               *)
EXTENDS OrderOwnership, TLC

Interchangeable == Permutations(Tasks) \union Permutations(Clients)
=============================================================================
