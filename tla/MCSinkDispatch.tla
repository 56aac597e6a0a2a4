-------------------------- MODULE MCSinkDispatch --------------------------
(* Small instances of SinkDispatch for TLC. *)
EXTENDS SinkDispatch, TLC

CONSTANTS e1, e2, e3, e4

MCEvents == {e1, e2, e3, e4}

TwoSingles == {e1, e2}
PairAndParts == {<<e3, e4>>, <<e3>>, <<e4>>}
NoBatches == {}
=============================================================================
