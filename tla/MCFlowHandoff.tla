--------------------------- MODULE MCFlowHandoff ---------------------------
(* Small instances of FlowHandoff for TLC: the second event is of another  *)
(* underlying than the rest.                                               *)
EXTENDS FlowHandoff, TLC

MCSymbolOf == [e \in 1 .. MaxEvents |-> IF e = 2 THEN "QQQ" ELSE "SPY"]
MCRequests == {{"SPY"}, {"SPY", "QQQ"}}
=============================================================================
