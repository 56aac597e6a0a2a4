------------------------------ MODULE MCUwPoller ------------------------------
(* The instance of module UwPoller that TLC checks. *)
EXTENDS UwPoller, TLC

CONSTANTS p1, p2, l1, l2, e1

MCProcs == {p1, p2}
MCLiveProcs == {p1}
MCLiveIds == {l1, l2}
MCEodIds == {e1}

=============================================================================
