------------------------- MODULE MCRefreshRotation --------------------------
(* An instance of RefreshRotation for TLC.  Requests of one party are               *)
(* interchangeable.                                                                 *)
EXTENDS RefreshRotation, TLC

Symmetry == Permutations(ClientRequests) \cup Permutations(CopyRequests)
=============================================================================
