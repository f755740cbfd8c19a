---------------------------- MODULE MCSSOSession ----------------------------
(* An instance of SSOSession for TLC: a login to the application app0 is over,   *)
(* and the other submissions are of one execution that signs in to app1.         *)
EXTENDS SSOSession, TLC

CONSTANTS e0, e1, app0, app1

MCExecutionOf == [j \in Joins |-> IF j = First THEN e0 ELSE e1]
MCAppOf == (e0 :> app0) @@ (e1 :> app1)
Symmetry == Permutations(Joins \ {First}) \cup Permutations(Subjects)
=============================================================================
