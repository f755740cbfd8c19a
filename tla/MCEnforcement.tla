--------------------------- MODULE MCEnforcement ----------------------------
(* Instances of Enforcement for TLC. *)
EXTENDS Enforcement, TLC

Symmetry == Permutations(Checks)
=============================================================================
