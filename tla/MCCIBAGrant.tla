---------------------------- MODULE MCCIBAGrant -----------------------------
(* Instances of CIBAGrant for TLC. *)
EXTENDS CIBAGrant, TLC

CONSTANTS r1, r2, p1, p2, c1, c2, u1, u2

Symmetry == Permutations(Pollers) \cup Permutations(Callbacks) \cup Permutations(Users)
=============================================================================
