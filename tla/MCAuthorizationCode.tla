------------------------ MODULE MCAuthorizationCode -------------------------
(* Instances of AuthorizationCode for TLC. *)
EXTENDS AuthorizationCode, TLC

Symmetry ==
  Permutations(Requests) \cup Permutations(JTIs) \cup Permutations(Codes)
    \cup Permutations(Callbacks) \cup Permutations(Redeemers)
=============================================================================
