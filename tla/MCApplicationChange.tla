------------------------ MODULE MCApplicationChange -------------------------
(* An instance of ApplicationChange for TLC.  Administrators, requests and      *)
(* secrets are interchangeable.                                                 *)
EXTENDS ApplicationChange, TLC

Symmetry == Permutations(Admins) \cup Permutations(Requests)
=============================================================================
