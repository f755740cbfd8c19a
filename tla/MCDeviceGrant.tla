--------------------------- MODULE MCDeviceGrant ----------------------------
(* Instances of DeviceGrant for TLC. *)
EXTENDS DeviceGrant, TLC

CONSTANTS r1, r2, b1, b2, p1, p2, c1, c2, u1, u2, app1, app2

MCAppOf == [r \in Requests |-> app1]
\* Every browser runs the flow of the requesting application, except that b2 runs
\* that of another one where the instance has two applications.
MCAppIn == [b \in Browsers |-> IF b = b2 /\ app2 \in Apps THEN app2 ELSE app1]

Symmetry == Permutations(Pollers) \cup Permutations(Callbacks) \cup Permutations(Users)
\* Where there is one application, the browsers are interchangeable too.
SymmetryOneApp == Symmetry \cup Permutations(Browsers)
=============================================================================
