---------------------------- MODULE OneTimeGrant ----------------------------
(***************************************************************************)
(* What every decoupled OAuth grant of the server promises, independently  *)
(* of how it stores and guards its records: a request is opened, one user  *)
(* may grant it, and a granted request is redeemed at most once, for the   *)
(* user that granted it.  A request that is closed is never redeemed.      *)
(***************************************************************************)
EXTENDS Integers

CONSTANTS Requests, Users, NoUser

VARIABLES
  status,    \* where each request stands
  grantee,   \* the user a request was granted by
  redeemed   \* how many times tokens were handed out for a request

vars == <<status, grantee, redeemed>>

Init ==
  /\ status = [r \in Requests |-> "absent"]
  /\ grantee = [r \in Requests |-> NoUser]
  /\ redeemed = [r \in Requests |-> 0]

Open(r) ==
  /\ status[r] = "absent"
  /\ status' = [status EXCEPT ![r] = "open"]
  /\ UNCHANGED <<grantee, redeemed>>

Grant(r, u) ==
  /\ status[r] = "open"
  /\ status' = [status EXCEPT ![r] = "granted"]
  /\ grantee' = [grantee EXCEPT ![r] = u]
  /\ UNCHANGED redeemed

\* The tokens may be lost on the way to the client: at most once, not exactly once.
Redeem(r) ==
  /\ status[r] = "granted"
  /\ status' = [status EXCEPT ![r] = "redeemed"]
  /\ \E n \in {0, 1} : redeemed' = [redeemed EXCEPT ![r] = @ + n]
  /\ UNCHANGED grantee

Close(r) ==
  /\ status[r] \in {"open", "granted"}
  /\ status' = [status EXCEPT ![r] = "closed"]
  /\ UNCHANGED <<grantee, redeemed>>

Next ==
  \E r \in Requests :
    \/ Open(r)
    \/ \E u \in Users : Grant(r, u)
    \/ Redeem(r)
    \/ Close(r)

Spec == Init /\ [][Next]_vars
=============================================================================
