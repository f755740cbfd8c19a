----------------------- MODULE CIBAEnforcementProofs ------------------------
(***************************************************************************)
(* Machine-checked proofs about two components that share no state:        *)
(* CIBAGrant, which decides who gets tokens, and Enforcement, which        *)
(* decides whether a token that is presented is accepted.  The definitions *)
(* that both have (an initial predicate, a next-state relation, ...) carry *)
(* the prefix of their component in Enforcement.                           *)
(*                                                                         *)
(* The results hold for any number of requests, users, pollers and         *)
(* callbacks and any lifetimes; for any number of checks and tokens and    *)
(* every threshold and open duration.                                      *)
(***************************************************************************)
EXTENDS CIBAGrant, Enforcement, TLAPS

-----------------------------------------------------------------------------
(* CIBAGrant: the inductive invariant *)

\* A handler that is under way has a request.
Bound ==
  /\ \A p \in Pollers : poller[p].pc # "idle" => poller[p].req \in Requests
  /\ \A c \in Callbacks : callback[c].pc # "idle" => callback[c].req \in Requests

\* The states that a swap asks for.
Active == {"PENDING", "AUTHENTICATED"}

\* The states a request can have after it had the state s.  A plain update may put
\* FAILED or EXPIRED over anything, and nothing leads back to an active state.
After(s) ==
  CASE s = "ABSENT" -> States \cup {"ABSENT"}
    [] s = "PENDING" -> States
    [] OTHER -> {s, "FAILED", "EXPIRED"} \cup (IF s = "AUTHENTICATED" THEN {"CONSUMED"} ELSE {})

SameTimes(old, new) == new.expiry = old.expiry /\ new.storedUntil = old.storedUntil

\* A record that was `old` can be `new` later.
Follows(old, new) ==
  /\ new.state \in After(old.state)
  /\ SameTimes(old, new)
  /\ new.state = old.state /\ old.state \in Active => new.user = old.user

\* Some handler read `snap` for r, whatever was written since.
Snapshot(snap, r) == snap.state # "ABSENT" /\ Follows(snap, rec[r])

\* An outcome of a flow of r that lets u have tokens.
Consent(a, r, u) ==
  /\ a.req = r /\ a.error = "none" /\ a.user = u
  /\ r \in WithDetails => a.decided

Consented(r, u) == u \in Users /\ \E a \in assertions : Consent(a, r, u)

(***************************************************************************)
(* The handlers write whole records that they read before, some of them    *)
(* over any state.  This is harmless because nothing leads back to a state *)
(* that a swap asks for: a swap that succeeds finds the record it read.    *)
(***************************************************************************)
PollerSnap(p) ==
  /\ poller[p].pc \in {"idle", "decide"} <=> poller[p].op = "none"
  /\ poller[p].pc # "idle" => Snapshot(poller[p].snap, poller[p].req)
  /\ poller[p].pc = "write" /\ poller[p].op = "poll" => poller[p].snap.state = "PENDING"
  /\ poller[p].op = "consume" =>
       /\ poller[p].snap.state = "AUTHENTICATED"
       /\ poller[p].user = poller[p].snap.user
       /\ authenticatedAt[poller[p].req] <= poller[p].snap.expiry

CallbackSnap(c) ==
  /\ callback[c].pc # "idle" =>
       \/ callback[c].guarded /\ callback[c].target \in {"AUTHENTICATED", "DENIED", "FAILED"}
       \/ callback[c].target = "FAILED"
  /\ callback[c].pc # "idle" /\ callback[c].target = "AUTHENTICATED" =>
       Consented(callback[c].req, callback[c].user)
  /\ callback[c].pc = "write" =>
       /\ Snapshot(callback[c].snap, callback[c].req)
       /\ callback[c].guarded => callback[c].snap.state = "PENDING"

SnapInv ==
  /\ \A p \in Pollers : PollerSnap(p)
  /\ \A c \in Callbacks : CallbackSnap(c)

\* What is known of a request, its grant and its tokens.
GrantInv(r) ==
  /\ initiation[r] \in {"none", "flow"} => rec[r].state = "ABSENT"
  /\ rec[r].storedUntil <= rec[r].expiry
  /\ authenticatedAt[r] <= clock
  /\ rec[r].state \in {"ABSENT", "PENDING"} => grantee[r] = NoUser
  /\ rec[r].state = "AUTHENTICATED" =>
       grantee[r] = rec[r].user /\ Consented(r, rec[r].user)
  /\ issued[r] <= consumed[r]
  /\ consumed[r] = 0
     \/ /\ consumed[r] = 1
        /\ rec[r].state \in {"CONSUMED", "FAILED", "EXPIRED"}
        /\ authenticatedAt[r] <= rec[r].expiry
  /\ issued[r] > 0 => tokenUser[r] = grantee[r] /\ Consented(r, tokenUser[r])
  /\ told[r] \cap {"access_denied", "failed"} # {} =>
       rec[r].state \in {"DENIED", "FAILED", "EXPIRED"}

\* A flow that succeeded has a user.
AssertionsTrue == \A a \in assertions : a.error = "none" => a.user \in Users

GrantsInv == \A r \in Requests : GrantInv(r)

CIBAInv == TypeOK /\ Bound /\ SnapInv /\ AssertionsTrue /\ GrantsInv

-----------------------------------------------------------------------------
(* CIBAGrant: types *)

LEMMA IdleTypes ==
  /\ NoRecord \in Record
  /\ IdlePoller \in Poller
  /\ IdleCallback \in Callback
  BY DEF NoRecord, Record, IdlePoller, Poller, IdleCallback, Callback

\* Ending a token request keeps the types of what it changes.
LEMMA AnswerTypes ==
  ASSUME TypeOK, Bound, NEW p \in Pollers, NEW a, Answer(p, a),
         a \in Refusals => poller[p].pc # "idle"
  PROVE  /\ poller' \in [Pollers -> Poller] /\ told' \in [Requests -> SUBSET Refusals]
         /\ \A q \in Pollers : poller'[q].pc # "idle" => poller'[q].req \in Requests
<1>1. poller' \in [Pollers -> Poller] /\ poller' = [poller EXCEPT ![p] = IdlePoller]
  BY IdleTypes DEF TypeOK, Answer
<1>2. told' \in [Requests -> SUBSET Refusals]
  BY DEF TypeOK, Answer, Bound
<1> QED BY <1>1, <1>2 DEF TypeOK, Bound, IdlePoller

\* A token request that goes on keeps them as well.
LEMMA GoesOnTypes ==
  ASSUME TypeOK, Bound, NEW p \in Pollers, NEW new \in Poller, new.req \in Requests,
         poller' = [poller EXCEPT ![p] = new]
  PROVE  /\ poller' \in [Pollers -> Poller]
         /\ \A q \in Pollers : poller'[q].pc # "idle" => poller'[q].req \in Requests
  BY DEF TypeOK, Bound

LEMMA InitiationTypes ==
  ASSUME TypeOK, Bound, NEW r \in Requests, InitiationStep(r)
  PROVE  TypeOK' /\ Bound'
<1>1. CASE StartFlow(r) \/ InitiationFails(r)
  BY <1>1 DEF StartFlow, InitiationFails, TypeOK, Bound, flowVars, pollVars
<1>2. CASE FlowEnds(r)
  <2>1. Outcomes(r) \subseteq Assertion
    <3>1. ASSUME NEW u \in Users, NEW d \in BOOLEAN
          PROVE  [req |-> r, user |-> u, error |-> "none", decided |-> d] \in Assertion
      BY DEF Assertion, FlowErrors
    <3>2. ASSUME NEW e \in {"END_USER", "OTHER"}
          PROVE  [req |-> r, user |-> NoUser, error |-> e, decided |-> FALSE] \in Assertion
      BY DEF Assertion, FlowErrors
    <3>3. ASSUME NEW a \in Outcomes(r) PROVE a \in Assertion
      <4>1. CASE \E u \in Users, d \in BOOLEAN :
                   a = [req |-> r, user |-> u, error |-> "none", decided |-> d]
        BY <3>1, <4>1
      <4>2. CASE \E e \in {"END_USER", "OTHER"} :
                   a = [req |-> r, user |-> NoUser, error |-> e, decided |-> FALSE]
        BY <3>2, <4>2
      <4> QED BY <4>1, <4>2 DEF Outcomes
    <3> QED BY <3>3
  <2>2. assertions' \subseteq Assertion
    BY <1>2, <2>1 DEF FlowEnds, TypeOK
  <2> QED BY <1>2, <2>2 DEF FlowEnds, TypeOK, Bound, pollVars
<1>3. ASSUME NEW e \in Expiries, StoreRequest(r, e) PROVE TypeOK' /\ Bound'
  <2>1. clock \in Nat /\ e \in Nat /\ e > 0
    BY CIBAGrantConstants DEF TypeOK
  <2>2. clock + e \in Nat /\ StoredUntil(TTL(e), clock) \in Nat
    BY <2>1 DEF StoredUntil, TTL, Never
  <2>3. [NoRecord EXCEPT !.state = "PENDING", !.expiry = clock + e,
                         !.storedUntil = StoredUntil(TTL(e), clock)] \in Record
    BY <2>2 DEF NoRecord, Record, States
  <2> QED BY <1>3, <2>3 DEF StoreRequest, TypeOK, Bound, flowVars, pollVars
<1> QED BY <1>1, <1>2, <1>3 DEF InitiationStep

LEMMA TargetTypes ==
  ASSUME NEW r, NEW a
  PROVE  Target(r, a) \in {"AUTHENTICATED", "DENIED", "FAILED"}
  BY DEF Target

\* A callback request that goes on with a request, or ends.
LEMMA CallbackKeepsTypes ==
  ASSUME TypeOK, Bound, NEW c \in Callbacks, NEW new \in Callback,
         new.pc = "idle" \/ new.req \in Requests,
         callback' = [callback EXCEPT ![c] = new],
         UNCHANGED <<clock, initiation, assertions, pollVars>>,
         rec' \in [Requests -> Record], grantee' \in [Requests -> Users \cup {NoUser}],
         authenticatedAt' \in [Requests -> Nat]
  PROVE  TypeOK' /\ Bound'
<1>1. callback' \in [Callbacks -> Callback]
  BY DEF TypeOK
<1>2. Bound'
  BY DEF TypeOK, Bound, pollVars
<1> QED BY <1>1, <1>2 DEF TypeOK, pollVars

LEMMA CallbackTypes ==
  ASSUME TypeOK, Bound, NEW c \in Callbacks, CallbackStep(c)
  PROVE  TypeOK' /\ Bound'
<1>0. /\ rec \in [Requests -> Record] /\ grantee \in [Requests -> Users \cup {NoUser}]
      /\ authenticatedAt \in [Requests -> Nat] /\ callback[c] \in Callback /\ clock \in Nat
  BY DEF TypeOK
<1>1. ASSUME NEW r \in Requests, NEW u \in Users \cup {NoUser}, NEW s \in States,
             NEW g \in BOOLEAN, Continue(c, r, u, s, g)
      PROVE  TypeOK' /\ Bound'
  <2> DEFINE new == [IdleCallback EXCEPT !.pc = "reread", !.req = r, !.user = u,
                                         !.target = s, !.guarded = g]
  <2>1. new \in Callback /\ new.req = r
    BY IdleTypes DEF IdleCallback, Callback
  <2>2. callback' = [callback EXCEPT ![c] = new]
        /\ UNCHANGED <<clock, initiation, rec, assertions, grantee, authenticatedAt, pollVars>>
    BY <1>1 DEF Continue
  <2> HIDE DEF new
  <2> QED BY <1>0, <2>1, <2>2, CallbackKeepsTypes
<1>2. ASSUME NEW a \in assertions, NEW r \in Requests,
             CallbackLoad(c, r, a) \/ CallbackUnchecked(c, r, a)
      PROVE  TypeOK' /\ Bound'
  <2>1. a.user \in Users \cup {NoUser} /\ Target(r, a) \in States
    BY TargetTypes DEF TypeOK, Assertion, States
  <2> QED BY <1>1, <1>2, <2>1 DEF CallbackLoad, CallbackUnchecked, States
<1>i. ASSUME callback' = [callback EXCEPT ![c] = IdleCallback],
             UNCHANGED <<clock, initiation, assertions, pollVars>>,
             rec' \in [Requests -> Record], grantee' \in [Requests -> Users \cup {NoUser}],
             authenticatedAt' \in [Requests -> Nat]
      PROVE  TypeOK' /\ Bound'
  <2>1. IdleCallback.pc = "idle"
    BY DEF IdleCallback
  <2> QED BY <1>i, <2>1, IdleTypes, CallbackKeepsTypes
<1>3. CASE CallbackRead(c)
  <2> DEFINE r == callback[c].req
             new == [callback[c] EXCEPT !.pc = "write", !.snap = rec[r], !.since = clock]
  <2>1. r \in Requests
    BY <1>3 DEF CallbackRead, Bound
  <2>2. new \in Callback /\ new.req = r
    BY <1>0, <2>1 DEF Callback
  <2>3. \/ callback' = [callback EXCEPT ![c] = new]
        \/ callback' = [callback EXCEPT ![c] = IdleCallback]
    BY <1>3 DEF CallbackRead
  <2>4. UNCHANGED <<clock, initiation, rec, assertions, grantee, authenticatedAt, pollVars>>
    BY <1>3 DEF CallbackRead
  <2> HIDE DEF new
  <2> QED BY <1>0, <1>i, <2>1, <2>2, <2>3, <2>4, CallbackKeepsTypes
<1>4. CASE CallbackWrite(c)
  <2>1. callback[c].req \in Requests /\ callback[c].user \in Users \cup {NoUser}
    BY <1>0, <1>4 DEF CallbackWrite, Bound, Callback
  <2>2. ASSUME rec' # rec PROVE Decided(c) \in Record
    <3>1. callback[c].snap \in Record /\ callback[c].target \in States \cup {"ABSENT"}
      BY <1>0 DEF Callback
    <3> QED BY <2>1, <3>1 DEF Decided, Record, States
  <2>3. /\ rec' \in [Requests -> Record] /\ grantee' \in [Requests -> Users \cup {NoUser}]
        /\ authenticatedAt' \in [Requests -> Nat]
    BY <1>0, <1>4, <2>1, <2>2 DEF CallbackWrite
  <2> QED BY <1>4, <1>i, <2>3 DEF CallbackWrite
<1>5. CASE CallbackAborted(c)
  BY <1>0, <1>5, <1>i DEF CallbackAborted
<1> QED BY <1>2, <1>3, <1>4, <1>5 DEF CallbackStep

\* What a step of a token request leaves alone.
pollFrame == <<clock, initiation, flowVars>>

LEMMA PollKeepsTypes ==
  ASSUME TypeOK, Bound, UNCHANGED pollFrame,
         poller' \in [Pollers -> Poller], told' \in [Requests -> SUBSET Refusals],
         \A q \in Pollers : poller'[q].pc # "idle" => poller'[q].req \in Requests,
         rec' \in [Requests -> Record], polls' \in Nat, consumed' \in [Requests -> Nat],
         issued' \in [Requests -> Nat], tokenUser' \in [Requests -> Users \cup {NoUser}]
  PROVE  TypeOK' /\ Bound'
<1>1. Bound'
  BY DEF Bound, pollFrame, flowVars
<1> QED BY <1>1 DEF TypeOK, pollFrame, flowVars

LEMMA PollerTypes ==
  ASSUME TypeOK, Bound, NEW p \in Pollers, PollerStep(p)
  PROVE  TypeOK' /\ Bound'
<1>0. /\ rec \in [Requests -> Record] /\ polls \in Nat /\ consumed \in [Requests -> Nat]
      /\ issued \in [Requests -> Nat] /\ tokenUser \in [Requests -> Users \cup {NoUser}]
      /\ poller[p] \in Poller /\ poller[p].snap \in Record /\ clock \in Nat
      /\ told \in [Requests -> SUBSET Refusals]
  BY DEF TypeOK, Poller
<1>r. poller[p].pc # "idle" => poller[p].req \in Requests
  BY DEF Bound
<1>1. ASSUME NEW r \in Requests, PollRead(p, r) PROVE TypeOK' /\ Bound'
  <2> DEFINE new == [poller[p] EXCEPT !.pc = "decide", !.req = r, !.snap = rec[r]]
  <2>1. new \in Poller /\ new.req = r
    BY <1>0 DEF Poller
  <2>2. \/ poller' = [poller EXCEPT ![p] = new] /\ told' = told
        \/ Answer(p, "invalid_grant")
    BY <1>1 DEF PollRead
  <2>3. /\ poller' \in [Pollers -> Poller] /\ told' \in [Requests -> SUBSET Refusals]
        /\ \A q \in Pollers : poller'[q].pc # "idle" => poller'[q].req \in Requests
    <3> HIDE DEF new
    <3> QED BY <1>0, <2>1, <2>2, GoesOnTypes, AnswerTypes DEF Refusals
  <2> QED BY <1>0, <1>1, <2>3, PollKeepsTypes DEF PollRead, pollFrame
<1>g. ASSUME NEW op \in {"poll", "expire", "consume"}, PollGoesOn(p, op), poller[p].pc # "idle"
      PROVE  /\ poller' \in [Pollers -> Poller] /\ told' \in [Requests -> SUBSET Refusals]
             /\ \A q \in Pollers : poller'[q].pc # "idle" => poller'[q].req \in Requests
  <2> DEFINE u == IF op = "consume" THEN poller[p].snap.user ELSE NoUser
             new == [poller[p] EXCEPT !.pc = "reread", !.op = op, !.user = u]
  <2>1. u \in Users \cup {NoUser}
    BY <1>0 DEF Record
  <2>2. new \in Poller /\ new.req = poller[p].req
    <3> HIDE DEF u
    <3> QED BY <1>0, <2>1 DEF Poller
  <2>3. poller' = [poller EXCEPT ![p] = new] /\ told' = told
    BY <1>g DEF PollGoesOn
  <2> HIDE DEF new
  <2> QED BY <1>0, <1>r, <1>g, <2>2, <2>3, GoesOnTypes
<1>2. CASE PollDecide(p)
  <2>1. poller[p].pc # "idle"
    BY <1>2 DEF PollDecide
  <2>2. \/ \E op \in {"poll", "expire", "consume"} : PollGoesOn(p, op)
        \/ \E a \in Refusals \cup {"invalid_grant"} : Answer(p, a)
    BY <1>2 DEF PollDecide, Refusals
  <2>3. /\ poller' \in [Pollers -> Poller] /\ told' \in [Requests -> SUBSET Refusals]
        /\ \A q \in Pollers : poller'[q].pc # "idle" => poller'[q].req \in Requests
    BY <1>g, <2>1, <2>2, AnswerTypes
  <2> QED BY <1>0, <1>2, <2>3, PollKeepsTypes DEF PollDecide, pollFrame
<1>3. CASE IssueRefused(p) \/ PollAborted(p)
  <2>1. poller[p].pc # "idle" /\ \E a : Answer(p, a)
    BY <1>3 DEF IssueRefused, PollAborted
  <2>2. /\ poller' \in [Pollers -> Poller] /\ told' \in [Requests -> SUBSET Refusals]
        /\ \A q \in Pollers : poller'[q].pc # "idle" => poller'[q].req \in Requests
    BY <2>1, AnswerTypes
  <2> QED BY <1>0, <1>3, <2>2, PollKeepsTypes DEF IssueRefused, PollAborted, pollFrame
<1>4. CASE PollReread(p)
  <2> DEFINE new == [poller[p] EXCEPT !.pc = "write", !.snap = rec[poller[p].req], !.since = clock]
  <2>1. poller[p].req \in Requests
    BY <1>4, <1>r DEF PollReread
  <2>2. new \in Poller /\ new.req = poller[p].req
    BY <1>0, <2>1 DEF Poller
  <2>3. \/ poller' = [poller EXCEPT ![p] = new] /\ told' = told
        \/ \E a : Answer(p, a)
    BY <1>4 DEF PollReread
  <2>4. /\ poller' \in [Pollers -> Poller] /\ told' \in [Requests -> SUBSET Refusals]
        /\ \A q \in Pollers : poller'[q].pc # "idle" => poller'[q].req \in Requests
    <3>1. poller[p].pc # "idle"
      BY <1>4 DEF PollReread
    <3> HIDE DEF new
    <3> QED BY <1>0, <2>1, <2>2, <2>3, <3>1, GoesOnTypes, AnswerTypes
  <2> QED BY <1>0, <1>4, <2>4, PollKeepsTypes DEF PollReread, pollFrame
<1>5. CASE PollWrite(p) \/ ExpireWrite(p) \/ ConsumeWrite(p)
  <2>1. poller[p].pc # "idle" /\ \E a : Answer(p, a)
    BY <1>5 DEF PollWrite, ExpireWrite, ConsumeWrite
  <2>2. /\ poller' \in [Pollers -> Poller] /\ told' \in [Requests -> SUBSET Refusals]
        /\ \A q \in Pollers : poller'[q].pc # "idle" => poller'[q].req \in Requests
    BY <2>1, AnswerTypes
  <2>3. /\ [poller[p].snap EXCEPT !.state = "EXPIRED"] \in Record
        /\ [poller[p].snap EXCEPT !.state = "CONSUMED"] \in Record
        /\ poller[p].user \in Users \cup {NoUser}
    BY <1>0 DEF Poller, Record, States
  <2>4. /\ rec' \in [Requests -> Record] /\ consumed' \in [Requests -> Nat]
        /\ issued' \in [Requests -> Nat] /\ tokenUser' \in [Requests -> Users \cup {NoUser}]
    <3>1. CASE PollWrite(p)
      BY <1>0, <3>1 DEF PollWrite
    <3>2. CASE ExpireWrite(p)
      BY <1>0, <2>3, <3>2 DEF ExpireWrite
    <3>3. CASE ConsumeWrite(p)
      BY <1>0, <2>3, <3>3 DEF ConsumeWrite
    <3> QED BY <1>5, <3>1, <3>2, <3>3
  <2>5. polls' \in Nat /\ UNCHANGED pollFrame
    BY <1>0, <1>5 DEF PollWrite, ExpireWrite, ConsumeWrite, pollFrame
  <2> QED BY <2>2, <2>4, <2>5, PollKeepsTypes
<1> QED BY <1>1, <1>2, <1>3, <1>4, <1>5 DEF PollerStep

LEMMA NextTypes == TypeOK /\ Bound /\ [Next]_vars => TypeOK' /\ Bound'
<1> SUFFICES ASSUME TypeOK, Bound, [Next]_vars PROVE TypeOK' /\ Bound'
  OBVIOUS
<1>1. CASE Tick \/ UNCHANGED vars
  BY <1>1 DEF Tick, vars, TypeOK, Bound, flowVars, pollVars
<1> QED BY <1>1, InitiationTypes, CallbackTypes, PollerTypes DEF Next

LEMMA CIBAInit == Init => TypeOK /\ Bound
  BY IdleTypes DEF Init, TypeOK, Bound, IdlePoller, IdleCallback

\* Whatever the handlers of the CIBA endpoints do, every record, answer and
\* assertion keeps its type, and a handler under way has a request.
THEOREM CIBATypes == Spec => [](TypeOK /\ Bound)
<1> QED BY CIBAInit, NextTypes, PTL DEF Spec

-----------------------------------------------------------------------------
(* CIBAGrant: how a record moves *)

\* The transitions of a stored record.
Moves(old, new) ==
  /\ SameTimes(old, new)
  /\ \/ new.state = old.state /\ new.user = old.user
     \/ old.state = "PENDING" /\ new.state \in {"AUTHENTICATED", "DENIED"}
     \/ old.state = "AUTHENTICATED" /\ new.state = "CONSUMED"
     \/ new.state \in {"FAILED", "EXPIRED"}

LEMMA FollowsFromRead ==
  ASSUME NEW x \in Record
  PROVE  Follows(x, x)
  BY DEF Follows, SameTimes, After, Record, States

LEMMA FollowsOn ==
  ASSUME NEW x \in Record, NEW y \in Record, NEW z \in Record,
         x.state # "ABSENT", Follows(x, y), Follows(y, z)
  PROVE  Follows(x, z)
<1>1. z.state \in After(x.state)
  BY DEF Follows, After, Record, States
<1>2. ASSUME z.state = x.state, x.state \in Active PROVE y.state = x.state
  BY <1>2 DEF Follows, After, Active, Record, States
<1> QED BY <1>1, <1>2 DEF Follows, SameTimes

LEMMA MovesFollow ==
  ASSUME NEW old \in Record, NEW new \in Record, Moves(old, new), old.state # "ABSENT"
  PROVE  Follows(old, new)
  BY DEF Moves, Follows, SameTimes, After, Active, Record, States

\* The swap, and the plain update of UpdateState, of a record that was read.
LEMMA WriteOfRead ==
  ASSUME NEW snap \in Record, NEW old, Follows(snap, old), NEW s
  PROVE  /\ [snap EXCEPT !.state = s].state = s
         /\ SameTimes(old, [snap EXCEPT !.state = s])
  BY DEF Follows, SameTimes, Record

\* What a callback makes of the record and of the grant of q.
LEMMA CallbackMoves ==
  ASSUME TypeOK, Bound, SnapInv, NEW c \in Callbacks, CallbackWrite(c), NEW q \in Requests
  PROVE  \/ /\ rec'[q] = rec[q] /\ grantee'[q] = grantee[q]
            /\ authenticatedAt'[q] = authenticatedAt[q]
         \/ /\ q = callback[c].req /\ callback[c].target = "AUTHENTICATED"
            /\ rec[q].state = "PENDING" /\ rec'[q].state = "AUTHENTICATED"
            /\ rec'[q].user = callback[c].user /\ SameTimes(rec[q], rec'[q])
            /\ grantee'[q] = callback[c].user /\ authenticatedAt'[q] = clock
         \/ /\ q = callback[c].req /\ rec[q].state # "ABSENT" /\ SameTimes(rec[q], rec'[q])
            /\ \/ rec[q].state = "PENDING" /\ rec'[q].state = "DENIED"
               \/ rec'[q].state = "FAILED"
            /\ grantee'[q] = grantee[q] /\ authenticatedAt'[q] = authenticatedAt[q]
<1> DEFINE r == callback[c].req
           snap == callback[c].snap
           s == callback[c].target
<1>1. /\ r \in Requests /\ snap \in Record /\ rec \in [Requests -> Record]
      /\ grantee \in [Requests -> Users \cup {NoUser}] /\ authenticatedAt \in [Requests -> Nat]
      /\ callback[c].pc = "write"
  BY DEF CallbackWrite, Bound, TypeOK, Callback
<1>2. /\ Follows(snap, rec[r]) /\ snap.state # "ABSENT"
      /\ \/ callback[c].guarded /\ s \in {"AUTHENTICATED", "DENIED", "FAILED"}
         \/ s = "FAILED"
  BY <1>1 DEF SnapInv, CallbackSnap, Snapshot
<1>3. rec[r].state # "ABSENT"
  BY <1>1, <1>2 DEF Follows, After, Record, States
<1>4. \/ /\ rec' = [rec EXCEPT ![r] = Decided(c)]
         /\ callback[c].guarded => rec[r].state = "PENDING"
         /\ IF s = "AUTHENTICATED"
              THEN /\ grantee' = [grantee EXCEPT ![r] = callback[c].user]
                   /\ authenticatedAt' = [authenticatedAt EXCEPT ![r] = clock]
              ELSE UNCHANGED <<grantee, authenticatedAt>>
      \/ UNCHANGED <<rec, grantee, authenticatedAt>>
  BY DEF CallbackWrite, CallbackWrites, Swaps, FieldMatches
<1>5. CASE q # r \/ UNCHANGED <<rec, grantee, authenticatedAt>>
  BY <1>1, <1>4, <1>5
<1>6. CASE /\ q = r /\ s = "AUTHENTICATED"
           /\ rec' = [rec EXCEPT ![r] = Decided(c)] /\ rec[r].state = "PENDING"
           /\ grantee' = [grantee EXCEPT ![r] = callback[c].user]
           /\ authenticatedAt' = [authenticatedAt EXCEPT ![r] = clock]
  <2>1. /\ Decided(c).state = "AUTHENTICATED" /\ Decided(c).user = callback[c].user
        /\ SameTimes(rec[r], Decided(c))
    BY <1>1, <1>2, <1>6 DEF Decided, Follows, SameTimes, Record
  <2> QED BY <1>1, <1>6, <2>1
<1>7. CASE /\ q = r /\ s # "AUTHENTICATED"
           /\ rec' = [rec EXCEPT ![r] = Decided(c)]
           /\ s = "DENIED" => rec[r].state = "PENDING"
           /\ UNCHANGED <<grantee, authenticatedAt>>
  <2>1. Decided(c) = [snap EXCEPT !.state = s]
    BY <1>7 DEF Decided
  <2>2. Decided(c).state = s /\ SameTimes(rec[r], Decided(c))
    BY <1>1, <1>2, <2>1, WriteOfRead
  <2>3. s \in {"DENIED", "FAILED"}
    BY <1>2, <1>7
  <2> QED BY <1>1, <1>3, <1>7, <2>2, <2>3
<1> QED BY <1>2, <1>4, <1>5, <1>6, <1>7

LEMMA PollMoves ==
  ASSUME TypeOK, Bound, SnapInv, NEW p \in Pollers, PollWrite(p), NEW q \in Requests
  PROVE  \/ rec'[q] = rec[q]
         \/ /\ rec[q].state = "PENDING" /\ rec'[q].state = rec[q].state
            /\ rec'[q].user = rec[q].user /\ SameTimes(rec[q], rec'[q])
<1> DEFINE r == poller[p].req
           snap == poller[p].snap
<1>1. r \in Requests /\ snap \in Record /\ rec \in [Requests -> Record]
  BY DEF PollWrite, Bound, TypeOK, Poller
<1>2. Follows(snap, rec[r]) /\ snap.state = "PENDING"
  BY DEF PollWrite, SnapInv, PollerSnap, Snapshot
<1>3. rec' = rec \/ (rec[r].state = "PENDING" /\ rec' = [rec EXCEPT ![r] = snap])
  BY DEF PollWrite, Swaps, FieldMatches
<1>4. ASSUME rec[r].state = "PENDING" PROVE snap.user = rec[r].user /\ SameTimes(rec[r], snap)
  BY <1>2, <1>4 DEF Follows, SameTimes, Active
<1> QED BY <1>1, <1>2, <1>3, <1>4

LEMMA ExpireMoves ==
  ASSUME TypeOK, Bound, SnapInv, NEW p \in Pollers, ExpireWrite(p), NEW q \in Requests
  PROVE  \/ rec'[q] = rec[q]
         \/ rec[q].state # "ABSENT" /\ rec'[q].state = "EXPIRED" /\ SameTimes(rec[q], rec'[q])
<1> DEFINE r == poller[p].req
           snap == poller[p].snap
           new == [snap EXCEPT !.state = "EXPIRED"]
<1>1. r \in Requests /\ snap \in Record /\ rec \in [Requests -> Record]
  BY DEF ExpireWrite, Bound, TypeOK, Poller
<1>2. Follows(snap, rec[r]) /\ snap.state # "ABSENT"
  BY DEF ExpireWrite, SnapInv, PollerSnap, Snapshot
<1>3. rec' = rec \/ rec' = [rec EXCEPT ![r] = new]
  BY DEF ExpireWrite
<1>4. new.state = "EXPIRED" /\ SameTimes(rec[r], new)
  BY <1>1, <1>2, WriteOfRead
<1>5. rec[r].state # "ABSENT"
  BY <1>1, <1>2 DEF Follows, After, Record, States
<1> HIDE DEF new
<1> QED BY <1>1, <1>3, <1>4, <1>5

\* The consuming swap: of the record, of the counts and of the subject of the tokens.
LEMMA ConsumeMoves ==
  ASSUME TypeOK, Bound, SnapInv, NEW p \in Pollers, ConsumeWrite(p), NEW q \in Requests
  PROVE  \/ /\ rec'[q] = rec[q] /\ consumed'[q] = consumed[q]
            /\ issued'[q] = issued[q] /\ tokenUser'[q] = tokenUser[q]
         \/ /\ q = poller[p].req /\ rec[q].state = "AUTHENTICATED"
            /\ rec'[q].state = "CONSUMED" /\ SameTimes(rec[q], rec'[q])
            /\ authenticatedAt[q] <= rec[q].expiry
            /\ consumed'[q] = consumed[q] + 1
            /\ \/ issued'[q] = issued[q] + 1 /\ tokenUser'[q] = rec[q].user
               \/ issued'[q] = issued[q] /\ tokenUser'[q] = tokenUser[q]
<1> DEFINE r == poller[p].req
           snap == poller[p].snap
           new == [snap EXCEPT !.state = "CONSUMED"]
<1>1. /\ r \in Requests /\ snap \in Record /\ rec \in [Requests -> Record]
      /\ consumed \in [Requests -> Nat] /\ issued \in [Requests -> Nat]
      /\ tokenUser \in [Requests -> Users \cup {NoUser}]
  BY DEF ConsumeWrite, Bound, TypeOK, Poller
<1>2. /\ Follows(snap, rec[r]) /\ snap.state = "AUTHENTICATED" /\ poller[p].user = snap.user
      /\ authenticatedAt[r] <= snap.expiry
  BY DEF ConsumeWrite, SnapInv, PollerSnap, Snapshot
<1>3. \/ /\ rec[r].state = "AUTHENTICATED" /\ rec' = [rec EXCEPT ![r] = new]
         /\ consumed' = [consumed EXCEPT ![r] = @ + 1]
         /\ \/ /\ issued' = [issued EXCEPT ![r] = @ + 1]
               /\ tokenUser' = [tokenUser EXCEPT ![r] = poller[p].user]
            \/ UNCHANGED <<issued, tokenUser>>
      \/ UNCHANGED <<rec, consumed, issued, tokenUser>>
  BY DEF ConsumeWrite, Swaps, FieldMatches
<1>4. new.state = "CONSUMED" /\ SameTimes(rec[r], new)
  BY <1>1, <1>2, WriteOfRead
<1>5. ASSUME rec[r].state = "AUTHENTICATED"
      PROVE  poller[p].user = rec[r].user /\ authenticatedAt[r] <= rec[r].expiry
  BY <1>2, <1>5 DEF Follows, SameTimes, Active
<1> HIDE DEF new
<1> QED BY <1>1, <1>3, <1>4, <1>5

-----------------------------------------------------------------------------
(* CIBAGrant: the steps, by what they write *)

grantVars == <<rec, grantee, authenticatedAt, consumed, issued, tokenUser>>

\* Steps that leave the records and the grants as they are.
QuietStep ==
  \/ Tick \/ UNCHANGED vars
  \/ \E r \in Requests : StartFlow(r) \/ InitiationFails(r) \/ FlowEnds(r)
  \/ \E c \in Callbacks :
       \/ \E a \in assertions, r \in Requests :
            CallbackLoad(c, r, a) \/ CallbackUnchecked(c, r, a)
       \/ CallbackRead(c) \/ CallbackAborted(c)
  \/ \E p \in Pollers :
       \/ \E r \in Requests : PollRead(p, r)
       \/ PollDecide(p) \/ IssueRefused(p) \/ PollReread(p) \/ PollAborted(p)

LEMMA QuietStepQuiet ==
  ASSUME QuietStep
  PROVE  UNCHANGED grantVars
  BY DEF QuietStep, grantVars, Tick, vars, StartFlow, InitiationFails, FlowEnds, CallbackLoad,
         CallbackUnchecked, Continue, CallbackRead, CallbackAborted, PollRead, PollDecide,
         IssueRefused, PollReread, PollAborted, flowVars, pollVars

LEMMA StepCases ==
  ASSUME [Next]_vars
  PROVE  \/ QuietStep
         \/ \E r \in Requests, e \in Expiries : StoreRequest(r, e)
         \/ \E c \in Callbacks : CallbackWrite(c)
         \/ \E p \in Pollers : PollWrite(p) \/ ExpireWrite(p) \/ ConsumeWrite(p)
  BY DEF QuietStep, Next, InitiationStep, CallbackStep, PollerStep

LEMMA RecordMoves ==
  ASSUME TypeOK, Bound, SnapInv, GrantsInv, [Next]_vars, NEW q \in Requests,
         rec[q].state # "ABSENT"
  PROVE  Moves(rec[q], rec'[q])
<1>0. CASE rec'[q] = rec[q]
  BY <1>0 DEF Moves, SameTimes
<1>1. CASE QuietStep
  BY <1>0, <1>1, QuietStepQuiet DEF grantVars
<1>2. ASSUME NEW r \in Requests, NEW e \in Expiries, StoreRequest(r, e)
      PROVE  rec'[q] = rec[q]
  BY <1>2 DEF StoreRequest, TypeOK, GrantsInv, GrantInv
<1>3. ASSUME NEW c \in Callbacks, CallbackWrite(c) PROVE Moves(rec[q], rec'[q])
  BY <1>0, <1>3, CallbackMoves DEF Moves
<1>4. ASSUME NEW p \in Pollers, PollWrite(p) \/ ExpireWrite(p) \/ ConsumeWrite(p)
      PROVE  Moves(rec[q], rec'[q])
  BY <1>0, <1>4, PollMoves, ExpireMoves, ConsumeMoves DEF Moves
<1> QED BY <1>0, <1>1, <1>2, <1>3, <1>4, StepCases

\* A snapshot stays one whatever is written meanwhile.
LEMMA SnapshotStays ==
  ASSUME TypeOK, TypeOK', Bound, SnapInv, GrantsInv, [Next]_vars,
         NEW r \in Requests, NEW snap \in Record, Snapshot(snap, r)
  PROVE  Follows(snap, rec'[r])
<1>1. rec[r] \in Record /\ rec'[r] \in Record
  BY DEF TypeOK
<1>2. snap.state # "ABSENT" /\ Follows(snap, rec[r])
  BY DEF Snapshot
<1>3. rec[r].state # "ABSENT"
  BY <1>1, <1>2 DEF Follows, After, Record, States
<1>4. Follows(rec[r], rec'[r])
  BY <1>1, <1>3, RecordMoves, MovesFollow
<1> QED BY <1>1, <1>2, <1>4, FollowsOn

\* Only an open request is ever authenticated.
LEMMA GrantStays ==
  ASSUME TypeOK, Bound, SnapInv, [Next]_vars, NEW r \in Requests, rec[r].state # "PENDING"
  PROVE  authenticatedAt'[r] = authenticatedAt[r] /\ grantee'[r] = grantee[r]
<1>1. CASE QuietStep
  BY <1>1, QuietStepQuiet DEF grantVars
<1>2. ASSUME NEW c \in Callbacks, CallbackWrite(c)
      PROVE  authenticatedAt'[r] = authenticatedAt[r] /\ grantee'[r] = grantee[r]
  BY <1>2, CallbackMoves
<1>3. CASE \/ \E q \in Requests, e \in Expiries : StoreRequest(q, e)
           \/ \E p \in Pollers : PollWrite(p) \/ ExpireWrite(p) \/ ConsumeWrite(p)
  BY <1>3 DEF StoreRequest, PollWrite, ExpireWrite, ConsumeWrite, flowVars
<1> QED BY <1>1, <1>2, <1>3, StepCases

\* What a step other than the writes leaves alone, and how time and outcomes grow.
LEMMA OutcomesGrow ==
  ASSUME TypeOK, [Next]_vars
  PROVE  assertions \subseteq assertions' /\ clock <= clock'
<1>1. CASE Tick
  BY <1>1 DEF Tick, TypeOK, flowVars
<1>2. CASE UNCHANGED vars
  BY <1>2 DEF vars, flowVars, TypeOK
<1>3. ASSUME NEW r \in Requests, InitiationStep(r)
      PROVE  assertions \subseteq assertions' /\ clock' = clock
  BY <1>3 DEF InitiationStep, StartFlow, InitiationFails, FlowEnds, StoreRequest, flowVars
<1>4. ASSUME NEW c \in Callbacks, CallbackStep(c) PROVE assertions' = assertions /\ clock' = clock
  BY <1>4 DEF CallbackStep, CallbackLoad, CallbackUnchecked, Continue, CallbackRead,
              CallbackWrite, CallbackAborted
<1>5. ASSUME NEW p \in Pollers, PollerStep(p) PROVE assertions' = assertions /\ clock' = clock
  BY <1>5 DEF PollerStep, PollRead, PollDecide, IssueRefused, PollReread, PollWrite,
              ExpireWrite, ConsumeWrite, PollAborted, flowVars
<1> QED BY <1>1, <1>2, <1>3, <1>4, <1>5 DEF Next, TypeOK

LEMMA AssertionsStep ==
  ASSUME TypeOK, AssertionsTrue, [Next]_vars
  PROVE  AssertionsTrue'
<1>1. CASE assertions' = assertions
  BY <1>1 DEF AssertionsTrue
<1>2. ASSUME NEW r \in Requests, FlowEnds(r) PROVE AssertionsTrue'
  <2>1. PICK a \in Outcomes(r) : assertions' = assertions \cup {a}
    BY <1>2 DEF FlowEnds
  <2>2. a.error = "none" => a.user \in Users
    <3>1. CASE \E u \in Users, d \in BOOLEAN :
                 a = [req |-> r, user |-> u, error |-> "none", decided |-> d]
      BY <3>1
    <3>2. CASE \E e \in {"END_USER", "OTHER"} :
                 a = [req |-> r, user |-> NoUser, error |-> e, decided |-> FALSE]
      BY <3>2
    <3> QED BY <3>1, <3>2 DEF Outcomes
  <2> QED BY <2>1, <2>2 DEF AssertionsTrue
<1>3. CASE \/ Tick \/ UNCHANGED vars
           \/ \E r \in Requests : \/ StartFlow(r) \/ InitiationFails(r)
                                  \/ \E e \in Expiries : StoreRequest(r, e)
           \/ \E p \in Pollers : PollerStep(p)
           \/ \E c \in Callbacks : CallbackStep(c)
  BY <1>1, <1>3 DEF Tick, vars, StartFlow, InitiationFails, StoreRequest, CallbackStep,
       CallbackLoad, CallbackUnchecked, Continue, CallbackRead, CallbackWrite, CallbackAborted,
       PollerStep, PollRead, PollDecide, IssueRefused, PollReread, PollWrite,
       ExpireWrite, ConsumeWrite, PollAborted, flowVars
<1> QED BY <1>2, <1>3 DEF Next, InitiationStep

-----------------------------------------------------------------------------
(* CIBAGrant: what the handlers in flight know *)

LEMMA PollerSnapStays ==
  ASSUME TypeOK, TypeOK', Bound, SnapInv, GrantsInv, [Next]_vars,
         NEW p \in Pollers, poller'[p] = poller[p]
  PROVE  PollerSnap(p)'
<1>1. PollerSnap(p) /\ poller[p].snap \in Record /\ rec \in [Requests -> Record]
  BY DEF SnapInv, TypeOK, Poller
<1>2. ASSUME poller[p].pc # "idle"
      PROVE  /\ poller[p].snap.state # "ABSENT" /\ poller[p].req \in Requests
             /\ Follows(poller[p].snap, rec[poller[p].req])
             /\ Follows(poller[p].snap, rec'[poller[p].req])
  <2>1. poller[p].req \in Requests /\ Snapshot(poller[p].snap, poller[p].req)
    BY <1>1, <1>2 DEF Bound, PollerSnap
  <2> QED BY <1>1, <2>1, SnapshotStays DEF Snapshot
<1>3. ASSUME poller[p].op = "consume"
      PROVE  authenticatedAt'[poller[p].req] = authenticatedAt[poller[p].req]
  <2>1. poller[p].pc # "idle" /\ poller[p].snap.state = "AUTHENTICATED"
    BY <1>1, <1>3 DEF PollerSnap
  <2>2. rec[poller[p].req].state # "PENDING"
    BY <1>1, <1>2, <2>1 DEF Follows, After
  <2> QED BY <1>2, <2>1, <2>2, GrantStays
<1> QED BY <1>1, <1>2, <1>3 DEF PollerSnap, Snapshot

LEMMA PollerSnapStep ==
  ASSUME TypeOK, TypeOK', Bound, SnapInv, GrantsInv, [Next]_vars,
         NEW p \in Pollers, PollerStep(p)
  PROVE  PollerSnap(p)'
<1>0. /\ PollerSnap(p) /\ poller[p] \in Poller /\ poller[p].snap \in Record
      /\ poller \in [Pollers -> Poller] /\ rec \in [Requests -> Record] /\ clock \in Nat
      /\ authenticatedAt \in [Requests -> Nat]
  BY DEF SnapInv, TypeOK, Poller
<1>r. poller[p].pc # "idle" =>
        poller[p].req \in Requests /\ Snapshot(poller[p].snap, poller[p].req)
  BY <1>0 DEF Bound, PollerSnap
<1>i. ASSUME poller'[p] = IdlePoller PROVE PollerSnap(p)'
  BY <1>i DEF PollerSnap, IdlePoller
<1>a. ASSUME NEW a, Answer(p, a) PROVE PollerSnap(p)'
  BY <1>0, <1>a, <1>i DEF Answer
<1>1. ASSUME NEW r \in Requests, PollRead(p, r) PROVE PollerSnap(p)'
  <2>1. CASE Found(r)
    <3>1. poller' = [poller EXCEPT ![p] = [poller[p] EXCEPT !.pc = "decide", !.req = r,
                                                            !.snap = rec[r]]]
          /\ poller[p].pc = "idle" /\ rec' = rec
      BY <1>1, <2>1 DEF PollRead
    <3>2. /\ poller'[p].pc = "decide" /\ poller'[p].op = poller[p].op /\ poller'[p].req = r
          /\ poller'[p].snap = rec[r]
      BY <1>0, <3>1 DEF Poller
    <3>3. poller[p].op = "none"
      BY <1>0, <3>1 DEF PollerSnap
    <3>4. rec[r].state # "ABSENT" /\ Follows(rec[r], rec[r])
      BY <1>0, <2>1, FollowsFromRead DEF Found
    <3> QED BY <3>1, <3>2, <3>3, <3>4 DEF PollerSnap, Snapshot
  <2>2. CASE ~Found(r)
    BY <1>1, <1>a, <2>2 DEF PollRead
  <2> QED BY <2>1, <2>2
<1>2. ASSUME PollDecide(p), NEW op \in {"poll", "expire", "consume"}, PollGoesOn(p, op),
             op = "consume" => /\ poller[p].snap.state = "AUTHENTICATED"
                               /\ ~Expired(poller[p].snap.expiry, clock)
      PROVE  PollerSnap(p)'
  <2> DEFINE u == IF op = "consume" THEN poller[p].snap.user ELSE NoUser
  <2>1. /\ poller[p].pc = "decide" /\ rec' = rec /\ authenticatedAt' = authenticatedAt
        /\ poller' = [poller EXCEPT ![p] = [poller[p] EXCEPT !.pc = "reread", !.op = op,
                                                             !.user = u]]
    BY <1>2 DEF PollDecide, PollGoesOn, flowVars
  <2>2. /\ poller'[p].pc = "reread" /\ poller'[p].op = op /\ poller'[p].user = u
        /\ poller'[p].req = poller[p].req /\ poller'[p].snap = poller[p].snap
    <3> HIDE DEF u
    <3> QED BY <1>0, <2>1 DEF Poller
  <2>3. poller[p].req \in Requests /\ Snapshot(poller[p].snap, poller[p].req)
    BY <1>r, <2>1
  <2>4. ASSUME op = "consume" PROVE authenticatedAt[poller[p].req] <= poller[p].snap.expiry
    <3>1. poller[p].snap.expiry \in Nat /\ clock <= poller[p].snap.expiry
      BY <1>0, <1>2, <2>4 DEF Record, Expired
    <3>2. authenticatedAt[poller[p].req] \in Nat /\ authenticatedAt[poller[p].req] <= clock
      BY <1>0, <2>3 DEF GrantsInv, GrantInv
    <3> QED BY <1>0, <3>1, <3>2
  <2> QED BY <1>2, <2>1, <2>2, <2>3, <2>4 DEF PollerSnap, Snapshot
<1>3. CASE PollDecide(p)
  <2>1. \/ \E a : Answer(p, a)
        \/ PollGoesOn(p, "poll") \/ PollGoesOn(p, "expire")
        \/ /\ poller[p].snap.state = "AUTHENTICATED"
           /\ ~Expired(poller[p].snap.expiry, clock)
           /\ PollGoesOn(p, "consume")
    BY <1>3 DEF PollDecide
  <2> QED BY <1>2, <1>3, <1>a, <2>1
<1>4. CASE PollReread(p)
  <2> DEFINE r == poller[p].req
  <2>1. CASE \E a : Answer(p, a)
    BY <1>a, <2>1
  <2>2. CASE /\ Found(r) /\ Wants(poller[p].op, rec[r].state)
             /\ poller' = [poller EXCEPT ![p] = [poller[p] EXCEPT !.pc = "write",
                                                    !.snap = rec[r], !.since = clock]]
    <3>1. poller[p].pc = "reread" /\ rec' = rec /\ authenticatedAt' = authenticatedAt
      BY <1>4 DEF PollReread, flowVars
    <3>2. /\ poller'[p].pc = "write" /\ poller'[p].op = poller[p].op /\ poller'[p].req = r
          /\ poller'[p].snap = rec[r] /\ poller'[p].user = poller[p].user
      BY <1>0, <2>2 DEF Poller
    <3>3. r \in Requests /\ Follows(poller[p].snap, rec[r])
      BY <1>r, <3>1 DEF Snapshot
    <3>4. rec[r].state # "ABSENT" /\ Follows(rec[r], rec[r])
      BY <1>0, <2>2, <3>3, FollowsFromRead DEF Found
    <3>5. poller[p].op # "none" /\ (poller[p].op = "poll" => rec[r].state = "PENDING")
      BY <1>0, <2>2, <3>1 DEF PollerSnap, Wants
    <3>6. ASSUME poller[p].op = "consume"
          PROVE  /\ rec[r].state = "AUTHENTICATED" /\ poller[p].user = rec[r].user
                 /\ authenticatedAt[r] <= rec[r].expiry
      <4>1. rec[r].state = "AUTHENTICATED"
        BY <2>2, <3>6 DEF Wants
      <4> QED BY <1>0, <3>3, <3>6, <4>1 DEF PollerSnap, Follows, SameTimes, Active
    <3> QED BY <3>1, <3>2, <3>4, <3>5, <3>6 DEF PollerSnap, Snapshot
  <2> QED BY <1>4, <2>1, <2>2 DEF PollReread
<1>5. CASE IssueRefused(p) \/ PollWrite(p) \/ ExpireWrite(p) \/ ConsumeWrite(p) \/ PollAborted(p)
  <2>1. \E a : Answer(p, a)
    BY <1>5 DEF IssueRefused, PollWrite, ExpireWrite, ConsumeWrite, PollAborted
  <2> QED BY <1>a, <2>1
<1> QED BY <1>1, <1>3, <1>4, <1>5 DEF PollerStep

LEMMA CallbackSnapStays ==
  ASSUME TypeOK, TypeOK', Bound, SnapInv, GrantsInv, [Next]_vars,
         NEW c \in Callbacks, callback'[c] = callback[c]
  PROVE  CallbackSnap(c)'
<1>1. CallbackSnap(c) /\ callback[c].snap \in Record
  BY DEF SnapInv, TypeOK, Callback
<1>2. ASSUME callback[c].pc = "write"
      PROVE  /\ callback[c].snap.state # "ABSENT"
             /\ Follows(callback[c].snap, rec'[callback[c].req])
  <2>1. callback[c].req \in Requests /\ Snapshot(callback[c].snap, callback[c].req)
    BY <1>1, <1>2 DEF Bound, CallbackSnap
  <2> QED BY <1>1, <2>1, SnapshotStays DEF Snapshot
<1>3. ASSUME callback[c].pc # "idle", callback[c].target = "AUTHENTICATED"
      PROVE  Consented(callback[c].req, callback[c].user)'
  BY <1>1, <1>3, OutcomesGrow DEF CallbackSnap, Consented, Consent
<1> QED BY <1>1, <1>2, <1>3 DEF CallbackSnap, Snapshot

LEMMA CallbackSnapStep ==
  ASSUME TypeOK, TypeOK', Bound, SnapInv, AssertionsTrue, GrantsInv, [Next]_vars,
         NEW c \in Callbacks, CallbackStep(c)
  PROVE  CallbackSnap(c)'
<1>0. /\ CallbackSnap(c) /\ callback[c] \in Callback /\ callback \in [Callbacks -> Callback]
      /\ rec \in [Requests -> Record]
  BY DEF SnapInv, TypeOK
<1>i. ASSUME callback' = [callback EXCEPT ![c] = IdleCallback] PROVE CallbackSnap(c)'
  BY <1>0, <1>i DEF CallbackSnap, IdleCallback
<1>1. ASSUME NEW r \in Requests, NEW u, NEW s, NEW g, Continue(c, r, u, s, g),
             s = "AUTHENTICATED" => Consented(r, u),
             (g = TRUE /\ s \in {"AUTHENTICATED", "DENIED", "FAILED"}) \/ s = "FAILED"
      PROVE  CallbackSnap(c)'
  <2>1. /\ callback'[c] = [IdleCallback EXCEPT !.pc = "reread", !.req = r, !.user = u,
                                               !.target = s, !.guarded = g]
        /\ assertions' = assertions
    BY <1>0, <1>1 DEF Continue
  <2>2. /\ callback'[c].pc = "reread" /\ callback'[c].req = r /\ callback'[c].user = u
        /\ callback'[c].target = s /\ callback'[c].guarded = g
    BY <2>1 DEF IdleCallback
  <2> QED BY <1>1, <2>1, <2>2 DEF CallbackSnap, Consented
<1>2. ASSUME NEW a \in assertions, NEW r \in Requests, CallbackLoad(c, r, a) PROVE CallbackSnap(c)'
  <2>1. Continue(c, r, a.user, Target(r, a), TRUE) /\ a.req = r
    BY <1>2 DEF CallbackLoad
  <2>2. Target(r, a) = "AUTHENTICATED" => Consented(r, a.user)
    BY <2>1 DEF Target, Consented, Consent, AssertionsTrue
  <2> QED BY <1>1, <2>1, <2>2, TargetTypes
<1>3. ASSUME NEW a \in assertions, NEW r \in Requests, CallbackUnchecked(c, r, a)
      PROVE  CallbackSnap(c)'
  BY <1>1, <1>3 DEF CallbackUnchecked
<1>4. CASE CallbackRead(c)
  <2> DEFINE r == callback[c].req
             new == [callback[c] EXCEPT !.pc = "write", !.snap = rec[r], !.since = clock]
  <2>1. CASE /\ Found(r)
             /\ callback[c].guarded => rec[r].state = "PENDING"
             /\ callback' = [callback EXCEPT ![c] = new]
    <3>1. r \in Requests /\ callback[c].pc = "reread" /\ rec' = rec /\ assertions' = assertions
      BY <1>4 DEF CallbackRead, Bound
    <3>2. /\ callback'[c].pc = "write" /\ callback'[c].req = r /\ callback'[c].snap = rec[r]
          /\ callback'[c].user = callback[c].user /\ callback'[c].target = callback[c].target
          /\ callback'[c].guarded = callback[c].guarded
      BY <1>0, <2>1 DEF Callback
    <3>3. rec[r].state # "ABSENT" /\ Follows(rec[r], rec[r])
      BY <1>0, <2>1, <3>1, FollowsFromRead DEF Found
    <3> QED BY <1>0, <2>1, <3>1, <3>2, <3>3 DEF CallbackSnap, Snapshot, Consented
  <2> QED BY <1>4, <1>i, <2>1 DEF CallbackRead
<1>5. CASE CallbackWrite(c) \/ CallbackAborted(c)
  BY <1>5, <1>i DEF CallbackWrite, CallbackAborted
<1> QED BY <1>2, <1>3, <1>4, <1>5 DEF CallbackStep

LEMMA SnapStep ==
  ASSUME TypeOK, TypeOK', Bound, SnapInv, AssertionsTrue, GrantsInv, [Next]_vars
  PROVE  SnapInv'
<1>0. poller \in [Pollers -> Poller] /\ callback \in [Callbacks -> Callback]
  BY DEF TypeOK
<1>1. ASSUME poller' = poller PROVE \A p \in Pollers : PollerSnap(p)'
  BY <1>1, PollerSnapStays
<1>2. ASSUME callback' = callback PROVE \A c \in Callbacks : CallbackSnap(c)'
  BY <1>2, CallbackSnapStays
<1>3. ASSUME NEW p \in Pollers, PollerStep(p) PROVE SnapInv'
  <2>1. callback' = callback /\ \A q \in Pollers \ {p} : poller'[q] = poller[q]
    BY <1>0, <1>3 DEF PollerStep, PollRead, PollDecide, PollGoesOn, Answer, IssueRefused,
         PollReread, PollWrite, ExpireWrite, ConsumeWrite, PollAborted, flowVars
  <2> QED BY <1>2, <1>3, <2>1, PollerSnapStep, PollerSnapStays DEF SnapInv
<1>4. ASSUME NEW c \in Callbacks, CallbackStep(c) PROVE SnapInv'
  <2>1. poller' = poller /\ \A d \in Callbacks \ {c} : callback'[d] = callback[d]
    BY <1>0, <1>4 DEF CallbackStep, CallbackLoad, CallbackUnchecked, Continue, CallbackRead,
         CallbackWrite, CallbackAborted, pollVars
  <2> QED BY <1>1, <1>4, <2>1, CallbackSnapStep, CallbackSnapStays DEF SnapInv
<1>5. CASE Tick \/ UNCHANGED vars \/ \E r \in Requests : InitiationStep(r)
  <2>1. poller' = poller /\ callback' = callback
    BY <1>5 DEF Tick, vars, InitiationStep, StartFlow, InitiationFails, FlowEnds, StoreRequest,
         flowVars, pollVars
  <2> QED BY <1>1, <1>2, <2>1 DEF SnapInv
<1> QED BY <1>3, <1>4, <1>5 DEF Next

-----------------------------------------------------------------------------
(* CIBAGrant: what the tokens rest on *)

\* A refusal that the client was told of stays true.
LEMMA ToldStep ==
  ASSUME TypeOK, TypeOK', Bound, SnapInv, GrantsInv, [Next]_vars, NEW r \in Requests,
         told'[r] \cap {"access_denied", "failed"} # {}
  PROVE  rec'[r].state \in {"DENIED", "FAILED", "EXPIRED"}
<1>0. /\ rec \in [Requests -> Record] /\ rec'[r] \in Record
      /\ told \in [Requests -> SUBSET Refusals]
  BY DEF TypeOK
<1>1. CASE rec[r].state \in {"DENIED", "FAILED", "EXPIRED"}
  <2>1. Moves(rec[r], rec'[r])
    BY <1>1, RecordMoves
  <2> QED BY <1>1, <2>1 DEF Moves
<1>2. ASSUME told'[r] = told[r] PROVE rec[r].state \in {"DENIED", "FAILED", "EXPIRED"}
  BY <1>2 DEF GrantsInv, GrantInv
<1>3. ASSUME NEW p \in Pollers, NEW a, Answer(p, a), a \notin {"access_denied", "failed"}
      PROVE  rec[r].state \in {"DENIED", "FAILED", "EXPIRED"}
  <2>1. told'[r] = told[r] \/ told'[r] = told[r] \cup {a}
    BY <1>0, <1>3 DEF Answer
  <2>2. told[r] \cap {"access_denied", "failed"} # {}
    BY <1>3, <2>1
  <2> QED BY <2>2 DEF GrantsInv, GrantInv
<1>4. ASSUME NEW p \in Pollers, NEW a \in {"access_denied", "failed"}, Answer(p, a),
             poller[p].pc = "decide", poller[p].snap.state \in {"DENIED", "FAILED"}
      PROVE  rec[r].state \in {"DENIED", "FAILED", "EXPIRED"}
  <2>1. CASE r = poller[p].req
    <3>1. Follows(poller[p].snap, rec[r])
      BY <1>4, <2>1 DEF SnapInv, PollerSnap, Snapshot
    <3> QED BY <1>4, <3>1 DEF Follows, After
  <2>2. CASE r # poller[p].req
    BY <1>0, <1>2, <1>4, <2>2 DEF Answer
  <2> QED BY <2>1, <2>2
<1>5. ASSUME NEW p \in Pollers, PollerStep(p)
      PROVE  rec[r].state \in {"DENIED", "FAILED", "EXPIRED"}
  <2>1. ASSUME NEW q \in Requests, PollRead(p, q)
        PROVE  told'[r] = told[r] \/ Answer(p, "invalid_grant")
    BY <2>1 DEF PollRead
  <2>2. CASE PollDecide(p)
    <3>1. \/ \E a \in {"expired_token", "invalid_grant"} : Answer(p, a)
          \/ told' = told
          \/ /\ poller[p].pc = "decide" /\ poller[p].snap.state \in {"DENIED", "FAILED"}
             /\ \E a \in {"access_denied", "failed"} : Answer(p, a)
      BY <2>2 DEF PollDecide, PollGoesOn
    <3> QED BY <1>2, <1>3, <1>4, <3>1
  <2>3. CASE PollReread(p)
    <3>1. PollerSnap(p) /\ poller[p] \in Poller
      BY DEF SnapInv, TypeOK
    <3>2. told' = told \/ Answer(p, Otherwise(poller[p].op))
      BY <2>3 DEF PollReread
    <3>3. Otherwise(poller[p].op) \notin {"access_denied", "failed"}
      <4>1. poller[p].op \in {"poll", "expire", "consume"}
        BY <2>3, <3>1 DEF PollReread, PollerSnap, Poller
      <4> QED BY <4>1 DEF Otherwise
    <3> QED BY <1>2, <1>3, <3>2, <3>3
  <2>4. CASE IssueRefused(p) \/ PollWrite(p) \/ ExpireWrite(p) \/ ConsumeWrite(p) \/ PollAborted(p)
    <3>1. \E a : Answer(p, a) /\ a \notin {"access_denied", "failed"}
      BY <2>4 DEF IssueRefused, PollWrite, ExpireWrite, ConsumeWrite, PollAborted
    <3> QED BY <1>3, <3>1
  <2> QED BY <1>2, <1>3, <1>5, <2>1, <2>2, <2>3, <2>4 DEF PollerStep
<1>6. CASE \/ Tick \/ UNCHANGED vars \/ \E q \in Requests : InitiationStep(q)
           \/ \E c \in Callbacks : CallbackStep(c)
  <2>1. told' = told
    BY <1>6 DEF Tick, vars, InitiationStep, StartFlow, InitiationFails, FlowEnds, StoreRequest,
         CallbackStep, CallbackLoad, CallbackUnchecked, Continue, CallbackRead, CallbackWrite,
         CallbackAborted, pollVars
  <2> QED BY <1>1, <1>2, <2>1
<1> QED BY <1>1, <1>5, <1>6 DEF Next

LEMMA InitiationMoves ==
  ASSUME TypeOK, [Next]_vars, NEW r \in Requests, initiation'[r] \in {"none", "flow"}
  PROVE  initiation[r] \in {"none", "flow"}
<1>1. CASE initiation' = initiation
  BY <1>1
<1>2. ASSUME NEW q \in Requests, StartFlow(q) \/ InitiationFails(q) \/ FlowEnds(q)
      PROVE  initiation[r] \in {"none", "flow"}
  BY <1>2 DEF StartFlow, InitiationFails, FlowEnds, TypeOK
<1>3. ASSUME NEW q \in Requests, NEW e \in Expiries, StoreRequest(q, e)
      PROVE  initiation[r] \in {"none", "flow"}
  BY <1>3 DEF StoreRequest, TypeOK
<1>4. CASE \/ Tick \/ UNCHANGED vars
           \/ \E p \in Pollers : PollerStep(p)
           \/ \E c \in Callbacks : CallbackStep(c)
  BY <1>1, <1>4 DEF Tick, vars, CallbackStep, CallbackLoad, CallbackUnchecked, Continue,
       CallbackRead, CallbackWrite, CallbackAborted, PollerStep, PollRead, PollDecide,
       IssueRefused, PollReread, PollWrite, ExpireWrite, ConsumeWrite, PollAborted
<1> QED BY <1>2, <1>3, <1>4 DEF Next, InitiationStep

\* What no step can disturb whatever it does to the record and to the grant of r.
LEMMA GrantFrame ==
  ASSUME TypeOK, TypeOK', Bound, SnapInv, GrantsInv, [Next]_vars, NEW r \in Requests
  PROVE  /\ clock \in Nat /\ clock' \in Nat /\ clock <= clock'
         /\ rec[r] \in Record /\ rec'[r] \in Record
         /\ authenticatedAt[r] \in Nat /\ consumed[r] \in Nat /\ issued[r] \in Nat
         /\ assertions \subseteq assertions'
         /\ initiation'[r] \in {"none", "flow"} => rec[r].state = "ABSENT"
         /\ told'[r] \cap {"access_denied", "failed"} # {} =>
              rec'[r].state \in {"DENIED", "FAILED", "EXPIRED"}
         /\ GrantInv(r)
<1>1. initiation'[r] \in {"none", "flow"} => rec[r].state = "ABSENT"
  BY InitiationMoves DEF GrantsInv, GrantInv
<1>2. /\ clock \in Nat /\ clock' \in Nat /\ rec[r] \in Record /\ rec'[r] \in Record
      /\ authenticatedAt[r] \in Nat /\ consumed[r] \in Nat /\ issued[r] \in Nat
  BY DEF TypeOK
<1> QED BY <1>1, <1>2, OutcomesGrow, ToldStep DEF GrantsInv

LEMMA GrantKept ==
  ASSUME TypeOK, TypeOK', Bound, SnapInv, GrantsInv, [Next]_vars, NEW r \in Requests,
         UNCHANGED <<rec[r], grantee[r], authenticatedAt[r], consumed[r], issued[r], tokenUser[r]>>
  PROVE  GrantInv(r)'
  BY GrantFrame DEF GrantInv, Consented, Consent

LEMMA StoreGrant ==
  ASSUME TypeOK, TypeOK', Bound, SnapInv, GrantsInv, [Next]_vars, NEW r \in Requests,
         NEW q \in Requests, NEW e \in Expiries, StoreRequest(q, e)
  PROVE  GrantInv(r)'
<1>0. UNCHANGED <<grantee, authenticatedAt, consumed, issued, tokenUser, assertions, clock>>
  BY DEF StoreRequest, flowVars, pollVars
<1>1. CASE r # q
  BY <1>0, <1>1, GrantKept DEF StoreRequest, TypeOK
<1>2. CASE r = q
  <2>1. e \in Nat /\ e > 0 /\ clock \in Nat
    BY CIBAGrantConstants DEF TypeOK
  <2>2. StoredUntil(TTL(e), clock) <= clock + e
    BY <2>1 DEF StoredUntil, TTL, Never
  <2>3. /\ rec'[r].state = "PENDING" /\ rec'[r].expiry = clock + e
        /\ rec'[r].storedUntil = StoredUntil(TTL(e), clock)
    BY <1>2 DEF StoreRequest, TypeOK, NoRecord
  <2>4. rec[r].state = "ABSENT" /\ initiation'[r] = "done"
    BY <1>2 DEF StoreRequest, TypeOK, GrantsInv, GrantInv
  <2> QED BY <1>0, <2>2, <2>3, <2>4, GrantFrame DEF GrantInv
<1> QED BY <1>1, <1>2

LEMMA CallbackGrant ==
  ASSUME TypeOK, TypeOK', Bound, SnapInv, GrantsInv, [Next]_vars, NEW r \in Requests,
         NEW c \in Callbacks, CallbackWrite(c)
  PROVE  GrantInv(r)'
<1>0. UNCHANGED <<consumed, issued, tokenUser, assertions, clock>>
  BY DEF CallbackWrite, pollVars
<1>1. CASE /\ rec'[r] = rec[r] /\ grantee'[r] = grantee[r]
           /\ authenticatedAt'[r] = authenticatedAt[r]
  BY <1>0, <1>1, GrantKept
<1>2. CASE /\ r = callback[c].req /\ callback[c].target = "AUTHENTICATED"
           /\ rec[r].state = "PENDING" /\ rec'[r].state = "AUTHENTICATED"
           /\ rec'[r].user = callback[c].user /\ SameTimes(rec[r], rec'[r])
           /\ grantee'[r] = callback[c].user /\ authenticatedAt'[r] = clock
  <2>1. Consented(r, callback[c].user)
    BY <1>2 DEF CallbackWrite, SnapInv, CallbackSnap
  <2>2. consumed[r] = 0 /\ issued[r] = 0
    BY <1>2, GrantFrame DEF GrantInv
  <2>3. Consented(r, rec[r].user)'
    BY <1>0, <1>2, <2>1 DEF Consented
  <2> QED BY <1>0, <1>2, <2>2, <2>3, GrantFrame DEF GrantInv, SameTimes
<1>3. CASE /\ rec[r].state # "ABSENT" /\ SameTimes(rec[r], rec'[r])
           /\ \/ rec[r].state = "PENDING" /\ rec'[r].state = "DENIED"
              \/ rec'[r].state = "FAILED"
           /\ grantee'[r] = grantee[r] /\ authenticatedAt'[r] = authenticatedAt[r]
  BY <1>0, <1>3, GrantFrame DEF GrantInv, SameTimes, Consented
<1> QED BY <1>1, <1>2, <1>3, CallbackMoves

LEMMA PollGrant ==
  ASSUME TypeOK, TypeOK', Bound, SnapInv, GrantsInv, [Next]_vars, NEW r \in Requests,
         NEW p \in Pollers, PollWrite(p) \/ ExpireWrite(p)
  PROVE  GrantInv(r)'
<1>0. UNCHANGED <<grantee, authenticatedAt, consumed, issued, tokenUser, assertions, clock>>
  BY DEF PollWrite, ExpireWrite, flowVars
<1>1. CASE rec'[r] = rec[r]
  BY <1>0, <1>1, GrantKept
<1>2. CASE /\ rec[r].state = "PENDING" /\ rec'[r].state = rec[r].state
           /\ SameTimes(rec[r], rec'[r])
  BY <1>0, <1>2, GrantFrame DEF GrantInv, SameTimes, Consented
<1>3. CASE rec[r].state # "ABSENT" /\ rec'[r].state = "EXPIRED" /\ SameTimes(rec[r], rec'[r])
  BY <1>0, <1>3, GrantFrame DEF GrantInv, SameTimes, Consented
<1> QED BY <1>1, <1>2, <1>3, PollMoves, ExpireMoves

LEMMA ConsumeGrant ==
  ASSUME TypeOK, TypeOK', Bound, SnapInv, GrantsInv, [Next]_vars, NEW r \in Requests,
         NEW p \in Pollers, ConsumeWrite(p)
  PROVE  GrantInv(r)'
<1>0. UNCHANGED <<grantee, authenticatedAt, assertions, clock>>
  BY DEF ConsumeWrite, flowVars
<1>1. CASE /\ rec'[r] = rec[r] /\ consumed'[r] = consumed[r]
           /\ issued'[r] = issued[r] /\ tokenUser'[r] = tokenUser[r]
  BY <1>0, <1>1, GrantKept
<1>2. CASE /\ rec[r].state = "AUTHENTICATED"
           /\ rec'[r].state = "CONSUMED" /\ SameTimes(rec[r], rec'[r])
           /\ authenticatedAt[r] <= rec[r].expiry
           /\ consumed'[r] = consumed[r] + 1
           /\ \/ issued'[r] = issued[r] + 1 /\ tokenUser'[r] = rec[r].user
              \/ issued'[r] = issued[r] /\ tokenUser'[r] = tokenUser[r]
  <2>1. consumed[r] = 0 /\ issued[r] = 0
    BY <1>2, GrantFrame DEF GrantInv
  <2>2. grantee[r] = rec[r].user /\ Consented(r, rec[r].user)
    BY <1>2, GrantFrame DEF GrantInv
  <2>3. issued'[r] > 0 => tokenUser'[r] = grantee'[r] /\ Consented(r, tokenUser[r])'
    BY <1>0, <1>2, <2>1, <2>2 DEF Consented
  <2> QED BY <1>0, <1>2, <2>1, <2>3, GrantFrame DEF GrantInv, SameTimes
<1> QED BY <1>1, <1>2, ConsumeMoves

LEMMA GrantStep ==
  ASSUME TypeOK, TypeOK', Bound, SnapInv, GrantsInv, [Next]_vars
  PROVE  GrantsInv'
<1>1. CASE QuietStep
  BY <1>1, QuietStepQuiet, GrantKept DEF grantVars, GrantsInv
<1> QED BY <1>1, StepCases, StoreGrant, CallbackGrant, PollGrant, ConsumeGrant DEF GrantsInv

LEMMA CIBAInductive == CIBAInv /\ [Next]_vars => CIBAInv'
<1> SUFFICES ASSUME CIBAInv, [Next]_vars PROVE CIBAInv'
  OBVIOUS
<1>1. TypeOK /\ Bound /\ SnapInv /\ AssertionsTrue /\ GrantsInv
  BY DEF CIBAInv
<1>2. TypeOK' /\ Bound'
  BY <1>1, NextTypes
<1> QED BY <1>1, <1>2, SnapStep, AssertionsStep, GrantStep DEF CIBAInv

LEMMA CIBAAlways == Spec => []CIBAInv
<1>1. Init => SnapInv
  BY DEF Init, SnapInv, PollerSnap, CallbackSnap, IdlePoller, IdleCallback
<1>2. Init => AssertionsTrue /\ GrantsInv
  BY DEF Init, AssertionsTrue, GrantsInv, GrantInv, NoRecord
<1>3. Init => TypeOK /\ Bound
  BY CIBAInit
<1>4. Init => CIBAInv
  BY <1>1, <1>2, <1>3 DEF CIBAInv
<1> QED BY <1>4, CIBAInductive, PTL DEF Spec

-----------------------------------------------------------------------------
(* CIBAGrant: the properties *)

\* The subject of the tokens of a request is the user who authenticated it, in a
\* flow that decided on the details it asked for.
THEOREM TokensOfGrantee == Spec => []TokensBelongToGrant
<1>1. CIBAInv => TokensBelongToGrant
  BY DEF CIBAInv, GrantsInv, GrantInv, Consented, Consent, TokensBelongToGrant
<1> QED BY <1>1, CIBAAlways, PTL

\* An authentication that was recorded after the expiry of its request is never
\* redeemed, although neither MarkAuthenticated nor MarkConsumed looks at it.
THEOREM LateAuthentications == Spec => []LateAuthenticationNeverRedeemed
<1>1. ASSUME CIBAInv, NEW r \in Requests, issued[r] > 0
      PROVE  authenticatedAt[r] <= rec[r].expiry
  <2>1. GrantInv(r) /\ issued[r] \in Nat /\ consumed[r] \in Nat
    BY <1>1 DEF CIBAInv, GrantsInv, TypeOK
  <2>2. consumed[r] # 0
    BY <1>1, <2>1 DEF GrantInv
  <2> QED BY <2>1, <2>2 DEF GrantInv
<1>2. CIBAInv => LateAuthenticationNeverRedeemed
  BY <1>1 DEF LateAuthenticationNeverRedeemed
<1> QED BY <1>2, CIBAAlways, PTL

\* Tokens leave with the consuming swap of an authenticated request only.
LEMMA IssueCases ==
  ASSUME TypeOK, Bound, SnapInv, [Next]_vars, NEW r \in Requests, issued'[r] > issued[r]
  PROVE  \E p \in Pollers : ConsumeWrite(p) /\ r = poller[p].req /\ rec[r].state = "AUTHENTICATED"
<1>0. issued[r] \in Nat
  BY DEF TypeOK
<1>1. ~QuietStep
  BY <1>0, QuietStepQuiet DEF grantVars
<1>2. CASE \/ \E q \in Requests, e \in Expiries : StoreRequest(q, e)
           \/ \E c \in Callbacks : CallbackWrite(c)
           \/ \E p \in Pollers : PollWrite(p) \/ ExpireWrite(p)
  <2>1. issued' = issued
    BY <1>2 DEF StoreRequest, CallbackWrite, PollWrite, ExpireWrite, pollVars
  <2> QED BY <1>0, <2>1
<1>3. ASSUME NEW p \in Pollers, ConsumeWrite(p)
      PROVE  r = poller[p].req /\ rec[r].state = "AUTHENTICATED"
  BY <1>0, <1>3, ConsumeMoves
<1> QED BY <1>1, <1>2, <1>3, StepCases

\* A client that was told of a denial or a failure gets no tokens later, on any of
\* the stores and although UpdateState may put FAILED over any state.
THEOREM RefusalsStand == Spec => NoTokensAfterRefusal
<1>1. ASSUME CIBAInv, [Next]_vars, NEW r \in Requests, issued'[r] > issued[r]
      PROVE  told[r] \cap {"access_denied", "failed"} = {}
  <2>1. rec[r].state = "AUTHENTICATED"
    BY <1>1, IssueCases DEF CIBAInv
  <2> QED BY <1>1, <2>1 DEF CIBAInv, GrantsInv, GrantInv
<1>2. CIBAInv /\ [Next]_vars =>
        [\A r \in Requests : issued'[r] > issued[r] =>
           told[r] \cap {"access_denied", "failed"} = {}]_vars
  BY <1>1
<1> QED BY <1>2, CIBAAlways, PTL DEF Spec, NoTokensAfterRefusal

\* The consuming swap is decided with a clock reading, of the handler that issues
\* the tokens, at which the record was still stored.
LEMMA IssueInTime ==
  ASSUME CIBAInv, [Next]_vars, NEW r \in Requests, issued'[r] > issued[r],
         rec[r].storedUntil # Never
  PROVE  \E p \in Pollers :
           /\ ConsumeWrite(p) /\ poller[p].req = r
           /\ \E t \in SwapTimes(Backend, poller[p].since, clock) : t <= rec[r].expiry
<1>0. /\ rec \in [Requests -> Record] /\ clock \in Nat /\ rec[r].storedUntil \in Nat
      /\ rec[r].expiry \in Nat /\ rec[r].storedUntil <= rec[r].expiry /\ issued[r] \in Nat
  BY DEF CIBAInv, GrantsInv, GrantInv, TypeOK, Record
<1>1. PICK p \in Pollers : ConsumeWrite(p) /\ r = poller[p].req
  BY IssueCases DEF CIBAInv
<1>2. poller[p].since \in Nat
  BY DEF CIBAInv, TypeOK, Poller
<1>3. PICK t \in SwapTimes(Backend, poller[p].since, clock) : Live(Backend, rec[r].storedUntil, t)
  BY <1>0, <1>1 DEF ConsumeWrite, Swaps, FieldMatches
<1>4. t \in Int
  BY <1>0, <1>2 DEF SwapTimes
<1>5. t <= rec[r].expiry
  BY <1>0, <1>3, <1>4 DEF Live
<1> QED BY <1>1, <1>3, <1>5

\* Tokens never leave after the request expired, when the store decides the swap
\* with the time at which it makes it: the map and Redis.  The table may decide it
\* with an older clock reading of the server.
THEOREM NoTokensOnceExpired ==
  ASSUME Backend # "db"
  PROVE  Spec => NoTokensAfterExpiry
<1>1. ASSUME CIBAInv, [Next]_vars, NEW r \in Requests, issued'[r] > issued[r],
             rec[r].storedUntil # Never
      PROVE  clock <= rec[r].expiry
  BY <1>1, IssueInTime DEF SwapTimes
<1>2. CIBAInv /\ [Next]_vars =>
        [\A r \in Requests : issued'[r] > issued[r] /\ rec[r].storedUntil # Never =>
           clock <= rec[r].expiry]_vars
  BY <1>1
<1> QED BY <1>2, CIBAAlways, PTL DEF Spec, NoTokensAfterExpiry

\* No token request read the clock in the future.
ReadBefore == \A p \in Pollers : poller[p].since <= clock

LEMMA ReadBeforeStep ==
  ASSUME TypeOK, TypeOK', ReadBefore, [Next]_vars
  PROVE  ReadBefore'
<1>0. /\ clock \in Nat /\ clock' \in Nat /\ clock <= clock'
      /\ poller \in [Pollers -> Poller] /\ poller' \in [Pollers -> Poller]
  BY OutcomesGrow DEF TypeOK
<1>1. \A p \in Pollers : poller[p].since \in Nat /\ poller'[p].since \in Nat
  BY <1>0 DEF Poller
<1>2. ASSUME NEW p \in Pollers PROVE poller'[p].since \in {0, clock, poller[p].since}
  <2>1. CASE poller'[p] = poller[p] \/ poller'[p] = IdlePoller
    BY <2>1 DEF IdlePoller
  <2>2. ASSUME NEW q \in Pollers, NEW a, Answer(q, a)
        PROVE  poller'[p] = poller[p] \/ poller'[p] = IdlePoller
    BY <1>0, <2>2 DEF Answer
  <2>3. ASSUME NEW q \in Pollers, NEW r \in Requests, PollRead(q, r)
        PROVE  poller'[p].since \in {0, clock, poller[p].since}
    <3>1. CASE poller' = [poller EXCEPT ![q] = [poller[q] EXCEPT !.pc = "decide", !.req = r,
                                                                 !.snap = rec[r]]]
      BY <1>0, <3>1 DEF Poller
    <3> QED BY <2>1, <2>2, <2>3, <3>1 DEF PollRead
  <2>4. ASSUME NEW q \in Pollers, PollDecide(q)
        PROVE  poller'[p].since \in {0, clock, poller[p].since}
    <3>1. ASSUME NEW op, PollGoesOn(q, op) PROVE poller'[p].since = poller[p].since
      BY <1>0, <3>1 DEF PollGoesOn, Poller
    <3>2. (\E op : PollGoesOn(q, op)) \/ (\E a : Answer(q, a))
      BY <2>4 DEF PollDecide
    <3> QED BY <2>1, <2>2, <3>1, <3>2
  <2>5. ASSUME NEW q \in Pollers, PollReread(q)
        PROVE  poller'[p].since \in {0, clock, poller[p].since}
    <3>1. CASE poller' = [poller EXCEPT ![q] = [poller[q] EXCEPT !.pc = "write",
                                          !.snap = rec[poller[q].req], !.since = clock]]
      BY <1>0, <3>1 DEF Poller
    <3> QED BY <2>1, <2>2, <2>5, <3>1 DEF PollReread
  <2>6. ASSUME NEW q \in Pollers, \/ IssueRefused(q) \/ PollWrite(q) \/ ExpireWrite(q)
                                   \/ ConsumeWrite(q) \/ PollAborted(q)
        PROVE  poller'[p].since \in {0, clock, poller[p].since}
    <3>1. \E a : Answer(q, a)
      BY <2>6 DEF IssueRefused, PollWrite, ExpireWrite, ConsumeWrite, PollAborted
    <3> QED BY <2>1, <2>2, <3>1
  <2>7. CASE \/ Tick \/ UNCHANGED vars \/ \E r \in Requests : InitiationStep(r)
             \/ \E c \in Callbacks : CallbackStep(c)
    <3>1. poller' = poller
      BY <2>7 DEF Tick, vars, InitiationStep, StartFlow, InitiationFails, FlowEnds, StoreRequest,
           CallbackStep, CallbackLoad, CallbackUnchecked, Continue, CallbackRead,
           CallbackWrite, CallbackAborted, pollVars
    <3> QED BY <3>1
  <2> QED BY <2>3, <2>4, <2>5, <2>6, <2>7 DEF Next, PollerStep
<1>3. ASSUME NEW p \in Pollers PROVE poller'[p].since <= clock'
  <2>1. poller[p].since <= clock
    BY DEF ReadBefore
  <2> QED BY <1>0, <1>1, <1>2, <2>1
<1> QED BY <1>3 DEF ReadBefore

\* What is left of NoTokensAfterExpiry on the table: the handler that returns the
\* tokens made its last look at the record while the request had not expired.
IssuerReadInTime ==
  [][\A r \in Requests :
       issued'[r] > issued[r] /\ rec[r].storedUntil # Never =>
         \E p \in Pollers : /\ poller[p].req = r /\ poller[p].pc = "write"
                            /\ poller[p].since <= rec[r].expiry]_vars

\* Whichever store is in use, tokens are returned by a handler (MarkConsumed) that
\* read the record no later than the expiry of the request.
THEOREM IssuersReadInTime == Spec => IssuerReadInTime
<1>1. ASSUME CIBAInv, ReadBefore, [Next]_vars, NEW r \in Requests, issued'[r] > issued[r],
             rec[r].storedUntil # Never
      PROVE  \E p \in Pollers : /\ poller[p].req = r /\ poller[p].pc = "write"
                                /\ poller[p].since <= rec[r].expiry
  <2>1. PICK p \in Pollers :
          /\ ConsumeWrite(p) /\ poller[p].req = r
          /\ \E t \in SwapTimes(Backend, poller[p].since, clock) : t <= rec[r].expiry
    BY <1>1, IssueInTime
  <2>2. /\ poller[p].since \in Nat /\ clock \in Nat /\ rec[r].expiry \in Nat
        /\ poller[p].since <= clock
    BY <1>1 DEF CIBAInv, TypeOK, Poller, Record, ReadBefore
  <2>3. poller[p].since <= rec[r].expiry
    BY <2>1, <2>2 DEF SwapTimes
  <2> QED BY <2>1, <2>3 DEF ConsumeWrite
<1>2. CIBAInv /\ ReadBefore /\ [Next]_vars =>
        [\A r \in Requests :
           issued'[r] > issued[r] /\ rec[r].storedUntil # Never =>
             \E p \in Pollers : /\ poller[p].req = r /\ poller[p].pc = "write"
                                /\ poller[p].since <= rec[r].expiry]_vars
  BY <1>1
<1>3. Init => ReadBefore
  BY DEF Init, ReadBefore, IdlePoller
<1>4. TypeOK /\ Bound /\ ReadBefore /\ [Next]_vars => ReadBefore'
  BY NextTypes, ReadBeforeStep
<1> QED BY <1>2, <1>3, <1>4, CIBATypes, CIBAAlways, PTL DEF Spec, IssuerReadInTime

-----------------------------------------------------------------------------
(* CIBAGrant: a one-time grant *)

Status(n, s) ==
  IF n > 0 THEN "redeemed"
  ELSE IF s = "ABSENT" THEN "absent"
  ELSE IF s = "PENDING" THEN "open"
  ELSE IF s = "AUTHENTICATED" THEN "granted"
  ELSE "closed"

Was(r) == Status(consumed[r], rec[r].state)
Becomes(r) == Status(consumed'[r], rec'[r].state)

LEMMA StatusOf ==
  ASSUME TypeOK, TypeOK', NEW r \in Requests
  PROVE  GrantStatus(r) = Was(r) /\ GrantStatus(r)' = Becomes(r)
<1>1. consumed[r] \in Nat /\ consumed'[r] \in Nat
  BY DEF TypeOK
<1>2. ASSUME NEW n \in Nat, NEW s
      PROVE  Status(n, s) = CASE n > 0 -> "redeemed"
                              [] n = 0 /\ s = "ABSENT" -> "absent"
                              [] n = 0 /\ s = "PENDING" -> "open"
                              [] n = 0 /\ s = "AUTHENTICATED" -> "granted"
                              [] OTHER -> "closed"
  BY DEF Status
<1> QED BY <1>1, <1>2 DEF GrantStatus, Was, Becomes

\* A step leaves the abstract state of r alone, or moves it the way OneTimeGrant does.
Same(r) ==
  Becomes(r) = Was(r) /\ grantee'[r] = grantee[r] /\ issued'[r] = issued[r]

PromiseMove(r) ==
  \/ Same(r)
  \/ /\ Was(r) = "absent" /\ Becomes(r) = "open"
     /\ grantee'[r] = grantee[r] /\ issued'[r] = issued[r]
  \/ /\ Was(r) = "open" /\ Becomes(r) = "granted"
     /\ grantee'[r] \in Users /\ issued'[r] = issued[r]
  \/ /\ Was(r) = "granted" /\ Becomes(r) = "redeemed"
     /\ grantee'[r] = grantee[r] /\ issued'[r] \in {issued[r], issued[r] + 1}
  \/ /\ Was(r) \in {"open", "granted"} /\ Becomes(r) = "closed"
     /\ grantee'[r] = grantee[r] /\ issued'[r] = issued[r]

\* A step that changes the abstract state of q alone.
LEMMA PromiseStep ==
  ASSUME TypeOK, TypeOK', NEW q \in Requests, \A r \in Requests \ {q} : Same(r), PromiseMove(q)
  PROVE  [Promise!Next]_(Promise!vars)
<1> DEFINE status == [r \in Requests |-> GrantStatus(r)]
<1>0. /\ issued \in [Requests -> Nat] /\ issued' \in [Requests -> Nat]
      /\ grantee \in [Requests -> Users \cup {NoUser}]
      /\ grantee' \in [Requests -> Users \cup {NoUser}]
      /\ status = [r \in Requests |-> Was(r)] /\ status' = [r \in Requests |-> Becomes(r)]
  BY StatusOf DEF TypeOK
<1>1. ASSUME NEW s, Becomes(q) = s PROVE status' = [status EXCEPT ![q] = s]
  <2>1. [r \in Requests |-> Becomes(r)] = [[r \in Requests |-> Was(r)] EXCEPT ![q] = s]
    BY <1>1 DEF Same
  <2> QED BY <1>0, <2>1
<1>2. ASSUME NEW u, grantee'[q] = u PROVE grantee' = [grantee EXCEPT ![q] = u]
  BY <1>0, <1>2 DEF Same
<1>3. ASSUME grantee'[q] = grantee[q] PROVE grantee' = grantee
  BY <1>0, <1>3 DEF Same
<1>4. ASSUME NEW n, issued'[q] = issued[q] + n PROVE issued' = [issued EXCEPT ![q] = @ + n]
  BY <1>0, <1>4 DEF Same
<1>5. ASSUME issued'[q] = issued[q] PROVE issued' = issued
  BY <1>0, <1>5 DEF Same
<1>6. CASE Same(q)
  <2>1. status' = status
    <3>1. [r \in Requests |-> Becomes(r)] = [r \in Requests |-> Was(r)]
      BY <1>6 DEF Same
    <3> QED BY <1>0, <3>1
  <2> QED BY <1>3, <1>5, <1>6, <2>1 DEF Same, Promise!vars
<1>7. CASE /\ Was(q) = "absent" /\ Becomes(q) = "open"
           /\ grantee'[q] = grantee[q] /\ issued'[q] = issued[q]
  <2>1. Promise!Open(q)
    BY <1>0, <1>1, <1>3, <1>5, <1>7 DEF Promise!Open
  <2> QED BY <2>1 DEF Promise!Next
<1>8. CASE /\ Was(q) = "open" /\ Becomes(q) = "granted"
           /\ grantee'[q] \in Users /\ issued'[q] = issued[q]
  <2>1. PICK u \in Users : u = grantee'[q]
    BY <1>8
  <2>2. Promise!Grant(q, u)
    BY <1>0, <1>1, <1>2, <1>5, <1>8, <2>1 DEF Promise!Grant
  <2> QED BY <2>2 DEF Promise!Next
<1>9. CASE /\ Was(q) = "granted" /\ Becomes(q) = "redeemed"
           /\ grantee'[q] = grantee[q] /\ issued'[q] \in {issued[q], issued[q] + 1}
  <2>1. \E n \in {0, 1} : issued' = [issued EXCEPT ![q] = @ + n]
    <3>1. issued[q] \in Nat
      BY <1>0
    <3>2. issued'[q] = issued[q] + 0 \/ issued'[q] = issued[q] + 1
      BY <1>9, <3>1
    <3> QED BY <1>4, <3>2
  <2>2. Promise!Redeem(q)
    BY <1>0, <1>1, <1>3, <1>9, <2>1 DEF Promise!Redeem
  <2> QED BY <2>2 DEF Promise!Next
<1>10. CASE /\ Was(q) \in {"open", "granted"} /\ Becomes(q) = "closed"
            /\ grantee'[q] = grantee[q] /\ issued'[q] = issued[q]
  <2>1. Promise!Close(q)
    BY <1>0, <1>1, <1>3, <1>5, <1>10 DEF Promise!Close
  <2> QED BY <2>1 DEF Promise!Next
<1> QED BY <1>6, <1>7, <1>8, <1>9, <1>10 DEF PromiseMove

\* FAILED or EXPIRED, put over whatever is stored, closes what was not redeemed.
LEMMA ClosingMove ==
  ASSUME TypeOK, NEW r \in Requests, rec[r].state # "ABSENT",
         rec'[r].state \in {"DENIED", "FAILED", "EXPIRED"},
         UNCHANGED <<consumed[r], grantee[r], issued[r]>>
  PROVE  PromiseMove(r)
<1>1. CASE consumed[r] > 0
  BY <1>1 DEF PromiseMove, Same, Was, Becomes, Status
<1>2. CASE ~(consumed[r] > 0)
  <2>1. Was(r) \in {"open", "granted", "closed"}
    BY <1>2 DEF Was, Status
  <2>2. Becomes(r) = "closed"
    BY <1>2 DEF Becomes, Status
  <2> QED BY <2>1, <2>2 DEF PromiseMove, Same
<1> QED BY <1>1, <1>2

LEMMA PromiseByStep ==
  ASSUME TypeOK, TypeOK', Bound, SnapInv, GrantsInv, [Next]_vars
  PROVE  [Promise!Next]_(Promise!vars)
<1>0. ASSUME \A r \in Requests : Same(r) PROVE [Promise!Next]_(Promise!vars)
  <2>1. [r \in Requests |-> GrantStatus(r)]' = [r \in Requests |-> GrantStatus(r)]
    BY <1>0, StatusOf DEF Same
  <2>2. issued' = issued /\ grantee' = grantee
    BY <1>0 DEF Same, TypeOK
  <2> QED BY <2>1, <2>2 DEF Promise!vars
<1>s. ASSUME NEW r \in Requests, rec'[r].state = rec[r].state,
             UNCHANGED <<consumed[r], grantee[r], issued[r]>>
      PROVE  Same(r)
  BY <1>s DEF Same, Was, Becomes
<1>o. ASSUME NEW r \in Requests, rec[r].state \in {"ABSENT", "PENDING", "AUTHENTICATED"}
      PROVE  consumed[r] = 0
  BY <1>o DEF GrantsInv, GrantInv
<1>1. CASE QuietStep
  BY <1>0, <1>1, <1>s, QuietStepQuiet DEF grantVars
<1>2. ASSUME NEW q \in Requests, NEW e \in Expiries, StoreRequest(q, e)
      PROVE  [Promise!Next]_(Promise!vars)
  <2>1. UNCHANGED <<issued, consumed, grantee>>
    BY <1>2 DEF StoreRequest, flowVars, pollVars
  <2>2. \A r \in Requests \ {q} : Same(r)
    BY <1>2, <1>s, <2>1 DEF StoreRequest, TypeOK
  <2>3. rec[q].state = "ABSENT" /\ rec'[q].state = "PENDING"
    BY <1>2 DEF StoreRequest, TypeOK, NoRecord, GrantsInv, GrantInv
  <2>4. Was(q) = "absent" /\ Becomes(q) = "open"
    BY <1>o, <2>1, <2>3 DEF Was, Becomes, Status
  <2> QED BY <2>1, <2>2, <2>4, PromiseStep DEF PromiseMove
<1>3. ASSUME NEW c \in Callbacks, CallbackWrite(c) PROVE [Promise!Next]_(Promise!vars)
  <2>0. PICK q \in Requests : q = callback[c].req
    BY <1>3 DEF CallbackWrite, Bound
  <2>1. UNCHANGED <<issued, consumed>>
    BY <1>3 DEF CallbackWrite, pollVars
  <2>2. \A r \in Requests \ {q} : Same(r)
    BY <1>3, <1>s, <2>0, <2>1, CallbackMoves
  <2>3. CASE rec'[q] = rec[q] /\ grantee'[q] = grantee[q]
    BY <1>s, <2>1, <2>2, <2>3, PromiseStep DEF PromiseMove
  <2>4. CASE /\ callback[c].target = "AUTHENTICATED" /\ rec[q].state = "PENDING"
             /\ rec'[q].state = "AUTHENTICATED" /\ grantee'[q] = callback[c].user
    <3>1. Was(q) = "open" /\ Becomes(q) = "granted"
      BY <1>o, <2>1, <2>4 DEF Was, Becomes, Status
    <3>2. grantee'[q] \in Users
      BY <1>3, <2>4 DEF CallbackWrite, SnapInv, CallbackSnap, Consented
    <3> QED BY <2>1, <2>2, <3>1, <3>2, PromiseStep DEF PromiseMove
  <2>5. CASE /\ rec[q].state # "ABSENT" /\ rec'[q].state \in {"DENIED", "FAILED", "EXPIRED"}
             /\ grantee'[q] = grantee[q]
    BY <2>1, <2>2, <2>5, ClosingMove, PromiseStep
  <2> QED BY <1>3, <2>0, <2>3, <2>4, <2>5, CallbackMoves
<1>4. ASSUME NEW p \in Pollers, PollWrite(p) PROVE [Promise!Next]_(Promise!vars)
  <2>1. UNCHANGED <<issued, consumed, grantee>>
    BY <1>4 DEF PollWrite, flowVars
  <2> QED BY <1>0, <1>4, <1>s, <2>1, PollMoves
<1>5. ASSUME NEW p \in Pollers, ExpireWrite(p) PROVE [Promise!Next]_(Promise!vars)
  <2>0. PICK q \in Requests : q = poller[p].req
    BY <1>5 DEF ExpireWrite, Bound
  <2>1. UNCHANGED <<issued, consumed, grantee>>
    BY <1>5 DEF ExpireWrite, flowVars
  <2>2. \A r \in Requests \ {q} : Same(r)
    BY <1>5, <1>s, <2>0, <2>1 DEF ExpireWrite, TypeOK
  <2>3. CASE rec'[q] = rec[q]
    BY <1>s, <2>1, <2>2, <2>3, PromiseStep DEF PromiseMove
  <2>4. CASE rec[q].state # "ABSENT" /\ rec'[q].state = "EXPIRED"
    BY <2>1, <2>2, <2>4, ClosingMove, PromiseStep
  <2> QED BY <1>5, <2>3, <2>4, ExpireMoves
<1>6. ASSUME NEW p \in Pollers, ConsumeWrite(p) PROVE [Promise!Next]_(Promise!vars)
  <2>0. PICK q \in Requests : q = poller[p].req
    BY <1>6 DEF ConsumeWrite, Bound
  <2>1. UNCHANGED grantee
    BY <1>6 DEF ConsumeWrite, flowVars
  <2>2. \A r \in Requests \ {q} : Same(r)
    BY <1>6, <1>s, <2>0, <2>1, ConsumeMoves
  <2>3. CASE rec'[q] = rec[q] /\ consumed'[q] = consumed[q] /\ issued'[q] = issued[q]
    BY <1>s, <2>1, <2>2, <2>3, PromiseStep DEF PromiseMove
  <2>4. CASE /\ rec[q].state = "AUTHENTICATED" /\ rec'[q].state = "CONSUMED"
             /\ consumed'[q] = consumed[q] + 1 /\ issued'[q] \in {issued[q], issued[q] + 1}
    <3>1. consumed[q] = 0
      BY <1>o, <2>4
    <3>2. Was(q) = "granted" /\ Becomes(q) = "redeemed"
      BY <2>4, <3>1 DEF Was, Becomes, Status
    <3> QED BY <2>1, <2>2, <2>4, <3>2, PromiseStep DEF PromiseMove
  <2> QED BY <1>6, <2>0, <2>3, <2>4, ConsumeMoves
<1> QED BY <1>1, <1>2, <1>3, <1>4, <1>5, <1>6, StepCases

\* CIBA implements OneTimeGrant, for any number of requests and handlers and on each
\* of the stores: UpdateState may spoil a request but cannot open one again.
THEOREM CIBAKeepsPromise == Spec => ImplementsOneTimeGrant
<1>1. Init => Promise!Init
  BY DEF Init, Promise!Init, GrantStatus, NoRecord
<1>2. CIBAInv /\ [Next]_vars => [Promise!Next]_(Promise!vars)
  <2> SUFFICES ASSUME CIBAInv, [Next]_vars PROVE [Promise!Next]_(Promise!vars)
    OBVIOUS
  <2>1. TypeOK /\ TypeOK' /\ Bound /\ SnapInv /\ GrantsInv
    BY NextTypes DEF CIBAInv
  <2> QED BY <2>1, PromiseByStep
<1> QED BY <1>1, <1>2, CIBAAlways, PTL DEF Spec, ImplementsOneTimeGrant, Promise!Spec

-----------------------------------------------------------------------------
(* Enforcement: the inductive invariant *)

\* What a check in flight relies on.  A token that was revoked when its check
\* began is still on one of the lists, and once the check has passed the lookup by
\* jti it is covered by a criterion.
Sound(c) ==
  /\ check[c].verdict = "ok" => ~check[c].late
  /\ check[c].pc = "jti" /\ check[c].late => check[c].token \in denied \cup barred
  /\ check[c].pc = "criteria" /\ check[c].late => check[c].token \in barred

ChecksSound == \A c \in Checks : Sound(c)

EnforcementInv == EnforcementTypeOK /\ ChecksSound /\ HalfOpenHasTrial /\ TrippedAtThreshold

-----------------------------------------------------------------------------
(* Enforcement: the breaker on its own *)

LEMMA AllowKeeps ==
  ASSUME EnforcementTypeOK, TrippedAtThreshold, Allow
  PROVE  /\ state' \in {"closed", "half_open"}
         /\ fails' \in 0..FailureThreshold /\ openFor' \in 0..OpenDuration
         /\ TrippedAtThreshold'
BY DEF EnforcementTypeOK, TrippedAtThreshold, Allow, Allows

LEMMA RecordSuccessKeeps ==
  ASSUME EnforcementTypeOK, RecordSuccess
  PROVE  /\ state' = "closed"
         /\ fails' \in 0..FailureThreshold /\ openFor' \in 0..OpenDuration
         /\ TrippedAtThreshold'
BY EnforcementConstants DEF EnforcementTypeOK, TrippedAtThreshold, RecordSuccess

LEMMA RecordFailureKeeps ==
  ASSUME EnforcementTypeOK, TrippedAtThreshold, RecordFailure
  PROVE  /\ state' \in {"closed", "open"}
         /\ fails' \in 0..FailureThreshold /\ openFor' \in 0..OpenDuration
         /\ TrippedAtThreshold'
BY EnforcementConstants DEF EnforcementTypeOK, TrippedAtThreshold, RecordFailure

-----------------------------------------------------------------------------
(* Enforcement: the steps of a check *)

LEMMA EnforcementInitHolds == EnforcementInit => EnforcementInv
BY EnforcementConstants
   DEF EnforcementInit, EnforcementInv, EnforcementTypeOK, ChecksSound, Sound,
       HalfOpenHasTrial, TrippedAtThreshold,
       Check, IdleCheck

\* A check that ends with a sound verdict disturbs no other check.
LEMMA EndsKeeps ==
  ASSUME NEW c \in Checks, NEW late \in BOOLEAN,
         NEW verdict \in {"ok", "revoked", "unavailable"},
         EnforcementTypeOK, ChecksSound, UNCHANGED denyVars,
         Ends(c, late, verdict), verdict = "ok" => ~late
  PROVE  check' \in [Checks -> Check] /\ ChecksSound'
<1>1. check' \in [Checks -> Check]
  BY DEF EnforcementTypeOK, Ends, Check, IdleCheck
<1>2. ASSUME NEW d \in Checks PROVE Sound(d)'
  <2>1. CASE d = c
    BY <2>1 DEF EnforcementTypeOK, Ends, IdleCheck, Sound
  <2>2. CASE d # c
    BY <2>2 DEF EnforcementTypeOK, Ends, Sound, ChecksSound, denyVars
  <2> QED BY <2>1, <2>2
<1> QED BY <1>1, <1>2 DEF ChecksSound

LEMMA BeginKeeps ==
  ASSUME NEW c \in Checks, NEW t \in Tokens, EnforcementInv, Begin(c, t)
  PROVE  EnforcementInv'
<1> DEFINE late == t \in denied \cup barred
<1> USE DEF EnforcementInv
<1>0. denied' = denied /\ barred' = barred /\ late \in BOOLEAN
  BY DEF Begin, denyVars
<1>1. CASE t \notin WithJTI \cup WithCriteria /\ Ends(c, late, "ok") /\ UNCHANGED breakerVars
  <2>1. ~late
    BY <1>1 DEF EnforcementTypeOK
  <2>2. check' \in [Checks -> Check] /\ ChecksSound'
    <3> HIDE DEF late
    <3> QED BY <1>0, <1>1, <2>1, EndsKeeps DEF denyVars
  <2>3. EnforcementTypeOK' /\ TrippedAtThreshold'
    BY <1>0, <1>1, <2>2 DEF EnforcementTypeOK, TrippedAtThreshold, breakerVars
  <2>4. HalfOpenHasTrial'
    BY <1>1 DEF Begin, Ends, HalfOpenHasTrial, breakerVars, EnforcementTypeOK
  <2> QED BY <2>2, <2>3, <2>4
<1>2. CASE Ends(c, late, "unavailable") /\ UNCHANGED breakerVars
  <2>2. check' \in [Checks -> Check] /\ ChecksSound'
    <3> HIDE DEF late
    <3> QED BY <1>0, <1>2, EndsKeeps DEF denyVars
  <2>3. EnforcementTypeOK' /\ TrippedAtThreshold'
    BY <1>0, <1>2, <2>2 DEF EnforcementTypeOK, TrippedAtThreshold, breakerVars
  <2>4. HalfOpenHasTrial'
    BY <1>2 DEF Begin, Ends, HalfOpenHasTrial, breakerVars, EnforcementTypeOK
  <2> QED BY <2>2, <2>3, <2>4
<1>3. CASE /\ t \in WithJTI \cup WithCriteria
           /\ Allow
           /\ check' = [check EXCEPT ![c] =
                [IdleCheck EXCEPT !.pc = IF t \in WithJTI THEN "jti" ELSE "criteria",
                                  !.token = t, !.late = late]]
  <2>1. TrippedAtThreshold' /\ state' \in {"closed", "half_open"}
        /\ fails' \in 0..FailureThreshold /\ openFor' \in 0..OpenDuration
    BY <1>3, AllowKeeps
  <2>2. check' \in [Checks -> Check]
    <3>1. (state = "open") \in BOOLEAN
      OBVIOUS
    <3> HIDE DEF late
    <3> QED BY <1>0, <1>3, <3>1 DEF EnforcementTypeOK, Check, IdleCheck
  <2>3. check'[c].pc # "idle"
    BY <1>3 DEF EnforcementTypeOK, IdleCheck
  <2>4. ASSUME NEW d \in Checks PROVE Sound(d)'
    <3>1. CASE d = c
      BY <1>0, <1>3, <3>1 DEF EnforcementTypeOK, IdleCheck, Sound
    <3>2. CASE d # c
      BY <1>0, <1>3, <3>2 DEF EnforcementTypeOK, Sound, ChecksSound
    <3> QED BY <3>1, <3>2
  <2> QED BY <1>0, <2>1, <2>2, <2>3, <2>4 DEF EnforcementTypeOK, ChecksSound, HalfOpenHasTrial
<1> QED BY <1>1, <1>2, <1>3 DEF Begin

\* A lookup that ends its check moves the breaker away from half open.
LEMMA LookupEndsKeeps ==
  ASSUME NEW c \in Checks, NEW verdict \in {"ok", "revoked", "unavailable"},
         EnforcementInv, check[c].pc # "idle", UNCHANGED denyVars,
         Ends(c, check[c].late, verdict), verdict = "ok" => ~check[c].late,
         RecordSuccess \/ RecordFailure
  PROVE  EnforcementInv'
<1> USE DEF EnforcementInv
<1>1. check[c].late \in BOOLEAN
  BY DEF EnforcementTypeOK, Check
<1>2. check' \in [Checks -> Check] /\ ChecksSound'
  BY <1>1, EndsKeeps
<1>3. /\ state' \in {"closed", "open"} /\ TrippedAtThreshold'
      /\ fails' \in 0..FailureThreshold /\ openFor' \in 0..OpenDuration
  BY RecordSuccessKeeps, RecordFailureKeeps
<1> QED BY <1>2, <1>3 DEF EnforcementTypeOK, HalfOpenHasTrial, denyVars

LEMMA LookupJTIKeeps ==
  ASSUME NEW c \in Checks, EnforcementInv, LookupJTI(c)
  PROVE  EnforcementInv'
<1> DEFINE t == check[c].token
<1> USE DEF EnforcementInv
<1>0. check[c].pc = "jti" /\ UNCHANGED denyVars
  BY DEF LookupJTI
<1>1. CASE t \in denied /\ RecordSuccess /\ Ends(c, check[c].late, "revoked")
  BY <1>0, <1>1, LookupEndsKeeps
<1>2. CASE /\ t \notin denied /\ UNCHANGED breakerVars
           /\ check' = [check EXCEPT ![c] = [@ EXCEPT !.pc = "criteria"]]
  <2>1. check' \in [Checks -> Check]
    BY <1>2 DEF EnforcementTypeOK, Check
  <2>2. ASSUME NEW d \in Checks PROVE Sound(d)'
    <3>1. CASE d = c
      BY <1>0, <1>2, <3>1 DEF EnforcementTypeOK, Check, Sound, ChecksSound, denyVars
    <3>2. CASE d # c
      BY <1>0, <1>2, <3>2 DEF EnforcementTypeOK, Sound, ChecksSound, denyVars
    <3> QED BY <3>1, <3>2
  <2>3. check'[c].pc # "idle"
    BY <1>2 DEF EnforcementTypeOK, Check
  <2> QED BY <1>0, <1>2, <2>1, <2>2, <2>3
          DEF EnforcementTypeOK, ChecksSound, HalfOpenHasTrial, TrippedAtThreshold,
              breakerVars, denyVars
<1>3. CASE t \notin denied /\ t \notin WithCriteria /\ RecordSuccess
           /\ Ends(c, check[c].late, "ok")
  <2>1. ~check[c].late
    BY <1>0, <1>3 DEF EnforcementTypeOK, ChecksSound, Sound
  <2> QED BY <1>0, <1>3, <2>1, LookupEndsKeeps
<1> QED BY <1>1, <1>2, <1>3 DEF LookupJTI

LEMMA LookupCriteriaKeeps ==
  ASSUME NEW c \in Checks, EnforcementInv, LookupCriteria(c)
  PROVE  EnforcementInv'
<1> DEFINE verdict == IF check[c].token \in barred THEN "revoked" ELSE "ok"
<1>1. verdict \in {"ok", "revoked", "unavailable"}
  OBVIOUS
<1>2. verdict = "ok" => ~check[c].late
  BY DEF LookupCriteria, EnforcementInv, ChecksSound, Sound
<1>3. check[c].pc # "idle" /\ Ends(c, check[c].late, verdict) /\ RecordSuccess
      /\ UNCHANGED denyVars
  BY DEF LookupCriteria
<1> QED BY <1>1, <1>2, <1>3, LookupEndsKeeps

LEMMA EnforcementNextKeeps == EnforcementInv /\ [EnforcementNext]_enforcementVars => EnforcementInv'
<1> SUFFICES ASSUME EnforcementInv, [EnforcementNext]_enforcementVars PROVE EnforcementInv'
  OBVIOUS
<1>1. CASE EnforcementTick
  BY <1>1, EnforcementConstants
     DEF EnforcementTick, EnforcementInv, EnforcementTypeOK, ChecksSound, Sound,
         HalfOpenHasTrial, TrippedAtThreshold, denyVars
<1>2. ASSUME NEW t \in Tokens, Revoke(t) PROVE EnforcementInv'
  <2>1. denied \subseteq denied' /\ barred \subseteq barred'
    BY <1>2 DEF Revoke
  <2>2. denied' \subseteq WithJTI /\ barred' \subseteq WithCriteria
    BY <1>2 DEF Revoke, EnforcementInv, EnforcementTypeOK
  <2>3. UNCHANGED <<state, fails, openFor, check>>
    BY <1>2 DEF Revoke, breakerVars
  <2> QED BY <2>1, <2>2, <2>3
          DEF EnforcementInv, EnforcementTypeOK, ChecksSound, Sound, HalfOpenHasTrial,
              TrippedAtThreshold
<1>3. ASSUME NEW c \in Checks, NEW t \in Tokens, Begin(c, t) PROVE EnforcementInv'
  BY <1>3, BeginKeeps
<1>4. ASSUME NEW c \in Checks, Resolve(c) PROVE EnforcementInv'
  <2>1. CASE LookupJTI(c)
    BY <2>1, LookupJTIKeeps
  <2>2. CASE LookupCriteria(c)
    BY <2>2, LookupCriteriaKeeps
  <2>3. CASE LookupFails(c)
    <3>1. /\ check[c].pc # "idle" /\ Ends(c, check[c].late, "unavailable")
          /\ RecordFailure /\ UNCHANGED denyVars
      BY <2>3 DEF LookupFails
    <3> QED BY <3>1, LookupEndsKeeps
  <2> QED BY <1>4, <2>1, <2>2, <2>3 DEF Resolve
<1>5. CASE UNCHANGED enforcementVars
  BY <1>5 DEF enforcementVars, breakerVars, denyVars, EnforcementInv, EnforcementTypeOK,
              ChecksSound, Sound,
              HalfOpenHasTrial, TrippedAtThreshold
<1> QED BY <1>1, <1>2, <1>3, <1>4, <1>5 DEF EnforcementNext

LEMMA AlwaysEnforcementInv == EnforcementSpec => []EnforcementInv
<1> QED BY EnforcementInitHolds, EnforcementNextKeeps, PTL DEF EnforcementSpec

-----------------------------------------------------------------------------
(* Enforcement: the properties *)

\* The state of the breaker, the lists and the checks keep their types.
THEOREM EnforcementTypes == EnforcementSpec => []EnforcementTypeOK
<1>1. EnforcementInv => EnforcementTypeOK
  BY DEF EnforcementInv
<1> QED BY <1>1, AlwaysEnforcementInv, PTL

\* EnsureNotRevoked never accepts a token that was revoked when the check began.
THEOREM NeverAccepted == EnforcementSpec => []RevokedNeverAccepted
<1>1. EnforcementInv => RevokedNeverAccepted
  BY DEF EnforcementInv, ChecksSound, Sound, RevokedNeverAccepted
<1> QED BY <1>1, AlwaysEnforcementInv, PTL

\* A half-open breaker always has a check in flight that will move it on.
THEOREM TrialInFlight == EnforcementSpec => []HalfOpenHasTrial
<1>1. EnforcementInv => HalfOpenHasTrial
  BY DEF EnforcementInv
<1> QED BY <1>1, AlwaysEnforcementInv, PTL

\* The breaker is closed exactly while the failures in a row are below the
\* threshold.
THEOREM Tripped == EnforcementSpec => []TrippedAtThreshold
<1>1. EnforcementInv => TrippedAtThreshold
  BY DEF EnforcementInv
<1> QED BY <1>1, AlwaysEnforcementInv, PTL
=============================================================================
