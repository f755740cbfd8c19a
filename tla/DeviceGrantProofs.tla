------------------------- MODULE DeviceGrantProofs --------------------------
(***************************************************************************)
(* Machine-checked proofs about DeviceGrant, for any number of requests,   *)
(* users, pollers, browsers and callbacks, any backend and any durations.  *)
(***************************************************************************)
EXTENDS DeviceGrant, TLAPS

-----------------------------------------------------------------------------
(* Types *)

\* The records from which every handler starts, and to which it returns, are
\* of the type of its local state.
LEMMA IdleTypes ==
  /\ NoRecord \in Record
  /\ IdlePoller \in Poller
  /\ IdleBrowser \in Browser
  /\ IdleCallback \in Callback
  BY DEF NoRecord, Record, IdlePoller, Poller, IdleBrowser, Browser, IdleCallback,
         Callback, FlowErrors

\* Ending a token request keeps the types of what it changes.
LEMMA AnswerTypes ==
  ASSUME TypeOK, NEW p \in Pollers, NEW a, Answer(p, a), a \in Refusals => poller[p].req \in Requests
  PROVE  poller' \in [Pollers -> Poller] /\ told' \in [Requests -> SUBSET Refusals]
  BY IdleTypes DEF TypeOK, Answer

LEMMA InitTypeOK == Init => TypeOK
  BY IdleTypes DEF Init, TypeOK

\* A handler that is under way has a request.
Bound ==
  /\ \A p \in Pollers : poller[p].pc # "idle" => poller[p].req \in Requests
  /\ \A b \in Browsers : browser[b].pc # "idle" => browser[b].req \in Requests
  /\ \A c \in Callbacks : callback[c].pc # "idle" => callback[c].req \in Requests

\* A token request that goes on with a request, or ends, keeps Bound.
LEMMA BoundByPoller ==
  ASSUME TypeOK, Bound, NEW p \in Pollers, NEW new,
         new.pc = "idle" \/ new.req \in Requests,
         poller' = [poller EXCEPT ![p] = new], UNCHANGED journeyVars
  PROVE  Bound'
  BY DEF TypeOK, Bound, journeyVars

LEMMA BrowserTypes ==
  ASSUME TypeOK, Bound, NEW b \in Browsers, BrowserStep(b)
  PROVE  TypeOK' /\ Bound'
<1> USE IdleTypes, DeviceGrantConstants
<1>1. ASSUME NEW r \in Requests, VerifyRead(b, r)
      PROVE  TypeOK' /\ Bound'
  BY <1>1 DEF VerifyRead, TypeOK, Bound, Browser, tokenVars, pollVars
<1>2. CASE ClaimRead(b)
  BY <1>2 DEF ClaimRead, TypeOK, Bound, Browser, IdleBrowser, tokenVars, pollVars
<1>3. CASE ClaimSwap(b)
  <2>1. browser[b].req \in Requests /\ browser[b].snap \in Record
    BY <1>3 DEF ClaimSwap, TypeOK, Bound, Browser
  <2>2. [browser[b].snap EXCEPT !.state = "REDEEMING"] \in Record
    BY <2>1 DEF Record, States
  <2>3. [IdleBrowser EXCEPT !.pc = "journey", !.req = browser[b].req] \in Browser
    BY <2>1 DEF Browser, IdleBrowser
  <2>4. /\ rec' \in [Requests -> Record]
        /\ browser' \in [Browsers -> Browser]
        /\ claims' \in [Requests -> SUBSET Browsers]
    BY <1>3, <2>1, <2>2, <2>3 DEF ClaimSwap, TypeOK
  <2>5. Bound'
    BY <1>3, <2>1 DEF ClaimSwap, TypeOK, Bound, IdleBrowser, pollVars
  <2> QED
    BY <1>3, <2>4, <2>5 DEF ClaimSwap, TypeOK, tokenVars, pollVars
<1>4. CASE JourneyEnd(b)
  BY <1>4 DEF JourneyEnd, Outcomes, TypeOK, Bound, Assertion, FlowErrors, IdleBrowser, tokenVars, pollVars
<1>5. CASE JourneyAbandoned(b)
  BY <1>5 DEF JourneyAbandoned, TypeOK, Bound, IdleBrowser, tokenVars, pollVars
<1> QED BY <1>1, <1>2, <1>3, <1>4, <1>5 DEF BrowserStep

LEMMA CallbackTypes ==
  ASSUME TypeOK, Bound, NEW c \in Callbacks, CallbackStep(c)
  PROVE  TypeOK' /\ Bound'
<1> USE IdleTypes, DeviceGrantConstants
<1>1. ASSUME NEW r \in Requests, NEW a \in assertions, CallbackLoad(c, r, a)
      PROVE  TypeOK' /\ Bound'
  BY <1>1 DEF CallbackLoad, TypeOK, Bound, Callback, IdleCallback, Assertion, tokenVars, pollVars
<1>2. CASE CallbackRead(c)
  BY <1>2 DEF CallbackRead, TypeOK, Bound, Callback, IdleCallback, tokenVars, pollVars
<1>3. CASE CallbackSwap(c)
  <2>1. Decided(c) \in Record
    BY <1>3 DEF CallbackSwap, Decided, TypeOK, Callback, Record, States
  <2> QED
    BY <1>3, <2>1 DEF CallbackSwap, TypeOK, Bound, IdleCallback, tokenVars, pollVars
<1>4. CASE CallbackAborted(c)
  BY <1>4 DEF CallbackAborted, TypeOK, Bound, IdleCallback, tokenVars, pollVars
<1> QED BY <1>1, <1>2, <1>3, <1>4 DEF CallbackStep

LEMMA PollerTypes ==
  ASSUME TypeOK, Bound, NEW p \in Pollers, PollerStep(p)
  PROVE  TypeOK' /\ Bound'
<1> USE IdleTypes, DeviceGrantConstants
<1>1. ASSUME NEW r \in Requests, PollRead(p, r)
      PROVE  TypeOK' /\ Bound'
  <2>1. [poller[p] EXCEPT !.pc = "decide", !.req = r, !.snap = rec[r]] \in Poller
    BY DEF TypeOK, Poller
  <2>2. poller' \in [Pollers -> Poller] /\ told' \in [Requests -> SUBSET Refusals]
    BY <1>1, <2>1 DEF PollRead, Answer, TypeOK, Refusals
  <2>3. Bound'
    <3>1. CASE Found(r)
      <4>1. [poller[p] EXCEPT !.pc = "decide", !.req = r, !.snap = rec[r]].req = r
        BY DEF TypeOK, Poller
      <4> QED BY <1>1, <3>1, <4>1, BoundByPoller DEF PollRead
    <3>2. CASE ~Found(r)
      BY <1>1, <3>2, BoundByPoller DEF PollRead, Answer, IdlePoller
    <3> QED BY <3>1, <3>2
  <2> QED
    BY <1>1, <2>2, <2>3 DEF PollRead, TypeOK, tokenVars, journeyVars
<1>2. CASE PollDecideExpired(p)
  <2>1. [poller[p] EXCEPT !.pc = "reread", !.op = "expire"] \in Poller
    BY DEF TypeOK, Poller
  <2>2. poller[p].req \in Requests
    BY <1>2 DEF PollDecideExpired, Bound
  <2>3. poller' \in [Pollers -> Poller] /\ told' \in [Requests -> SUBSET Refusals]
    BY <1>2, <2>1, <2>2 DEF PollDecideExpired, Answer, TypeOK, Refusals
  <2>4. Bound'
    <3>1. CASE poller[p].snap.state \in {"EXPIRED", "CONSUMED"}
      BY <1>2, <3>1, BoundByPoller DEF PollDecideExpired, Answer, IdlePoller
    <3>2. CASE poller[p].snap.state \notin {"EXPIRED", "CONSUMED"}
      <4>1. [poller[p] EXCEPT !.pc = "reread", !.op = "expire"].req = poller[p].req
        BY DEF TypeOK, Poller
      <4> QED BY <1>2, <2>2, <3>2, <4>1, BoundByPoller DEF PollDecideExpired
    <3> QED BY <3>1, <3>2
  <2> QED
    BY <1>2, <2>3, <2>4 DEF PollDecideExpired, TypeOK, tokenVars, journeyVars
<1>3. CASE PollDecidePending(p)
  <2>1. NextInterval(poller[p].snap, clock) \in Nat
    BY <1>3 DEF NextInterval, TypeOK, Poller, Record
  <2>2. [poller[p] EXCEPT !.pc = "reread", !.op = "poll", !.now = clock,
           !.interval = NextInterval(poller[p].snap, clock),
           !.reply = IF TooFast(poller[p].snap, clock) THEN "slow_down"
                     ELSE "authorization_pending"] \in Poller
    BY <2>1 DEF TypeOK, Poller
  <2>3. poller' \in [Pollers -> Poller]
    BY <1>3, <2>2 DEF PollDecidePending, TypeOK
  <2>4. Bound'
    BY <1>3 DEF PollDecidePending, TypeOK, Bound, Poller, journeyVars
  <2> QED
    BY <1>3, <2>3, <2>4 DEF PollDecidePending, TypeOK, tokenVars, journeyVars
<1>4. CASE PollDecideRefused(p)
  BY <1>4, AnswerTypes DEF PollDecideRefused, Answer, TypeOK, Bound, IdlePoller,
              tokenVars, journeyVars
<1>5. CASE PollDecideApproved(p)
  <2>1. poller[p].snap.user \in Users \cup {NoUser}
    BY DEF TypeOK, Poller, Record
  <2>2. [poller[p] EXCEPT !.pc = "reread", !.op = "consume",
           !.user = poller[p].snap.user] \in Poller
    BY <2>1 DEF TypeOK, Poller
  <2>3. Bound'
    BY <1>5 DEF PollDecideApproved, TypeOK, Bound, Poller, journeyVars
  <2> QED
    BY <1>5, <2>2, <2>3 DEF PollDecideApproved, TypeOK, tokenVars, journeyVars
<1>6. CASE IssueRefused(p)
  BY <1>6, AnswerTypes DEF IssueRefused, Answer, TypeOK, Bound, IdlePoller,
              tokenVars, journeyVars
<1>7. CASE PollReread(p)
  <2>1. poller[p].req \in Requests
    BY <1>7 DEF PollReread, Bound
  <2>2. [poller[p] EXCEPT !.pc = "swap", !.snap = rec[poller[p].req], !.since = clock]
          \in Poller
    BY <2>1 DEF TypeOK, Poller
  <2>3. poller' \in [Pollers -> Poller] /\ told' \in [Requests -> SUBSET Refusals]
    BY <1>7, <2>1, <2>2 DEF PollReread, Answer, TypeOK, Refusals
  <2>4. Bound'
    <3>1. [poller[p] EXCEPT !.pc = "swap", !.snap = rec[poller[p].req],
                            !.since = clock].req = poller[p].req
      BY DEF TypeOK, Poller
    <3>2. IdlePoller.pc = "idle"
      BY DEF IdlePoller
    <3> QED BY <1>7, <2>1, <3>1, <3>2, BoundByPoller DEF PollReread, Answer
  <2> QED
    BY <1>7, <2>3, <2>4 DEF PollReread, TypeOK, tokenVars, journeyVars
<1>8. CASE PollingSwap(p)
  <2>1. PolledRecord(p) \in Record
    BY <1>8 DEF PolledRecord, TypeOK, Poller, Record
  <2>2. poller[p].req \in Requests
    BY <1>8 DEF PollingSwap, Bound
  <2>3. poller' \in [Pollers -> Poller] /\ told' \in [Requests -> SUBSET Refusals]
    BY <1>8, <2>2, AnswerTypes DEF PollingSwap
  <2> QED
    BY <1>8, <2>1, <2>2, <2>3 DEF PollingSwap, Answer, TypeOK, Bound, IdlePoller,
              tokenVars, journeyVars
<1>9. CASE ExpireSwap(p)
  <2>1. [poller[p].snap EXCEPT !.state = "EXPIRED"] \in Record
    <3>1. poller[p].snap \in Record
      BY DEF TypeOK, Poller
    <3> QED BY <3>1 DEF Record, States
  <2>2. poller[p].req \in Requests
    BY <1>9 DEF ExpireSwap, Bound
  <2>3. poller' \in [Pollers -> Poller] /\ told' \in [Requests -> SUBSET Refusals]
    BY <1>9, <2>2, AnswerTypes DEF ExpireSwap
  <2> QED
    BY <1>9, <2>1, <2>2, <2>3 DEF ExpireSwap, Answer, TypeOK, Bound, IdlePoller,
              tokenVars, journeyVars
<1>10. CASE ConsumeSwap(p)
  <2>1. [poller[p].snap EXCEPT !.state = "CONSUMED"] \in Record
    <3>1. poller[p].snap \in Record
      BY DEF TypeOK, Poller
    <3> QED BY <3>1 DEF Record, States
  <2>2. poller[p].req \in Requests /\ poller[p].user \in Users \cup {NoUser}
    BY <1>10 DEF ConsumeSwap, Bound, TypeOK, Poller
  <2>3. poller' \in [Pollers -> Poller] /\ told' \in [Requests -> SUBSET Refusals]
    BY <1>10, <2>2, AnswerTypes DEF ConsumeSwap
  <2>4. /\ rec' \in [Requests -> Record]
        /\ consumed' \in [Requests -> Nat]
        /\ issued' \in [Requests -> Nat]
        /\ tokenUser' \in [Requests -> Users \cup {NoUser}]
    BY <1>10, <2>1, <2>2 DEF ConsumeSwap, TypeOK
  <2> QED
    BY <1>10, <2>2, <2>3, <2>4 DEF ConsumeSwap, Answer, TypeOK, Bound, IdlePoller,
              journeyVars
<1>11. CASE PollAborted(p)
  BY <1>11, AnswerTypes DEF PollAborted, Answer, TypeOK, Bound, IdlePoller,
              tokenVars, journeyVars
<1> QED
  BY <1>1, <1>2, <1>3, <1>4, <1>5, <1>6, <1>7, <1>8, <1>9, <1>10, <1>11 DEF PollerStep

LEMMA NextTypes == TypeOK /\ Bound /\ [Next]_vars => TypeOK' /\ Bound'
<1> SUFFICES ASSUME TypeOK, Bound, [Next]_vars
             PROVE  TypeOK' /\ Bound'
  OBVIOUS
<1>1. CASE Tick
  BY <1>1 DEF Tick, TypeOK, Bound, tokenVars, pollVars, journeyVars
<1>2. ASSUME NEW r \in Requests, Initiate(r)
      PROVE  TypeOK' /\ Bound'
  <2>1. [NoRecord EXCEPT !.state = "PENDING", !.pollInterval = Interval,
           !.expiry = clock + ExpiresIn,
           !.storedUntil = StoredUntil(ExpiresIn - 1 + Retention, clock)] \in Record
    <3>1. StoredUntil(ExpiresIn - 1 + Retention, clock) \in Nat /\ clock + ExpiresIn \in Nat
      BY DeviceGrantConstants DEF StoredUntil, Never, TypeOK
    <3>2. Interval \in Nat
      BY DeviceGrantConstants
    <3> QED BY <3>1, <3>2 DEF NoRecord, Record, States
  <2> QED
    BY <1>2, <2>1 DEF Initiate, TypeOK, Bound, tokenVars, pollVars, journeyVars
<1>3. CASE UNCHANGED vars
  BY <1>3 DEF vars, TypeOK, Bound, tokenVars, pollVars, journeyVars
<1> QED
  BY <1>1, <1>2, <1>3, BrowserTypes, CallbackTypes, PollerTypes DEF Next

\* Every variable keeps its type: no handler stores a record, an answer or an
\* assertion that the others could not read back.
THEOREM TypeCorrect == Spec => [](TypeOK /\ Bound)
<1>1. Init => TypeOK /\ Bound
  BY InitTypeOK DEF Init, Bound, IdlePoller, IdleBrowser, IdleCallback
<1> QED
  BY <1>1, NextTypes, PTL DEF Spec

-----------------------------------------------------------------------------
(* Tokens at most once, one journey per request *)

\* What makes both inductive: a request that was consumed is CONSUMED or EXPIRED
\* from then on, and one that was claimed has left PENDING for good, so that no
\* later compare-and-swap on APPROVED or PENDING can succeed.
OnceInv ==
  \A r \in Requests :
    /\ issued[r] <= consumed[r]
    /\ consumed[r] = 0 \/ (consumed[r] = 1 /\ rec[r].state \in {"CONSUMED", "EXPIRED"})
    /\ claims[r] # {} => rec[r].state \notin {"ABSENT", "PENDING"}
    /\ \A b1, b2 \in claims[r] : b1 = b2

\* How a step may move the state of a record: never back to a state that
\* MarkRedeeming or MarkConsumed accepts.
Onward(old, new) ==
  /\ old \in {"CONSUMED", "EXPIRED"} => new \in {"CONSUMED", "EXPIRED"}
  /\ old \notin {"ABSENT", "PENDING"} => new \notin {"ABSENT", "PENDING"}

LEMMA OnceByOnward ==
  ASSUME TypeOK, OnceInv, UNCHANGED <<claims, consumed, issued>>,
         \A r \in Requests : Onward(rec[r].state, rec'[r].state)
  PROVE  OnceInv'
  BY DEF OnceInv, Onward

LEMMA OnceStep == TypeOK /\ Bound /\ OnceInv /\ [Next]_vars => OnceInv'
<1> SUFFICES ASSUME TypeOK, Bound, OnceInv, [Next]_vars
             PROVE  OnceInv'
  OBVIOUS
<1>1. CASE UNCHANGED <<rec, claims, consumed, issued>>
  BY <1>1 DEF OnceInv
<1>2. ASSUME NEW r \in Requests, Initiate(r)
      PROVE  OnceInv'
  BY <1>2, OnceByOnward DEF Initiate, TypeOK, Onward, NoRecord, tokenVars, journeyVars
<1>3. ASSUME NEW b \in Browsers, ClaimSwap(b)
      PROVE  OnceInv'
  <2> DEFINE r == browser[b].req
  <2>1. r \in Requests /\ browser[b].snap \in Record
    BY <1>3 DEF ClaimSwap, Bound, TypeOK, Browser
  <2>2. CASE rec[r].state = "PENDING"
    BY <1>3, <2>1, <2>2
    DEF ClaimSwap, OnceInv, TypeOK, Record, tokenVars
  <2>3. CASE rec[r].state # "PENDING"
    <3>1. UNCHANGED <<rec, claims, consumed, issued>>
      BY <1>3, <2>3 DEF ClaimSwap, SwapsBeforeExpiry, FieldMatchesBeforeExpiry,
         FieldMatches, tokenVars
    <3> QED BY <1>1, <3>1
  <2> QED BY <2>2, <2>3
<1>4. ASSUME NEW c \in Callbacks, CallbackSwap(c)
      PROVE  OnceInv'
  <2> DEFINE r == callback[c].req
  <2>1. r \in Requests /\ callback[c].snap \in Record
    BY <1>4 DEF CallbackSwap, Bound, TypeOK, Callback
  <2>2. CASE rec[r].state = "REDEEMING"
    <3>1. Decided(c).state \in {"APPROVED", "DENIED", "FAILED"}
      BY <2>1 DEF Decided, Record
    <3>2. \A q \in Requests : Onward(rec[q].state, rec'[q].state)
      BY <1>4, <2>1, <2>2, <3>1 DEF CallbackSwap, Onward, TypeOK
    <3> QED BY <1>4, <3>2, OnceByOnward DEF CallbackSwap, tokenVars
  <2>3. CASE rec[r].state # "REDEEMING"
    <3>1. UNCHANGED <<rec, claims, consumed, issued>>
      BY <1>4, <2>3 DEF CallbackSwap, DecisionSwaps, Swaps, SwapsBeforeExpiry,
         FieldMatchesBeforeExpiry, FieldMatches, tokenVars
    <3> QED BY <1>1, <3>1
  <2> QED BY <2>2, <2>3
<1>5. ASSUME NEW p \in Pollers, PollingSwap(p)
      PROVE  OnceInv'
  <2>1. poller[p].req \in Requests /\ poller[p].snap \in Record
    BY <1>5 DEF PollingSwap, Bound, TypeOK, Poller
  <2>2. PolledRecord(p).state = poller[p].snap.state
    BY <2>1 DEF PolledRecord, Record
  <2>3. \A q \in Requests : Onward(rec[q].state, rec'[q].state)
    BY <1>5, <2>1, <2>2 DEF PollingSwap, Swaps, FieldMatches, Onward, TypeOK
  <2> QED BY <1>5, <2>3, OnceByOnward DEF PollingSwap, tokenVars, journeyVars
<1>6. ASSUME NEW p \in Pollers, ExpireSwap(p)
      PROVE  OnceInv'
  <2>1. poller[p].req \in Requests /\ poller[p].snap \in Record
    BY <1>6 DEF ExpireSwap, Bound, TypeOK, Poller
  <2>2. [poller[p].snap EXCEPT !.state = "EXPIRED"].state = "EXPIRED"
    BY <2>1 DEF Record
  <2>3. \A q \in Requests : Onward(rec[q].state, rec'[q].state)
    BY <1>6, <2>1, <2>2 DEF ExpireSwap, Onward, TypeOK
  <2> QED BY <1>6, <2>3, OnceByOnward DEF ExpireSwap, tokenVars, journeyVars
<1>7. ASSUME NEW p \in Pollers, ConsumeSwap(p)
      PROVE  OnceInv'
  <2> DEFINE r == poller[p].req
  <2>1. r \in Requests /\ poller[p].snap \in Record
    BY <1>7 DEF ConsumeSwap, Bound, TypeOK, Poller
  <2>2. [poller[p].snap EXCEPT !.state = "CONSUMED"].state = "CONSUMED"
    BY <2>1 DEF Record
  <2>3. CASE rec[r].state = "APPROVED"
    <3>1. consumed[r] = 0 /\ issued[r] = 0
      BY <2>1, <2>3 DEF OnceInv, TypeOK
    <3>2. CASE UNCHANGED <<rec, consumed, issued>>
      BY <1>1, <1>7, <3>2 DEF ConsumeSwap, journeyVars
    <3>3. CASE /\ rec' = [rec EXCEPT ![r] = [poller[p].snap EXCEPT !.state = "CONSUMED"]]
               /\ consumed' = [consumed EXCEPT ![r] = @ + 1]
               /\ issued' = [issued EXCEPT ![r] = @ + 1] \/ UNCHANGED issued
      <4>1. /\ rec'[r].state = "CONSUMED"
            /\ consumed'[r] = 1
            /\ issued'[r] \in {0, 1}
            /\ \A q \in Requests \ {r} : /\ rec'[q] = rec[q]
                                         /\ consumed'[q] = consumed[q]
                                         /\ issued'[q] = issued[q]
        BY <2>1, <2>2, <3>1, <3>3 DEF TypeOK
      <4>2. UNCHANGED claims
        BY <1>7 DEF ConsumeSwap, journeyVars
      <4> QED BY <4>1, <4>2 DEF OnceInv
    <3> QED BY <1>7, <3>2, <3>3 DEF ConsumeSwap
  <2>4. CASE rec[r].state # "APPROVED"
    <3>1. UNCHANGED <<rec, claims, consumed, issued>>
      BY <1>7, <2>4 DEF ConsumeSwap, SwapsBeforeExpiry, FieldMatchesBeforeExpiry,
         FieldMatches, journeyVars
    <3> QED BY <1>1, <3>1
  <2> QED BY <2>3, <2>4
<1>8. CASE \/ Tick \/ UNCHANGED vars
           \/ \E b \in Browsers : \/ \E r \in Requests : VerifyRead(b, r)
                                  \/ ClaimRead(b) \/ JourneyEnd(b) \/ JourneyAbandoned(b)
           \/ \E c \in Callbacks :
                \/ \E r \in Requests, a \in assertions : CallbackLoad(c, r, a)
                \/ CallbackRead(c) \/ CallbackAborted(c)
           \/ \E p \in Pollers :
                \/ \E r \in Requests : PollRead(p, r)
                \/ PollDecideExpired(p) \/ PollDecidePending(p) \/ PollDecideRefused(p)
                \/ PollDecideApproved(p) \/ IssueRefused(p) \/ PollReread(p)
                \/ PollAborted(p)
  <2>1. UNCHANGED <<rec, claims, consumed, issued>>
    BY <1>8 DEF Tick, vars, VerifyRead, ClaimRead, JourneyEnd, JourneyAbandoned,
       CallbackLoad, CallbackRead, CallbackAborted, PollRead, PollDecideExpired,
       PollDecidePending, PollDecideRefused, PollDecideApproved, IssueRefused,
       PollReread, PollAborted, tokenVars, journeyVars
  <2> QED BY <1>1, <2>1
<1> QED
  BY <1>2, <1>3, <1>4, <1>5, <1>6, <1>7, <1>8 DEF Next, BrowserStep, CallbackStep, PollerStep

LEMMA OnceAlways == Spec => []OnceInv
<1>1. Init => OnceInv
  BY DEF Init, OnceInv
<1> QED
  BY <1>1, TypeCorrect, OnceStep, PTL DEF Spec

\* However many token requests race for a device code, tokens are returned at
\* most once.
THEOREM TokensOnce == Spec => []TokensAtMostOnce
<1>1. TypeOK /\ OnceInv => TokensAtMostOnce
  BY DEF TypeOK, OnceInv, TokensAtMostOnce
<1> QED
  BY <1>1, TypeCorrect, OnceAlways, PTL

\* However many browsers submit a user code, at most one journey goes on with it.
THEOREM OneJourney == Spec => []OneJourneyPerRequest
<1>1. OnceInv => OneJourneyPerRequest
  BY DEF OnceInv, OneJourneyPerRequest
<1> QED
  BY <1>1, OnceAlways, PTL

-----------------------------------------------------------------------------
(* The life of a record *)

Open == {"PENDING", "REDEEMING"}

\* The states a record can have after it had the state s.
After(s) ==
  CASE s = "ABSENT" -> States \cup {"ABSENT"}
    [] s = "PENDING" -> States
    [] s = "REDEEMING" -> States \ {"PENDING"}
    [] s = "APPROVED" -> {"APPROVED", "CONSUMED", "EXPIRED"}
    [] OTHER -> {s, "EXPIRED"}

\* A record that was `old` can be `new` later.
Follows(old, new) ==
  /\ new.state \in After(old.state)
  /\ new.expiry = old.expiry
  /\ new.state = old.state \/ old.state \notin Open => new.user = old.user

(***************************************************************************)
(* The handlers write whole records that they read before.  This is        *)
(* harmless because every write is of a record whose state is the stored   *)
(* one, and such a record has the stored expiry and user.                  *)
(***************************************************************************)
Snapshot(snap, r) == snap.state # "ABSENT" /\ Follows(snap, rec[r])

PollerSnap(p) ==
  /\ poller[p].pc \in {"idle", "decide"} => poller[p].op = "none"
  /\ poller[p].pc # "idle" => Snapshot(poller[p].snap, poller[p].req)
  /\ poller[p].op = "consume" =>
       poller[p].snap.state = "APPROVED" /\ poller[p].user = poller[p].snap.user
BrowserSnap(b) ==
  browser[b].pc = "swap" =>
    Snapshot(browser[b].snap, browser[b].req) /\ browser[b].snap.state = "PENDING"
CallbackSnap(c) ==
  callback[c].pc = "swap" =>
    Snapshot(callback[c].snap, callback[c].req) /\ callback[c].snap.state = "REDEEMING"

SnapInv ==
  /\ \A p \in Pollers : PollerSnap(p)
  /\ \A b \in Browsers : BrowserSnap(b)
  /\ \A c \in Callbacks : CallbackSnap(c)

LEMMA FollowsFromRead ==
  ASSUME NEW x \in Record
  PROVE  Follows(x, x)
BY DEF Follows, After, Record, States

LEMMA FollowsOn ==
  ASSUME NEW x \in Record, NEW y \in Record, NEW z \in Record,
         x.state # "ABSENT", Follows(x, y), Follows(y, z)
  PROVE  Follows(x, z)
<1>1. z.state \in After(x.state)
  BY DEF Follows, After, Record, States
<1>2. ASSUME z.state = x.state PROVE y.state = x.state
  BY <1>2 DEF Follows, After, Record, States
<1>3. ASSUME x.state \notin Open PROVE y.state \notin Open
  BY <1>3 DEF Follows, After, Record, States, Open
<1> QED
  BY <1>1, <1>2, <1>3 DEF Follows

\* What a write with the state s, of a record like the stored one, makes of it.
Written(old, new, s) == new.state = s /\ new.expiry = old.expiry /\ new.user = old.user

\* The transitions of a record.
Moves(old, new) ==
  \/ Written(old, new, old.state)
  \/ old.state = "PENDING" /\ Written(old, new, "REDEEMING")
  \/ old.state = "REDEEMING" /\ new.state = "APPROVED" /\ new.expiry = old.expiry
  \/ old.state = "REDEEMING" /\ \E s \in {"DENIED", "FAILED"} : Written(old, new, s)
  \/ old.state = "APPROVED" /\ Written(old, new, "CONSUMED")
  \/ Written(old, new, "EXPIRED")

LEMMA MovesFollow ==
  ASSUME NEW old \in Record, NEW new \in Record, Moves(old, new), old.state # "ABSENT"
  PROVE  Follows(old, new)
BY DEF Moves, Written, Follows, After, Open, Record, States

LEMMA WriteOfRead ==
  ASSUME NEW snap \in Record, NEW old \in Record, Follows(snap, old), snap.state = old.state,
         NEW s, NEW new, new = [snap EXCEPT !.state = s]
  PROVE  Written(old, new, s)
BY DEF Written, Follows, Record

LEMMA ClaimMoves ==
  ASSUME TypeOK, Bound, SnapInv, NEW b \in Browsers, ClaimSwap(b), NEW q \in Requests
  PROVE  \/ rec'[q] = rec[q]
         \/ q = browser[b].req /\ rec[q].state = "PENDING" /\ Written(rec[q], rec'[q], "REDEEMING")
<1> DEFINE r == browser[b].req
           new == [browser[b].snap EXCEPT !.state = "REDEEMING"]
<1>1. r \in Requests /\ browser[b].snap \in Record /\ rec \in [Requests -> Record]
  BY DEF ClaimSwap, Bound, TypeOK, Browser
<1>2. Follows(browser[b].snap, rec[r]) /\ browser[b].snap.state = "PENDING"
  BY DEF ClaimSwap, SnapInv, BrowserSnap, Snapshot
<1>3. rec' = rec \/ (rec[r].state = "PENDING" /\ rec' = [rec EXCEPT ![r] = new])
  BY DEF ClaimSwap, SwapsBeforeExpiry, FieldMatchesBeforeExpiry, FieldMatches
<1>4. ASSUME rec[r].state = "PENDING" PROVE Written(rec[r], new, "REDEEMING")
  BY <1>1, <1>2, <1>4, WriteOfRead
<1> HIDE DEF new
<1> QED
  BY <1>1, <1>3, <1>4

LEMMA DecisionMoves ==
  ASSUME TypeOK, Bound, SnapInv, NEW c \in Callbacks, CallbackSwap(c), NEW q \in Requests
  PROVE  \/ rec'[q] = rec[q]
         \/ /\ q = callback[c].req /\ rec[q].state = "REDEEMING"
            /\ \/ /\ callback[c].error = "none" /\ rec'[q].state = "APPROVED"
                  /\ rec'[q].expiry = rec[q].expiry /\ rec'[q].user = callback[c].user
               \/ /\ callback[c].error # "none"
                  /\ \E s \in {"DENIED", "FAILED"} : Written(rec[q], rec'[q], s)
<1> DEFINE r == callback[c].req
           snap == callback[c].snap
<1>1. r \in Requests /\ snap \in Record /\ rec \in [Requests -> Record]
  BY DEF CallbackSwap, Bound, TypeOK, Callback
<1>2. Follows(snap, rec[r]) /\ snap.state = "REDEEMING"
  BY DEF CallbackSwap, SnapInv, CallbackSnap, Snapshot
<1>3. rec' = rec \/ (rec[r].state = "REDEEMING" /\ rec' = [rec EXCEPT ![r] = Decided(c)])
  BY DEF CallbackSwap, DecisionSwaps, Swaps, SwapsBeforeExpiry, FieldMatchesBeforeExpiry,
         FieldMatches
<1>4. ASSUME rec[r].state = "REDEEMING", callback[c].error = "none"
      PROVE  /\ Decided(c).state = "APPROVED" /\ Decided(c).expiry = rec[r].expiry
             /\ Decided(c).user = callback[c].user
  BY <1>1, <1>2, <1>4 DEF Decided, Follows, Record
<1>5. ASSUME rec[r].state = "REDEEMING", callback[c].error # "none"
      PROVE  \E s \in {"DENIED", "FAILED"} : Written(rec[r], Decided(c), s)
  <2>1. CASE callback[c].error = "END_USER"
    <3>1. Decided(c) = [snap EXCEPT !.state = "DENIED"]
      BY <2>1 DEF Decided
    <3> QED BY <1>1, <1>2, <1>5, <3>1, WriteOfRead
  <2>2. CASE callback[c].error # "END_USER"
    <3>1. Decided(c) = [snap EXCEPT !.state = "FAILED"]
      BY <1>5, <2>2 DEF Decided
    <3> QED BY <1>1, <1>2, <1>5, <3>1, WriteOfRead
  <2> QED BY <2>1, <2>2
<1> QED
  BY <1>1, <1>3, <1>4, <1>5

LEMMA PollMoves ==
  ASSUME TypeOK, Bound, SnapInv, NEW p \in Pollers, PollingSwap(p), NEW q \in Requests
  PROVE  rec'[q] = rec[q] \/ Written(rec[q], rec'[q], rec[q].state)
<1> DEFINE r == poller[p].req
           snap == poller[p].snap
<1>1. r \in Requests /\ snap \in Record /\ rec \in [Requests -> Record]
  BY DEF PollingSwap, Bound, TypeOK, Poller
<1>2. Follows(snap, rec[r])
  BY DEF PollingSwap, SnapInv, PollerSnap, Snapshot
<1>3. rec' = rec \/ (rec[r].state = snap.state /\ rec' = [rec EXCEPT ![r] = PolledRecord(p)])
  BY DEF PollingSwap, Swaps, FieldMatches
<1>4. ASSUME rec[r].state = snap.state PROVE Written(rec[r], PolledRecord(p), rec[r].state)
  BY <1>1, <1>2, <1>4 DEF PolledRecord, Written, Follows, Record
<1> QED
  BY <1>1, <1>3, <1>4

LEMMA ExpireMoves ==
  ASSUME TypeOK, Bound, SnapInv, NEW p \in Pollers, ExpireSwap(p), NEW q \in Requests
  PROVE  \/ rec'[q] = rec[q]
         \/ q = poller[p].req /\ Written(rec[q], rec'[q], "EXPIRED")
<1> DEFINE r == poller[p].req
           snap == poller[p].snap
           new == [snap EXCEPT !.state = "EXPIRED"]
<1>1. r \in Requests /\ snap \in Record /\ rec \in [Requests -> Record]
  BY DEF ExpireSwap, Bound, TypeOK, Poller
<1>2. Follows(snap, rec[r])
  BY DEF ExpireSwap, SnapInv, PollerSnap, Snapshot
<1>3. rec' = rec \/ (rec[r].state = snap.state /\ rec' = [rec EXCEPT ![r] = new])
  BY DEF ExpireSwap, Swaps, FieldMatches
<1>4. ASSUME rec[r].state = snap.state PROVE Written(rec[r], new, "EXPIRED")
  BY <1>1, <1>2, <1>4, WriteOfRead
<1> HIDE DEF new
<1> QED
  BY <1>1, <1>3, <1>4

LEMMA ConsumeMoves ==
  ASSUME TypeOK, Bound, SnapInv, NEW p \in Pollers, ConsumeSwap(p), NEW q \in Requests
  PROVE  \/ rec'[q] = rec[q]
         \/ /\ q = poller[p].req /\ rec[q].state = "APPROVED"
            /\ Written(rec[q], rec'[q], "CONSUMED") /\ poller[p].user = rec[q].user
<1> DEFINE r == poller[p].req
           snap == poller[p].snap
           new == [snap EXCEPT !.state = "CONSUMED"]
<1>1. r \in Requests /\ snap \in Record /\ rec \in [Requests -> Record]
  BY DEF ConsumeSwap, Bound, TypeOK, Poller
<1>2. Follows(snap, rec[r]) /\ snap.state = "APPROVED" /\ poller[p].user = snap.user
  BY DEF ConsumeSwap, SnapInv, PollerSnap, Snapshot
<1>3. rec' = rec \/ (rec[r].state = "APPROVED" /\ rec' = [rec EXCEPT ![r] = new])
  BY DEF ConsumeSwap, SwapsBeforeExpiry, FieldMatchesBeforeExpiry, FieldMatches
<1>4. ASSUME rec[r].state = "APPROVED"
      PROVE  Written(rec[r], new, "CONSUMED") /\ snap.user = rec[r].user
  BY <1>1, <1>2, <1>4, WriteOfRead DEF Follows
<1> HIDE DEF new
<1> QED
  BY <1>1, <1>2, <1>3, <1>4

\* Steps that write no record.
QuietStep ==
  \/ Tick \/ UNCHANGED vars
  \/ \E b \in Browsers : \/ \E r \in Requests : VerifyRead(b, r)
                         \/ ClaimRead(b) \/ JourneyEnd(b) \/ JourneyAbandoned(b)
  \/ \E c \in Callbacks :
       \/ \E r \in Requests, a \in assertions : CallbackLoad(c, r, a)
       \/ CallbackRead(c) \/ CallbackAborted(c)
  \/ \E p \in Pollers :
       \/ \E r \in Requests : PollRead(p, r)
       \/ PollDecideExpired(p) \/ PollDecidePending(p) \/ PollDecideRefused(p)
       \/ PollDecideApproved(p) \/ IssueRefused(p) \/ PollReread(p)
       \/ PollAborted(p)

LEMMA QuietStepQuiet ==
  ASSUME QuietStep
  PROVE  UNCHANGED <<rec, claims, consumed, issued, tokenUser, approvedAt>>
BY DEF QuietStep, Tick, vars, VerifyRead, ClaimRead, JourneyEnd, JourneyAbandoned,
       CallbackLoad, CallbackRead, CallbackAborted, PollRead, PollDecideExpired,
       PollDecidePending, PollDecideRefused, PollDecideApproved, IssueRefused,
       PollReread, PollAborted, tokenVars, journeyVars

LEMMA StepCases ==
  ASSUME [Next]_vars
  PROVE  \/ QuietStep
         \/ \E r \in Requests : Initiate(r)
         \/ \E b \in Browsers : ClaimSwap(b)
         \/ \E c \in Callbacks : CallbackSwap(c)
         \/ \E p \in Pollers : PollingSwap(p) \/ ExpireSwap(p) \/ ConsumeSwap(p)
BY DEF QuietStep, Next, BrowserStep, CallbackStep, PollerStep

LEMMA RecordMoves ==
  ASSUME TypeOK, Bound, SnapInv, [Next]_vars, NEW q \in Requests, rec[q].state # "ABSENT"
  PROVE  Moves(rec[q], rec'[q])
<1>0. CASE rec'[q] = rec[q]
  BY <1>0 DEF Moves, Written
<1>1. CASE QuietStep
  BY <1>0, <1>1, QuietStepQuiet
<1>2. ASSUME NEW r \in Requests, Initiate(r) PROVE rec'[q] = rec[q]
  BY <1>2 DEF Initiate, TypeOK
<1>3. ASSUME NEW b \in Browsers, ClaimSwap(b) PROVE Moves(rec[q], rec'[q])
  BY <1>0, <1>3, ClaimMoves DEF Moves
<1>4. ASSUME NEW c \in Callbacks, CallbackSwap(c) PROVE Moves(rec[q], rec'[q])
  BY <1>0, <1>4, DecisionMoves DEF Moves
<1>5. ASSUME NEW p \in Pollers, PollingSwap(p) \/ ExpireSwap(p) \/ ConsumeSwap(p)
      PROVE  Moves(rec[q], rec'[q])
  BY <1>0, <1>5, PollMoves, ExpireMoves, ConsumeMoves DEF Moves
<1> QED
  BY <1>0, <1>1, <1>2, <1>3, <1>4, <1>5, StepCases

\* A snapshot stays one whatever is written meanwhile.
LEMMA SnapshotStays ==
  ASSUME TypeOK, TypeOK', Bound, SnapInv, [Next]_vars,
         NEW r \in Requests, NEW snap \in Record, Snapshot(snap, r)
  PROVE  Follows(snap, rec'[r])
<1>1. rec[r] \in Record /\ rec'[r] \in Record
  BY DEF TypeOK
<1>2. snap.state # "ABSENT" /\ Follows(snap, rec[r])
  BY DEF Snapshot
<1>3. rec[r].state # "ABSENT"
  BY <1>1, <1>2 DEF Follows, After, Record, States
<1>4. Follows(rec[r], rec'[r])
  BY <1>1, <1>3, RecordMoves, MovesFollow
<1> QED
  BY <1>1, <1>2, <1>4, FollowsOn

LEMMA ReadIsSnapshot ==
  ASSUME TypeOK, NEW r \in Requests, Found(r), UNCHANGED rec
  PROVE  rec[r].state # "ABSENT" /\ Follows(rec[r], rec'[r])
BY FollowsFromRead DEF TypeOK, Found

LEMMA PollerSnapStays ==
  ASSUME TypeOK, TypeOK', Bound, SnapInv, [Next]_vars,
         NEW p \in Pollers, poller'[p] = poller[p]
  PROVE  PollerSnap(p)'
<1>1. PollerSnap(p) /\ poller[p].snap \in Record
  BY DEF SnapInv, TypeOK, Poller
<1>2. ASSUME poller[p].pc # "idle"
      PROVE  /\ poller[p].snap.state # "ABSENT"
             /\ Follows(poller[p].snap, rec'[poller[p].req])
  <2>1. poller[p].req \in Requests /\ Snapshot(poller[p].snap, poller[p].req)
    BY <1>1, <1>2 DEF Bound, PollerSnap
  <2> QED BY <1>1, <2>1, SnapshotStays DEF Snapshot
<1> QED
  BY <1>1, <1>2 DEF PollerSnap, Snapshot

LEMMA PollerSnapStep ==
  ASSUME TypeOK, TypeOK', Bound, SnapInv, [Next]_vars, NEW p \in Pollers, PollerStep(p)
  PROVE  PollerSnap(p)'
<1>0. /\ PollerSnap(p) /\ poller[p] \in Poller /\ poller[p].snap \in Record
      /\ poller \in [Pollers -> Poller]
  BY DEF SnapInv, TypeOK, Poller
<1>i. ASSUME poller'[p] = IdlePoller PROVE PollerSnap(p)'
  BY <1>i DEF PollerSnap, IdlePoller
<1>a. ASSUME NEW a, Answer(p, a) PROVE PollerSnap(p)'
  BY <1>0, <1>a, <1>i DEF Answer
\* The snapshot stays.
<1>s. ASSUME poller[p].pc # "idle", poller'[p].snap = poller[p].snap, poller'[p].req = poller[p].req
      PROVE  Snapshot(poller[p].snap, poller[p].req)'
  <2>1. poller[p].req \in Requests /\ Snapshot(poller[p].snap, poller[p].req)
    BY <1>0, <1>s DEF Bound, PollerSnap
  <2>2. poller[p].snap.state # "ABSENT" /\ Follows(poller[p].snap, rec'[poller[p].req])
    BY <1>0, <2>1, SnapshotStays DEF Snapshot
  <2> QED BY <1>s, <2>2 DEF Snapshot
<1>1. ASSUME NEW r \in Requests, PollRead(p, r) PROVE PollerSnap(p)'
  <2>1. CASE ~Found(r)
    BY <1>1, <1>a, <2>1 DEF PollRead
  <2>2. CASE Found(r)
    <3>1. /\ poller'[p].pc = "decide" /\ poller'[p].snap = rec[r] /\ poller'[p].req = r
          /\ poller'[p].op = "none"
      <4>1. poller'[p] = [poller[p] EXCEPT !.pc = "decide", !.req = r, !.snap = rec[r]]
        BY <1>0, <1>1, <2>2 DEF PollRead
      <4>2. poller[p].op = "none"
        BY <1>0, <1>1 DEF PollRead, PollerSnap
      <4> QED BY <1>0, <4>1, <4>2 DEF Poller
    <3>2. rec[r].state # "ABSENT" /\ Follows(rec[r], rec'[r])
      BY <1>1, <2>2, ReadIsSnapshot DEF PollRead
    <3> QED BY <3>1, <3>2 DEF PollerSnap, Snapshot
  <2> QED BY <2>1, <2>2
<1>2. CASE PollDecideExpired(p)
  <2>1. CASE poller[p].snap.state \in {"EXPIRED", "CONSUMED"}
    BY <1>2, <1>a, <2>1 DEF PollDecideExpired
  <2>2. CASE poller[p].snap.state \notin {"EXPIRED", "CONSUMED"}
    <3>1. /\ poller'[p].pc = "reread" /\ poller'[p].op = "expire" /\ poller[p].pc # "idle"
          /\ poller'[p].snap = poller[p].snap /\ poller'[p].req = poller[p].req
      <4>1. poller'[p] = [poller[p] EXCEPT !.pc = "reread", !.op = "expire"] /\ poller[p].pc # "idle"
        BY <1>0, <1>2, <2>2 DEF PollDecideExpired
      <4> QED BY <1>0, <4>1 DEF Poller
    <3> QED BY <1>s, <3>1 DEF PollerSnap
  <2> QED BY <2>1, <2>2
<1>3. CASE PollDecidePending(p)
  <2>1. /\ poller'[p].pc = "reread" /\ poller'[p].op = "poll" /\ poller[p].pc # "idle"
        /\ poller'[p].snap = poller[p].snap /\ poller'[p].req = poller[p].req
    BY <1>0, <1>3 DEF PollDecidePending, Poller
  <2> QED BY <1>s, <2>1 DEF PollerSnap
<1>4. CASE PollDecideApproved(p)
  <2>1. /\ poller'[p].pc = "reread" /\ poller'[p].op = "consume" /\ poller[p].pc # "idle"
        /\ poller'[p].snap = poller[p].snap /\ poller'[p].req = poller[p].req
        /\ poller'[p].user = poller[p].snap.user /\ poller[p].snap.state = "APPROVED"
    BY <1>0, <1>4 DEF PollDecideApproved, Poller
  <2> QED BY <1>s, <2>1 DEF PollerSnap
<1>5. CASE PollReread(p)
  <2> DEFINE r == poller[p].req
  <2>1. CASE \E a : Answer(p, a)
    BY <1>a, <2>1
  <2>2. CASE /\ Found(r)
             /\ poller[p].op = "consume" => rec[r].state = "APPROVED"
             /\ poller' = [poller EXCEPT ![p] =
                  [@ EXCEPT !.pc = "swap", !.snap = rec[r], !.since = clock]]
    <3>1. r \in Requests /\ UNCHANGED rec /\ Follows(poller[p].snap, rec[r])
      BY <1>0, <1>5 DEF PollReread, Bound, PollerSnap, Snapshot
    <3>2. /\ poller'[p].pc = "swap" /\ poller'[p].snap = rec[r] /\ poller'[p].req = r
          /\ poller'[p].op = poller[p].op /\ poller'[p].user = poller[p].user
      BY <1>0, <2>2 DEF Poller
    <3>3. rec[r].state # "ABSENT" /\ Follows(rec[r], rec'[r])
      BY <2>2, <3>1, ReadIsSnapshot
    <3>4. ASSUME poller[p].op = "consume"
          PROVE  rec[r].state = "APPROVED" /\ poller[p].user = rec[r].user
      BY <1>0, <2>2, <3>1, <3>4 DEF PollerSnap, Follows
    <3> QED BY <3>2, <3>3, <3>4 DEF PollerSnap, Snapshot
  <2> QED BY <1>5, <2>1, <2>2 DEF PollReread
<1>6. CASE \/ PollDecideRefused(p) \/ IssueRefused(p) \/ PollingSwap(p) \/ ExpireSwap(p)
           \/ ConsumeSwap(p) \/ PollAborted(p)
  <2>1. \E a : Answer(p, a)
    BY <1>6 DEF PollDecideRefused, IssueRefused, PollingSwap, ExpireSwap, ConsumeSwap, PollAborted
  <2> QED BY <1>a, <2>1
<1> QED
  BY <1>1, <1>2, <1>3, <1>4, <1>5, <1>6 DEF PollerStep

LEMMA BrowserSnapStays ==
  ASSUME TypeOK, TypeOK', Bound, SnapInv, [Next]_vars,
         NEW b \in Browsers, browser'[b] = browser[b]
  PROVE  BrowserSnap(b)'
<1>1. BrowserSnap(b) /\ browser[b].snap \in Record
  BY DEF SnapInv, TypeOK, Browser
<1>2. ASSUME browser[b].pc = "swap"
      PROVE  /\ browser[b].snap.state # "ABSENT"
             /\ Follows(browser[b].snap, rec'[browser[b].req])
  <2>1. browser[b].req \in Requests /\ Snapshot(browser[b].snap, browser[b].req)
    BY <1>1, <1>2 DEF Bound, BrowserSnap
  <2> QED BY <1>1, <2>1, SnapshotStays DEF Snapshot
<1> QED
  BY <1>1, <1>2 DEF BrowserSnap, Snapshot

LEMMA BrowserSnapStep ==
  ASSUME TypeOK, TypeOK', Bound, SnapInv, [Next]_vars, NEW b \in Browsers, BrowserStep(b)
  PROVE  BrowserSnap(b)'
<1>0. browser[b] \in Browser /\ browser \in [Browsers -> Browser]
  BY DEF TypeOK
<1>1. CASE ClaimRead(b)
  <2> DEFINE r == browser[b].req
  <2>1. CASE Found(r) /\ rec[r].state = "PENDING"
    <3>1. /\ browser'[b].pc = "swap" /\ browser'[b].snap = rec[r] /\ browser'[b].req = r
      BY <1>0, <1>1, <2>1 DEF ClaimRead, Browser
    <3>2. r \in Requests /\ UNCHANGED rec
      BY <1>1 DEF ClaimRead, Bound
    <3> QED BY <2>1, <3>1, <3>2, ReadIsSnapshot DEF BrowserSnap, Snapshot
  <2>2. CASE ~(Found(r) /\ rec[r].state = "PENDING")
    BY <1>0, <1>1, <2>2 DEF ClaimRead, BrowserSnap, IdleBrowser
  <2> QED BY <2>1, <2>2
<1>2. CASE ~ClaimRead(b)
  <2>1. browser'[b].pc # "swap"
    <3>1. ASSUME NEW r \in Requests, VerifyRead(b, r) PROVE browser'[b].pc = "reread"
      BY <1>0, <3>1 DEF VerifyRead, Browser
    <3>2. ASSUME ClaimSwap(b) PROVE browser'[b].pc # "swap"
      BY <1>0, <3>2 DEF ClaimSwap, IdleBrowser
    <3>3. ASSUME JourneyEnd(b) \/ JourneyAbandoned(b)
          PROVE  browser'[b].pc \in {"journey", "idle"}
      BY <1>0, <3>3 DEF JourneyEnd, JourneyAbandoned, IdleBrowser
    <3> QED BY <1>2, <3>1, <3>2, <3>3 DEF BrowserStep
  <2> QED BY <2>1 DEF BrowserSnap
<1> QED BY <1>1, <1>2

LEMMA CallbackSnapStays ==
  ASSUME TypeOK, TypeOK', Bound, SnapInv, [Next]_vars,
         NEW c \in Callbacks, callback'[c] = callback[c]
  PROVE  CallbackSnap(c)'
<1>1. CallbackSnap(c) /\ callback[c].snap \in Record
  BY DEF SnapInv, TypeOK, Callback
<1>2. ASSUME callback[c].pc = "swap"
      PROVE  /\ callback[c].snap.state # "ABSENT"
             /\ Follows(callback[c].snap, rec'[callback[c].req])
  <2>1. callback[c].req \in Requests /\ Snapshot(callback[c].snap, callback[c].req)
    BY <1>1, <1>2 DEF Bound, CallbackSnap
  <2> QED BY <1>1, <2>1, SnapshotStays DEF Snapshot
<1> QED
  BY <1>1, <1>2 DEF CallbackSnap, Snapshot

LEMMA CallbackSnapStep ==
  ASSUME TypeOK, TypeOK', Bound, SnapInv, [Next]_vars, NEW c \in Callbacks, CallbackStep(c)
  PROVE  CallbackSnap(c)'
<1>0. callback[c] \in Callback /\ callback \in [Callbacks -> Callback]
  BY DEF TypeOK
<1>1. CASE CallbackRead(c)
  <2> DEFINE r == callback[c].req
  <2>1. CASE Found(r) /\ rec[r].state = "REDEEMING"
    <3>1. /\ callback'[c].pc = "swap" /\ callback'[c].snap = rec[r] /\ callback'[c].req = r
      BY <1>0, <1>1, <2>1 DEF CallbackRead, Callback
    <3>2. r \in Requests /\ UNCHANGED rec
      BY <1>1 DEF CallbackRead, Bound
    <3> QED BY <2>1, <3>1, <3>2, ReadIsSnapshot DEF CallbackSnap, Snapshot
  <2>2. CASE ~(Found(r) /\ rec[r].state = "REDEEMING")
    BY <1>0, <1>1, <2>2 DEF CallbackRead, CallbackSnap, IdleCallback
  <2> QED BY <2>1, <2>2
<1>2. CASE ~CallbackRead(c)
  <2>1. callback'[c].pc # "swap"
    <3>1. ASSUME NEW r \in Requests, NEW a \in assertions, CallbackLoad(c, r, a)
          PROVE  callback'[c].pc = "reread"
      BY <1>0, <3>1 DEF CallbackLoad, IdleCallback
    <3>2. ASSUME CallbackSwap(c) \/ CallbackAborted(c) PROVE callback'[c].pc = "idle"
      BY <1>0, <3>2 DEF CallbackSwap, CallbackAborted, IdleCallback
    <3> QED BY <1>2, <3>1, <3>2 DEF CallbackStep
  <2> QED BY <2>1 DEF CallbackSnap
<1> QED BY <1>1, <1>2

\* A step is of one handler, and leaves the others alone.
LEMMA OneHandler ==
  ASSUME TypeOK, [Next]_vars
  PROVE  /\ \A p \in Pollers : PollerStep(p) \/ poller'[p] = poller[p]
         /\ \A b \in Browsers : BrowserStep(b) \/ browser'[b] = browser[b]
         /\ \A c \in Callbacks : CallbackStep(c) \/ callback'[c] = callback[c]
<1>1. CASE Tick \/ (\E r \in Requests : Initiate(r)) \/ UNCHANGED vars
  BY <1>1 DEF Tick, Initiate, vars, pollVars, journeyVars
<1>2. ASSUME NEW b \in Browsers, BrowserStep(b)
      PROVE  UNCHANGED <<poller, callback>> /\ \A x \in Browsers \ {b} : browser'[x] = browser[x]
  BY <1>2 DEF BrowserStep, VerifyRead, ClaimRead, ClaimSwap, JourneyEnd, JourneyAbandoned,
     TypeOK, pollVars
<1>3. ASSUME NEW c \in Callbacks, CallbackStep(c)
      PROVE  UNCHANGED <<poller, browser>> /\ \A x \in Callbacks \ {c} : callback'[x] = callback[x]
  BY <1>3 DEF CallbackStep, CallbackLoad, CallbackRead, CallbackSwap, CallbackAborted,
     TypeOK, pollVars
<1>4. ASSUME NEW p \in Pollers, PollerStep(p)
      PROVE  UNCHANGED journeyVars \/ UNCHANGED <<browser, callback>>
  BY <1>4 DEF PollerStep, PollRead, PollDecideExpired, PollDecidePending, PollDecideRefused,
     PollDecideApproved, IssueRefused, PollReread, PollingSwap, ExpireSwap, ConsumeSwap, PollAborted
<1>5. ASSUME NEW p \in Pollers, PollerStep(p)
      PROVE  \A x \in Pollers \ {p} : poller'[x] = poller[x]
  <2>1. \E new : poller' = [poller EXCEPT ![p] = new]
    BY <1>5 DEF PollerStep, PollRead, PollDecideExpired, PollDecidePending, PollDecideRefused,
       PollDecideApproved, IssueRefused, PollReread, PollingSwap, ExpireSwap, ConsumeSwap,
       PollAborted, Answer
  <2> QED BY <2>1 DEF TypeOK
<1> QED
  BY <1>1, <1>2, <1>3, <1>4, <1>5 DEF Next, journeyVars

LEMMA SnapStep == TypeOK /\ Bound /\ SnapInv /\ [Next]_vars => SnapInv'
<1> SUFFICES ASSUME TypeOK, Bound, SnapInv, [Next]_vars
             PROVE  SnapInv'
  OBVIOUS
<1>1. TypeOK'
  BY NextTypes
<1>2. \A p \in Pollers : PollerSnap(p)'
  BY <1>1, OneHandler, PollerSnapStays, PollerSnapStep
<1>3. \A b \in Browsers : BrowserSnap(b)'
  BY <1>1, OneHandler, BrowserSnapStays, BrowserSnapStep
<1>4. \A c \in Callbacks : CallbackSnap(c)'
  BY <1>1, OneHandler, CallbackSnapStays, CallbackSnapStep
<1> QED
  BY <1>2, <1>3, <1>4 DEF SnapInv

LEMMA SnapAlways == Spec => []SnapInv
<1>1. Init => SnapInv
  BY DEF Init, SnapInv, PollerSnap, BrowserSnap, CallbackSnap, IdlePoller, IdleBrowser, IdleCallback
<1> QED
  BY <1>1, TypeCorrect, SnapStep, PTL DEF Spec

\* No write undoes a decision: what a handler writes back of a record it read
\* before is what is stored, up to the transition it makes.
THEOREM DecisionsKept == Spec => DecisionsSurvive
<1>1. ASSUME TypeOK, TypeOK', Bound, SnapInv, [Next]_vars
      PROVE  \A r \in Requests :
               /\ rec[r].state = "APPROVED" =>
                    /\ rec'[r].state \in {"APPROVED", "CONSUMED", "EXPIRED"}
                    /\ rec'[r].user = rec[r].user
               /\ rec[r].state \in {"DENIED", "FAILED", "CONSUMED", "EXPIRED"} =>
                    rec'[r].state \in {rec[r].state, "EXPIRED"}
  <2> SUFFICES ASSUME NEW r \in Requests, rec[r].state \notin {"ABSENT", "PENDING", "REDEEMING"}
               PROVE  /\ rec'[r].state \in {rec[r].state, "EXPIRED"} \/
                           (rec[r].state = "APPROVED" /\ rec'[r].state = "CONSUMED")
                      /\ rec'[r].user = rec[r].user
    OBVIOUS
  <2>1. Moves(rec[r], rec'[r])
    BY <1>1, RecordMoves
  <2> QED BY <2>1 DEF Moves, Written
<1>2. TypeOK /\ TypeOK' /\ Bound /\ SnapInv /\ [Next]_vars =>
       [\A r \in Requests :
          /\ rec[r].state = "APPROVED" =>
               /\ rec'[r].state \in {"APPROVED", "CONSUMED", "EXPIRED"}
               /\ rec'[r].user = rec[r].user
          /\ rec[r].state \in {"DENIED", "FAILED", "CONSUMED", "EXPIRED"} =>
               rec'[r].state \in {rec[r].state, "EXPIRED"}]_vars
  BY <1>1
<1> QED
  BY <1>2, TypeCorrect, SnapAlways, PTL DEF Spec, DecisionsSurvive

-----------------------------------------------------------------------------
(* Tokens belong to a journey *)

Approver(r, u) == \E a \in assertions : a.req = r /\ a.error = "none" /\ a.user = u
Journey(r) == \E b \in claims[r] : AppIn[b] = AppOf[r]

\* A browser runs the flow of the application of its request, and a journey has
\* claimed it.
BrowserJourney(b) ==
  /\ browser[b].pc # "idle" => AppIn[b] = AppOf[browser[b].req]
  /\ browser[b].pc = "journey" => b \in claims[browser[b].req]

AssertionJourney(a) == Journey(a.req) /\ (a.error = "none" => a.user \in Users)

\* What a callback is about to write was signed for its request.
CallbackJourney(c) ==
  callback[c].pc # "idle" /\ callback[c].error = "none" =>
    Approver(callback[c].req, callback[c].user)

RequestJourney(r) ==
  /\ rec[r].state \in {"APPROVED", "CONSUMED"} => Approver(r, rec[r].user)
  /\ issued[r] > 0 => Approver(r, tokenUser[r])
  /\ rec[r].state = "ABSENT" => rec[r].user = NoUser

JourneyInv ==
  /\ \A b \in Browsers : BrowserJourney(b)
  /\ \A a \in assertions : AssertionJourney(a)
  /\ \A c \in Callbacks : CallbackJourney(c)
  /\ \A r \in Requests : RequestJourney(r)

\* Claims and assertions are only added.
LEMMA EvidenceStays ==
  ASSUME TypeOK, Bound, [Next]_vars
  PROVE  /\ assertions \subseteq assertions'
         /\ \A r \in Requests : claims[r] \subseteq claims'[r]
<1> DEFINE Grows == /\ assertions \subseteq assertions'
                    /\ \A r \in Requests : claims[r] \subseteq claims'[r]
<1>1. ASSUME UNCHANGED <<assertions, claims>> PROVE Grows
  BY <1>1
<1>2. ASSUME NEW b \in Browsers, ClaimSwap(b) PROVE Grows
  BY <1>2 DEF ClaimSwap, TypeOK
<1>3. ASSUME NEW b \in Browsers, JourneyEnd(b) PROVE Grows
  BY <1>3 DEF JourneyEnd
<1>4. ASSUME NEW b \in Browsers,
             (\E r \in Requests : VerifyRead(b, r)) \/ ClaimRead(b) \/ JourneyAbandoned(b)
      PROVE  UNCHANGED <<assertions, claims>>
  BY <1>4 DEF VerifyRead, ClaimRead, JourneyAbandoned
<1>5. ASSUME NEW c \in Callbacks, CallbackStep(c) PROVE UNCHANGED <<assertions, claims>>
  BY <1>5 DEF CallbackStep, CallbackLoad, CallbackRead, CallbackSwap, CallbackAborted
<1>6. ASSUME NEW p \in Pollers, PollerStep(p) PROVE UNCHANGED <<assertions, claims>>
  BY <1>6 DEF PollerStep, PollRead, PollDecideExpired, PollDecidePending, PollDecideRefused,
     PollDecideApproved, IssueRefused, PollReread, PollingSwap, ExpireSwap, ConsumeSwap,
     PollAborted, journeyVars
<1>7. ASSUME Tick \/ (\E r \in Requests : Initiate(r)) \/ UNCHANGED vars
      PROVE  UNCHANGED <<assertions, claims>>
  BY <1>7 DEF Tick, Initiate, vars, journeyVars
<1> HIDE DEF Grows
<1>8. Grows
  BY <1>1, <1>2, <1>3, <1>4, <1>5, <1>6, <1>7 DEF Next, BrowserStep
<1> QED
  BY <1>8 DEF Grows

LEMMA ApproverStays ==
  ASSUME TypeOK, Bound, [Next]_vars, NEW r, NEW u, Approver(r, u)
  PROVE  \E a \in assertions' : a.req = r /\ a.error = "none" /\ a.user = u
BY EvidenceStays DEF Approver

LEMMA BrowserJourneyStep ==
  ASSUME TypeOK, Bound, JourneyInv, [Next]_vars, NEW b \in Browsers
  PROVE  BrowserJourney(b)'
<1>0. /\ BrowserJourney(b) /\ browser[b] \in Browser /\ browser \in [Browsers -> Browser]
      /\ browser[b].pc # "idle" => browser[b].req \in Requests
  BY DEF JourneyInv, TypeOK, Bound
<1>i. ASSUME browser'[b] = IdleBrowser PROVE BrowserJourney(b)'
  BY <1>i DEF BrowserJourney, IdleBrowser
<1>1. CASE browser'[b] = browser[b]
  BY <1>0, <1>1, EvidenceStays DEF BrowserJourney
<1>2. ASSUME NEW r \in Requests, VerifyRead(b, r) PROVE BrowserJourney(b)'
  <2>1. browser'[b] = [browser[b] EXCEPT !.pc = "reread", !.req = r] /\ AppOf[r] = AppIn[b]
    BY <1>0, <1>2 DEF VerifyRead
  <2>2. browser'[b].pc = "reread" /\ browser'[b].req = r
    BY <1>0, <2>1 DEF Browser
  <2> QED BY <2>1, <2>2 DEF BrowserJourney
<1>3. CASE ClaimRead(b)
  <2>1. browser'[b] = IdleBrowser \/
          (browser'[b].pc = "swap" /\ browser'[b].req = browser[b].req)
    BY <1>0, <1>3 DEF ClaimRead, Browser
  <2>2. AppIn[b] = AppOf[browser[b].req]
    BY <1>0, <1>3 DEF ClaimRead, BrowserJourney
  <2> QED BY <1>i, <2>1, <2>2 DEF BrowserJourney
<1>4. CASE ClaimSwap(b)
  <2>1. AppIn[b] = AppOf[browser[b].req] /\ browser[b].req \in Requests
    BY <1>0, <1>4 DEF ClaimSwap, BrowserJourney
  <2>2. \/ browser'[b] = IdleBrowser
        \/ /\ browser'[b] = [IdleBrowser EXCEPT !.pc = "journey", !.req = browser[b].req]
           /\ claims' = [claims EXCEPT ![browser[b].req] = @ \cup {b}]
    BY <1>0, <1>4 DEF ClaimSwap
  <2>3. CASE browser'[b] # IdleBrowser
    <3>1. browser'[b].pc = "journey" /\ browser'[b].req = browser[b].req
      BY <2>2, <2>3 DEF IdleBrowser
    <3>2. b \in claims'[browser[b].req]
      BY <2>1, <2>2, <2>3 DEF TypeOK
    <3> QED BY <2>1, <3>1, <3>2 DEF BrowserJourney
  <2> QED BY <1>i, <2>3
<1>5. CASE JourneyEnd(b) \/ JourneyAbandoned(b)
  BY <1>0, <1>1, <1>5, <1>i DEF JourneyEnd, JourneyAbandoned
<1> QED
  BY <1>1, <1>2, <1>3, <1>4, <1>5, OneHandler DEF BrowserStep

LEMMA AssertionJourneyStep ==
  ASSUME TypeOK, TypeOK', Bound, JourneyInv, [Next]_vars, NEW a \in assertions'
  PROVE  AssertionJourney(a)'
<1>0. a.req \in Requests
  BY DEF TypeOK, Assertion
<1>1. ASSUME Journey(a.req) PROVE Journey(a.req)'
  BY <1>0, <1>1, EvidenceStays DEF Journey
<1>2. CASE a \in assertions
  BY <1>1, <1>2 DEF JourneyInv, AssertionJourney
<1>3. ASSUME NEW b \in Browsers, JourneyEnd(b), a \notin assertions
      PROVE  AssertionJourney(a)'
  <2>1. PICK o \in Outcomes : a = [req |-> browser[b].req, aud |-> AppIn[b],
                                  user |-> o[1], error |-> o[2]]
    BY <1>3 DEF JourneyEnd
  <2>2. a.req = browser[b].req /\ (a.error = "none" => a.user \in Users)
    BY <2>1 DEF Outcomes
  <2>3. AppIn[b] = AppOf[browser[b].req] /\ b \in claims[browser[b].req]
    BY <1>3 DEF JourneyEnd, JourneyInv, BrowserJourney
  <2>4. Journey(a.req)
    BY <2>2, <2>3 DEF Journey
  <2> QED BY <1>1, <2>2, <2>4 DEF AssertionJourney
<1>4. CASE \A b \in Browsers : ~JourneyEnd(b)
  <2>1. UNCHANGED assertions
    BY <1>4 DEF Next, vars, Tick, Initiate, BrowserStep, VerifyRead, ClaimRead, ClaimSwap,
       JourneyAbandoned, CallbackStep, CallbackLoad, CallbackRead, CallbackSwap, CallbackAborted,
       PollerStep, PollRead, PollDecideExpired, PollDecidePending, PollDecideRefused,
       PollDecideApproved, IssueRefused, PollReread, PollingSwap, ExpireSwap, ConsumeSwap,
       PollAborted, journeyVars
  <2> QED BY <1>2, <2>1
<1> QED
  BY <1>2, <1>3, <1>4

LEMMA CallbackJourneyStep ==
  ASSUME TypeOK, Bound, JourneyInv, [Next]_vars, NEW c \in Callbacks
  PROVE  CallbackJourney(c)'
<1>0. CallbackJourney(c) /\ callback[c] \in Callback /\ callback \in [Callbacks -> Callback]
  BY DEF JourneyInv, TypeOK
\* It goes on with its request and user.
<1>1. ASSUME callback'[c].req = callback[c].req, callback'[c].user = callback[c].user,
             callback'[c].error = callback[c].error, callback[c].pc # "idle"
      PROVE  CallbackJourney(c)'
  BY <1>0, <1>1, ApproverStays DEF CallbackJourney, Approver
<1>i. ASSUME callback'[c].pc = "idle" PROVE CallbackJourney(c)'
  BY <1>i DEF CallbackJourney
<1>2. CASE callback'[c] = callback[c]
  BY <1>1, <1>2, <1>i
<1>3. ASSUME NEW r \in Requests, NEW a \in assertions, CallbackLoad(c, r, a)
      PROVE  CallbackJourney(c)'
  <2>1. callback'[c] = [IdleCallback EXCEPT !.pc = "reread", !.req = r, !.user = a.user,
                                            !.error = a.error]
    BY <1>0, <1>3 DEF CallbackLoad
  <2>2. callback'[c].req = r /\ callback'[c].user = a.user /\ callback'[c].error = a.error
    BY <2>1 DEF IdleCallback
  <2>3. a.req = r /\ a \in assertions'
    BY <1>3 DEF CallbackLoad
  <2> QED BY <2>2, <2>3 DEF CallbackJourney, Approver
<1>4. CASE CallbackRead(c)
  <2>1. \/ callback'[c] = IdleCallback
        \/ callback'[c] = [callback[c] EXCEPT !.pc = "swap", !.snap = rec[callback[c].req],
                                              !.since = clock]
    BY <1>0, <1>4 DEF CallbackRead
  <2>2. \/ callback'[c].pc = "idle"
        \/ /\ callback'[c].req = callback[c].req /\ callback'[c].user = callback[c].user
           /\ callback'[c].error = callback[c].error
    <3>1. CASE callback'[c] = IdleCallback
      BY <3>1 DEF IdleCallback
    <3>2. CASE callback'[c] = [callback[c] EXCEPT !.pc = "swap", !.snap = rec[callback[c].req],
                                                  !.since = clock]
      BY <1>0, <3>2 DEF Callback
    <3> QED BY <2>1, <3>1, <3>2
  <2>3. callback[c].pc # "idle"
    BY <1>4 DEF CallbackRead
  <2> QED BY <1>1, <1>i, <2>2, <2>3
<1>5. CASE CallbackSwap(c) \/ CallbackAborted(c)
  BY <1>0, <1>5, <1>i DEF CallbackSwap, CallbackAborted, IdleCallback
<1> QED
  BY <1>2, <1>3, <1>4, <1>5, OneHandler DEF CallbackStep

LEMMA InitiateWrites ==
  ASSUME TypeOK, NEW r \in Requests, Initiate(r), NEW q \in Requests
  PROVE  rec'[q] = rec[q] \/ (q = r /\ rec[q].state = "ABSENT" /\ rec'[q].state = "PENDING"
                               /\ rec'[q].user = NoUser)
BY DEF Initiate, TypeOK, NoRecord

\* Only the swap that consumes a request changes what was handed out for it.
LEMMA IssueCases ==
  ASSUME TypeOK, Bound, SnapInv, [Next]_vars, NEW r \in Requests
  PROVE  \/ issued'[r] = issued[r] /\ tokenUser'[r] = tokenUser[r] /\ consumed'[r] = consumed[r]
         \/ \E p \in Pollers :
              /\ ConsumeSwap(p) /\ r = poller[p].req /\ rec[r].state = "APPROVED"
              /\ consumed'[r] = consumed[r] + 1
              /\ \/ issued'[r] = issued[r] + 1 /\ tokenUser'[r] = rec[r].user
                 \/ issued'[r] = issued[r] /\ tokenUser'[r] = tokenUser[r]
<1>1. CASE \E p \in Pollers : ConsumeSwap(p)
  <2>1. PICK p \in Pollers : ConsumeSwap(p)
    BY <1>1
  <2>2. CASE UNCHANGED <<issued, tokenUser, consumed>>
    BY <2>2
  <2>3. CASE /\ rec[poller[p].req].state = "APPROVED"
             /\ consumed' = [consumed EXCEPT ![poller[p].req] = @ + 1]
             /\ \/ /\ issued' = [issued EXCEPT ![poller[p].req] = @ + 1]
                   /\ tokenUser' = [tokenUser EXCEPT ![poller[p].req] = poller[p].user]
                \/ UNCHANGED <<issued, tokenUser>>
    <3>1. /\ consumed \in [Requests -> Nat] /\ issued \in [Requests -> Nat]
          /\ tokenUser \in [Requests -> Users \cup {NoUser}]
      BY DEF TypeOK
    <3>2. CASE r # poller[p].req
      BY <2>3, <3>1, <3>2
    <3>3. CASE r = poller[p].req
      <4>1. poller[p].user = rec[r].user
        <5>1. poller[p].pc # "idle" /\ poller[p].op = "consume"
          BY <2>1 DEF ConsumeSwap
        <5> QED BY <2>3, <3>3, <5>1 DEF SnapInv, PollerSnap, Snapshot, Follows, Open
      <4> QED BY <2>1, <2>3, <3>1, <3>3, <4>1
    <3> QED BY <3>2, <3>3
  <2> QED
    BY <2>1, <2>2, <2>3 DEF ConsumeSwap, SwapsBeforeExpiry, FieldMatchesBeforeExpiry, FieldMatches
<1>2. CASE \A p \in Pollers : ~ConsumeSwap(p)
  <2>1. UNCHANGED <<issued, tokenUser, consumed>>
    BY <1>2, StepCases, QuietStepQuiet DEF Initiate, ClaimSwap, CallbackSwap, PollingSwap,
       ExpireSwap, tokenVars
  <2> QED BY <2>1
<1> QED
  BY <1>1, <1>2

LEMMA RequestJourneyStep ==
  ASSUME TypeOK, TypeOK', Bound, SnapInv, JourneyInv, [Next]_vars, NEW r \in Requests
  PROVE  RequestJourney(r)'
<1>0. RequestJourney(r)
  BY DEF JourneyInv
<1>1. ASSUME rec'[r].state \in {"APPROVED", "CONSUMED"} PROVE Approver(r, rec[r].user)'
  <2>1. CASE rec[r].state \in {"APPROVED", "CONSUMED"} /\ rec'[r].user = rec[r].user
    BY <1>0, <2>1, ApproverStays DEF RequestJourney, Approver
  <2>2. CASE QuietStep
    BY <1>1, <2>1, <2>2, QuietStepQuiet
  <2>3. ASSUME NEW q \in Requests, Initiate(q) PROVE Approver(r, rec[r].user)'
    BY <1>1, <2>1, <2>3, InitiateWrites
  <2>4. ASSUME NEW b \in Browsers, ClaimSwap(b) PROVE Approver(r, rec[r].user)'
    BY <1>1, <2>1, <2>4, ClaimMoves DEF Written
  <2>5. ASSUME NEW c \in Callbacks, CallbackSwap(c) PROVE Approver(r, rec[r].user)'
    <3>1. CASE rec'[r] = rec[r]
      BY <1>1, <2>1, <3>1
    <3>2. CASE rec'[r] # rec[r]
      <4>1. callback[c].error = "none" /\ rec'[r].user = callback[c].user /\ r = callback[c].req
        BY <1>1, <2>5, <3>2, DecisionMoves DEF Written
      <4>2. Approver(r, callback[c].user)
        BY <2>5, <4>1 DEF JourneyInv, CallbackJourney, CallbackSwap
      <4> QED BY <4>1, <4>2, ApproverStays DEF Approver
    <3> QED BY <3>1, <3>2
  <2>6. ASSUME NEW p \in Pollers, PollingSwap(p) \/ ExpireSwap(p) \/ ConsumeSwap(p)
        PROVE  Approver(r, rec[r].user)'
    BY <1>1, <2>1, <2>6, PollMoves, ExpireMoves, ConsumeMoves DEF Written
  <2> QED BY <2>2, <2>3, <2>4, <2>5, <2>6, StepCases
<1>2. ASSUME issued'[r] > 0 PROVE Approver(r, tokenUser[r])'
  <2>1. CASE issued'[r] = issued[r] /\ tokenUser'[r] = tokenUser[r]
    BY <1>0, <1>2, <2>1, ApproverStays DEF RequestJourney, Approver
  <2>2. CASE rec[r].state = "APPROVED" /\ tokenUser'[r] = rec[r].user
    BY <1>0, <2>2, ApproverStays DEF RequestJourney, Approver
  <2> QED BY <2>1, <2>2, IssueCases
<1>3. ASSUME rec'[r].state = "ABSENT" PROVE rec'[r].user = NoUser
  <2>1. CASE rec[r].state = "ABSENT" /\ rec'[r].user = rec[r].user
    BY <1>0, <2>1 DEF RequestJourney
  <2>2. CASE QuietStep
    BY <1>3, <2>1, <2>2, QuietStepQuiet
  <2>3. ASSUME NEW q \in Requests, Initiate(q) PROVE rec'[r].user = NoUser
    BY <1>3, <2>1, <2>3, InitiateWrites
  <2>4. ASSUME NEW b \in Browsers, ClaimSwap(b) PROVE rec'[r].user = NoUser
    BY <1>3, <2>1, <2>4, ClaimMoves DEF Written
  <2>5. ASSUME NEW c \in Callbacks, CallbackSwap(c) PROVE rec'[r].user = NoUser
    BY <1>3, <2>1, <2>5, DecisionMoves DEF Written
  <2>6. ASSUME NEW p \in Pollers, PollingSwap(p) \/ ExpireSwap(p) \/ ConsumeSwap(p)
        PROVE  rec'[r].user = NoUser
    BY <1>3, <2>1, <2>6, PollMoves, ExpireMoves, ConsumeMoves DEF Written
  <2> QED BY <2>2, <2>3, <2>4, <2>5, <2>6, StepCases
<1> QED
  BY <1>1, <1>2, <1>3 DEF RequestJourney

LEMMA JourneyStep == TypeOK /\ Bound /\ SnapInv /\ JourneyInv /\ [Next]_vars => JourneyInv'
<1> SUFFICES ASSUME TypeOK, Bound, SnapInv, JourneyInv, [Next]_vars
             PROVE  JourneyInv'
  OBVIOUS
<1>1. TypeOK'
  BY NextTypes
<1> QED
  BY <1>1, BrowserJourneyStep, AssertionJourneyStep, CallbackJourneyStep, RequestJourneyStep
  DEF JourneyInv

LEMMA JourneyAlways == Spec => []JourneyInv
<1>1. Init => JourneyInv
  BY DEF Init, JourneyInv, BrowserJourney, CallbackJourney, RequestJourney, IdleBrowser,
     IdleCallback, NoRecord
<1> QED
  BY <1>1, TypeCorrect, SnapAlways, JourneyStep, PTL DEF Spec

\* Whoever submits which assertion when, the tokens of a request are for a user
\* who finished a journey that claimed it in the flow of its application.
THEOREM TokensOfJourney == Spec => []TokensBelongToJourney
<1>1. TypeOK /\ JourneyInv => TokensBelongToJourney
  BY DEF TypeOK, JourneyInv, RequestJourney, AssertionJourney, Approver, Journey,
     TokensBelongToJourney
<1> QED
  BY <1>1, TypeCorrect, JourneyAlways, PTL

-----------------------------------------------------------------------------
(* Approvals in time *)

(***************************************************************************)
(* An approval may be written late: the database decides the swap with a   *)
(* reading of the clock that is older than the write.  But a token request *)
(* read the approved record before it took its own reading, so that this   *)
(* reading is not older than the approval.                                 *)
(***************************************************************************)
RequestTimes(r) ==
  /\ approvedAt[r] <= clock
  /\ consumed[r] > 0 => approvedAt[r] < rec[r].expiry
PollerTimes(p) ==
  poller[p].pc = "swap" /\ poller[p].op = "consume" =>
    approvedAt[poller[p].req] <= poller[p].since /\ poller[p].since <= clock

TimeInv ==
  /\ \A r \in Requests : RequestTimes(r)
  /\ \A p \in Pollers : PollerTimes(p)

LEMMA ClockRuns ==
  ASSUME TypeOK, [Next]_vars
  PROVE  clock' = clock \/ clock' = clock + 1
<1>1. CASE Tick
  BY <1>1 DEF Tick
<1>2. CASE (\E r \in Requests : Initiate(r)) \/ UNCHANGED vars
  BY <1>2 DEF Initiate, vars
<1>3. CASE \E b \in Browsers : BrowserStep(b)
  BY <1>3 DEF BrowserStep, VerifyRead, ClaimRead, ClaimSwap, JourneyEnd, JourneyAbandoned
<1>4. CASE \E c \in Callbacks : CallbackStep(c)
  BY <1>4 DEF CallbackStep, CallbackLoad, CallbackRead, CallbackSwap, CallbackAborted
<1>5. CASE \E p \in Pollers : PollerStep(p)
  BY <1>5 DEF PollerStep, PollRead, PollDecideExpired, PollDecidePending, PollDecideRefused,
     PollDecideApproved, IssueRefused, PollReread, PollingSwap, ExpireSwap, ConsumeSwap, PollAborted
<1> QED
  BY <1>1, <1>2, <1>3, <1>4, <1>5 DEF Next

LEMMA ApprovalWrites ==
  ASSUME TypeOK, [Next]_vars, NEW r \in Requests
  PROVE  \/ approvedAt'[r] = approvedAt[r]
         \/ approvedAt'[r] = clock /\ rec[r].state = "REDEEMING"
<1>1. ASSUME NEW c \in Callbacks, CallbackSwap(c)
      PROVE  \/ approvedAt'[r] = approvedAt[r]
             \/ approvedAt'[r] = clock /\ rec[r].state = "REDEEMING"
  <2>1. \/ approvedAt' = approvedAt
        \/ /\ approvedAt' = [approvedAt EXCEPT ![callback[c].req] = clock]
           /\ rec[callback[c].req].state = "REDEEMING"
    BY <1>1 DEF CallbackSwap, DecisionSwaps, Swaps, SwapsBeforeExpiry, FieldMatchesBeforeExpiry,
       FieldMatches
  <2>2. approvedAt \in [Requests -> Nat]
    BY DEF TypeOK
  <2> QED BY <2>1, <2>2
<1>2. CASE \A c \in Callbacks : ~CallbackSwap(c)
  <2>1. UNCHANGED approvedAt
    BY <1>2, StepCases, QuietStepQuiet DEF Initiate, ClaimSwap, PollingSwap, ExpireSwap,
       ConsumeSwap, journeyVars
  <2> QED BY <2>1
<1> QED
  BY <1>1, <1>2

LEMMA PollerTimesStep ==
  ASSUME TypeOK, TypeOK', Bound, SnapInv, TimeInv, [Next]_vars, NEW p \in Pollers
  PROVE  PollerTimes(p)'
<1>0. /\ PollerTimes(p) /\ poller[p] \in Poller /\ poller \in [Pollers -> Poller]
      /\ clock \in Nat /\ clock' \in Nat /\ clock <= clock' /\ poller[p].since \in Nat
      /\ approvedAt \in [Requests -> Nat] /\ approvedAt' \in [Requests -> Nat]
  BY ClockRuns DEF TimeInv, TypeOK, Poller
<1>1. CASE poller'[p] = poller[p]
  <2> SUFFICES ASSUME poller[p].pc = "swap", poller[p].op = "consume"
               PROVE  approvedAt'[poller[p].req] <= poller[p].since /\ poller[p].since <= clock'
    BY <1>1 DEF PollerTimes
  <2>1. /\ poller[p].req \in Requests /\ poller[p].snap.state = "APPROVED"
        /\ Follows(poller[p].snap, rec[poller[p].req])
    BY DEF Bound, SnapInv, PollerSnap, Snapshot
  <2>2. rec[poller[p].req].state # "REDEEMING"
    BY <2>1 DEF Follows, After
  <2>3. approvedAt'[poller[p].req] = approvedAt[poller[p].req]
    BY <2>1, <2>2, ApprovalWrites
  <2> QED BY <1>0, <2>1, <2>3 DEF PollerTimes
<1>2. CASE PollReread(p)
  <2> DEFINE r == poller[p].req
  <2>1. CASE \E a : Answer(p, a)
    BY <1>0, <2>1 DEF Answer, IdlePoller, PollerTimes
  <2>2. CASE poller' = [poller EXCEPT ![p] =
                          [@ EXCEPT !.pc = "swap", !.snap = rec[r], !.since = clock]]
    <3>1. poller'[p].req = r /\ poller'[p].since = clock
      BY <1>0, <2>2 DEF Poller
    <3>2. r \in Requests /\ UNCHANGED <<clock, approvedAt>>
      BY <1>2 DEF PollReread, Bound, journeyVars
    <3>3. approvedAt[r] <= clock
      BY <3>2 DEF TimeInv, RequestTimes
    <3> QED BY <1>0, <3>1, <3>2, <3>3 DEF PollerTimes
  <2> QED BY <1>2, <2>1, <2>2 DEF PollReread
<1>3. CASE PollerStep(p) /\ ~PollReread(p)
  <2>1. poller'[p].pc # "swap"
    <3>a. ASSUME NEW a, Answer(p, a) PROVE poller'[p].pc # "swap"
      BY <1>0, <3>a DEF Answer, IdlePoller
    <3>1. ASSUME NEW r \in Requests, PollRead(p, r) PROVE poller'[p].pc # "swap"
      <4>1. CASE poller' = [poller EXCEPT ![p] = [@ EXCEPT !.pc = "decide", !.req = r, !.snap = rec[r]]]
        BY <1>0, <4>1 DEF Poller
      <4> QED BY <3>1, <3>a, <4>1 DEF PollRead
    <3>2. ASSUME PollDecideExpired(p) PROVE poller'[p].pc # "swap"
      <4>1. CASE poller' = [poller EXCEPT ![p] = [@ EXCEPT !.pc = "reread", !.op = "expire"]]
        BY <1>0, <4>1 DEF Poller
      <4> QED BY <3>2, <3>a, <4>1 DEF PollDecideExpired
    <3>3. ASSUME PollDecidePending(p) PROVE poller'[p].pc # "swap"
      BY <1>0, <3>3 DEF PollDecidePending, Poller
    <3>4. ASSUME PollDecideApproved(p) PROVE poller'[p].pc # "swap"
      BY <1>0, <3>4 DEF PollDecideApproved, Poller
    <3>5. ASSUME \/ PollDecideRefused(p) \/ IssueRefused(p) \/ PollingSwap(p) \/ ExpireSwap(p)
                 \/ ConsumeSwap(p) \/ PollAborted(p)
          PROVE  \E a : Answer(p, a)
      BY <3>5 DEF PollDecideRefused, IssueRefused, PollingSwap, ExpireSwap, ConsumeSwap, PollAborted
    <3> QED BY <1>3, <3>a, <3>1, <3>2, <3>3, <3>4, <3>5 DEF PollerStep
  <2> QED BY <2>1 DEF PollerTimes
<1> QED
  BY <1>1, <1>2, <1>3, OneHandler

\* The swap that consumes is decided with a reading no older than `since`.
LEMMA ConsumedInTime ==
  ASSUME TypeOK, Bound, SnapInv, NEW p \in Pollers, ConsumeSwap(p),
         consumed'[poller[p].req] # consumed[poller[p].req]
  PROVE  \E t \in SwapTimes(Backend, poller[p].since, clock) :
           t < rec[poller[p].req].expiry
<1>1. PICK t \in SwapTimes(Backend, poller[p].since, clock) : t < poller[p].snap.expiry
  BY DEF ConsumeSwap, SwapsBeforeExpiry, FieldMatchesBeforeExpiry
<1>2. poller[p].snap.expiry = rec[poller[p].req].expiry
  BY DEF ConsumeSwap, SnapInv, PollerSnap, Snapshot, Follows
<1> QED
  BY <1>1, <1>2

LEMMA RequestTimesStep ==
  ASSUME TypeOK, TypeOK', Bound, SnapInv, OnceInv, TimeInv, [Next]_vars, NEW r \in Requests
  PROVE  RequestTimes(r)'
<1>0. /\ RequestTimes(r) /\ clock \in Nat /\ clock' \in Nat /\ clock <= clock'
      /\ approvedAt[r] \in Nat /\ approvedAt'[r] \in Nat /\ consumed[r] \in Nat
      /\ rec[r].expiry \in Nat
  BY ClockRuns DEF TimeInv, TypeOK, Record
<1>1. approvedAt'[r] <= clock'
  BY <1>0, ApprovalWrites DEF RequestTimes
<1>2. ASSUME consumed'[r] > 0 PROVE approvedAt'[r] < rec'[r].expiry
  <2>1. rec[r].state \in {"APPROVED", "CONSUMED", "EXPIRED"}
    BY <1>0, <1>2, IssueCases DEF OnceInv
  <2>2. approvedAt'[r] = approvedAt[r]
    BY <2>1, ApprovalWrites
  <2>3. rec'[r].expiry = rec[r].expiry
    BY <2>1, RecordMoves DEF Moves, Written
  <2>4. CASE consumed'[r] = consumed[r]
    BY <1>0, <1>2, <2>2, <2>3, <2>4 DEF RequestTimes
  <2>5. CASE consumed'[r] # consumed[r]
    <3>1. PICK p \in Pollers : ConsumeSwap(p) /\ r = poller[p].req
      BY <2>5, IssueCases
    <3>2. PICK t \in SwapTimes(Backend, poller[p].since, clock) : t < rec[r].expiry
      BY <2>5, <3>1, ConsumedInTime
    <3>3. /\ approvedAt[r] <= poller[p].since /\ poller[p].since <= clock
          /\ poller[p].since \in Nat
      BY <3>1 DEF TimeInv, PollerTimes, ConsumeSwap, TypeOK, Poller
    <3>4. t \in Nat /\ poller[p].since <= t
      BY <1>0, <3>2, <3>3 DEF SwapTimes
    <3> QED BY <1>0, <2>2, <2>3, <3>2, <3>3, <3>4
  <2> QED BY <2>4, <2>5
<1> QED
  BY <1>1, <1>2 DEF RequestTimes

LEMMA TimeStep ==
  TypeOK /\ Bound /\ SnapInv /\ OnceInv /\ TimeInv /\ [Next]_vars => TimeInv'
<1> SUFFICES ASSUME TypeOK, Bound, SnapInv, OnceInv, TimeInv, [Next]_vars
             PROVE  TimeInv'
  OBVIOUS
<1>1. TypeOK'
  BY NextTypes
<1> QED
  BY <1>1, PollerTimesStep, RequestTimesStep DEF TimeInv

LEMMA TimeAlways == Spec => []TimeInv
<1>1. Init => TimeInv
  BY DEF Init, TimeInv, RequestTimes, PollerTimes, IdlePoller
<1> QED
  BY <1>1, TypeCorrect, SnapAlways, OnceAlways, TimeStep, PTL DEF Spec

\* No approval that was written after the request expired is redeemed, whatever
\* readings of the clock the database decides the swaps with.
THEOREM LateApprovals == Spec => []LateApprovalNeverRedeemed
<1>1. TypeOK /\ OnceInv /\ TimeInv => LateApprovalNeverRedeemed
  BY DEF TypeOK, OnceInv, TimeInv, RequestTimes, LateApprovalNeverRedeemed
<1> QED
  BY <1>1, TypeCorrect, OnceAlways, TimeAlways, PTL

-----------------------------------------------------------------------------
(* A refusal is final *)

RequestRefusals(r) ==
  told[r] # {} =>
    /\ rec[r].state # "ABSENT"
    /\ rec[r].state \in {"DENIED", "FAILED", "EXPIRED"} \/ Expired(rec[r].expiry, clock)
PollerRefusals(p) ==
  poller[p].op = "expire" => poller[p].pc # "idle" /\ Expired(poller[p].snap.expiry, clock)

RefusalInv ==
  /\ \A r \in Requests : RequestRefusals(r)
  /\ \A p \in Pollers : PollerRefusals(p)

LEMMA StillExpired ==
  ASSUME TypeOK, [Next]_vars, NEW e \in Nat, Expired(e, clock)
  PROVE  Expired(e, clock')
BY ClockRuns DEF TypeOK, Expired

LEMMA PollerRefusalsStep ==
  ASSUME TypeOK, Bound, SnapInv, RefusalInv, [Next]_vars, NEW p \in Pollers
  PROVE  PollerRefusals(p)'
<1>0. /\ PollerRefusals(p) /\ poller[p] \in Poller /\ poller \in [Pollers -> Poller]
      /\ PollerSnap(p) /\ poller[p].snap.expiry \in Nat
  BY DEF RefusalInv, SnapInv, TypeOK, Poller, Record
<1>i. ASSUME NEW a, Answer(p, a) PROVE PollerRefusals(p)'
  BY <1>0, <1>i DEF Answer, IdlePoller, PollerRefusals
<1>1. CASE poller'[p] = poller[p]
  BY <1>0, <1>1, StillExpired DEF PollerRefusals
<1>2. ASSUME NEW r \in Requests, PollRead(p, r) PROVE PollerRefusals(p)'
  <2>1. CASE poller' = [poller EXCEPT ![p] = [@ EXCEPT !.pc = "decide", !.req = r, !.snap = rec[r]]]
    <3>1. poller'[p].op = poller[p].op
      BY <1>0, <2>1 DEF Poller
    <3>2. poller[p].op = "none"
      BY <1>0, <1>2 DEF PollRead, PollerSnap
    <3> QED BY <3>1, <3>2 DEF PollerRefusals
  <2> QED BY <1>2, <1>i, <2>1 DEF PollRead
<1>3. CASE PollDecideExpired(p)
  <2>1. CASE poller' = [poller EXCEPT ![p] = [@ EXCEPT !.pc = "reread", !.op = "expire"]]
    <3>1. poller'[p].pc = "reread" /\ poller'[p].snap = poller[p].snap
      BY <1>0, <2>1 DEF Poller
    <3>2. Expired(poller[p].snap.expiry, clock')
      BY <1>0, <1>3, StillExpired DEF PollDecideExpired
    <3> QED BY <3>1, <3>2 DEF PollerRefusals
  <2> QED BY <1>3, <1>i, <2>1 DEF PollDecideExpired
<1>4. CASE PollDecidePending(p)
  BY <1>0, <1>4 DEF PollDecidePending, Poller, PollerRefusals
<1>5. CASE PollDecideApproved(p)
  BY <1>0, <1>5 DEF PollDecideApproved, Poller, PollerRefusals
<1>6. CASE PollReread(p)
  <2> DEFINE r == poller[p].req
  <2>1. CASE poller' = [poller EXCEPT ![p] =
                          [@ EXCEPT !.pc = "swap", !.snap = rec[r], !.since = clock]]
    <3>1. /\ poller'[p].pc = "swap" /\ poller'[p].snap = rec[r] /\ poller'[p].op = poller[p].op
      BY <1>0, <2>1 DEF Poller
    <3>2. rec[r].expiry = poller[p].snap.expiry
      BY <1>0, <1>6 DEF PollReread, PollerSnap, Snapshot, Follows
    <3> QED BY <1>0, <3>1, <3>2, StillExpired DEF PollerRefusals
  <2> QED BY <1>6, <1>i, <2>1 DEF PollReread
<1>7. ASSUME \/ PollDecideRefused(p) \/ IssueRefused(p) \/ PollingSwap(p) \/ ExpireSwap(p)
             \/ ConsumeSwap(p) \/ PollAborted(p)
      PROVE  \E a : Answer(p, a)
  BY <1>7 DEF PollDecideRefused, IssueRefused, PollingSwap, ExpireSwap, ConsumeSwap, PollAborted
<1> QED
  BY <1>1, <1>2, <1>3, <1>4, <1>5, <1>6, <1>7, <1>i, OneHandler DEF PollerStep

\* What a device is told, and of which record.
LEMMA RefusalCases ==
  ASSUME TypeOK, Bound, SnapInv, RefusalInv, [Next]_vars, NEW r \in Requests, told'[r] # told[r]
  PROVE  \E p \in Pollers :
           /\ r = poller[p].req /\ Snapshot(poller[p].snap, r)
           /\ \/ poller[p].snap.state \in {"DENIED", "FAILED"}
              \/ Expired(poller[p].snap.expiry, clock)
<1>0. told \in [Requests -> SUBSET Refusals]
  BY DEF TypeOK
<1>1. PICK p \in Pollers : PollerStep(p)
  <2>1. CASE UNCHANGED told
    BY <1>0, <2>1
  <2>2. ASSUME NEW b \in Browsers, BrowserStep(b) PROVE UNCHANGED told
    BY <2>2 DEF BrowserStep, VerifyRead, ClaimRead, ClaimSwap, JourneyEnd, JourneyAbandoned, pollVars
  <2>3. ASSUME NEW c \in Callbacks, CallbackStep(c) PROVE UNCHANGED told
    BY <2>3 DEF CallbackStep, CallbackLoad, CallbackRead, CallbackSwap, CallbackAborted, pollVars
  <2>4. ASSUME Tick \/ (\E q \in Requests : Initiate(q)) \/ UNCHANGED vars PROVE UNCHANGED told
    BY <2>4 DEF Tick, Initiate, vars, pollVars
  <2> QED BY <2>1, <2>2, <2>3, <2>4 DEF Next
<1>2. ASSUME NEW a, Answer(p, a) PROVE r = poller[p].req /\ a \in Refusals
  BY <1>0, <1>2 DEF Answer
<1>u. ~UNCHANGED told
  BY <1>0
<1>3. PollerSnap(p) /\ PollerRefusals(p)
  BY DEF SnapInv, RefusalInv
<1>4. ASSUME poller[p].pc # "idle", r = poller[p].req,
             \/ poller[p].snap.state \in {"DENIED", "FAILED"}
             \/ poller[p].op = "expire" \/ Expired(poller[p].snap.expiry, clock)
      PROVE  /\ r = poller[p].req /\ Snapshot(poller[p].snap, r)
             /\ \/ poller[p].snap.state \in {"DENIED", "FAILED"}
                \/ Expired(poller[p].snap.expiry, clock)
  BY <1>3, <1>4 DEF PollerSnap, PollerRefusals
<1>5. CASE \E q \in Requests : PollRead(p, q)
  BY <1>2, <1>5, <1>u DEF PollRead, Refusals
<1>6. CASE PollDecideExpired(p)
  BY <1>2, <1>4, <1>6, <1>u DEF PollDecideExpired
<1>7. CASE PollDecideRefused(p)
  BY <1>2, <1>4, <1>7 DEF PollDecideRefused, Refusals
<1>8. CASE PollDecidePending(p) \/ PollDecideApproved(p)
  BY <1>8, <1>u DEF PollDecidePending, PollDecideApproved
<1>9. CASE IssueRefused(p) \/ ConsumeSwap(p)
  <2>1. \E a \in {"invalid_grant", "server_error", "tokens"} : Answer(p, a)
    BY <1>9 DEF IssueRefused, ConsumeSwap
  <2> QED BY <1>2, <2>1 DEF Refusals
<1>10. CASE PollReread(p)
  <2>1. UNCHANGED told \/ Answer(p, "server_error") \/ Answer(p, "invalid_grant") \/
          (poller[p].op = "expire" /\ Answer(p, "expired_token"))
    BY <1>10 DEF PollReread
  <2> QED BY <1>2, <1>4, <1>10, <1>u, <2>1 DEF Refusals, PollReread
<1>11. CASE PollingSwap(p)
  <2>1. poller[p].reply \notin Refusals
    BY DEF TypeOK, Poller, Refusals
  <2> QED BY <1>2, <1>11, <2>1 DEF PollingSwap
<1>12. CASE ExpireSwap(p)
  BY <1>2, <1>4, <1>12 DEF ExpireSwap
<1>13. CASE PollAborted(p)
  BY <1>2, <1>4, <1>13 DEF PollAborted, Refusals
<1> QED
  BY <1>1, <1>5, <1>6, <1>7, <1>8, <1>9, <1>10, <1>11, <1>12, <1>13 DEF PollerStep

LEMMA RequestRefusalsStep ==
  ASSUME TypeOK, TypeOK', Bound, SnapInv, RefusalInv, [Next]_vars, NEW r \in Requests
  PROVE  RequestRefusals(r)'
<1> DEFINE Closed == /\ rec[r].state # "ABSENT"
                     /\ \/ rec[r].state \in {"DENIED", "FAILED", "EXPIRED"}
                        \/ Expired(rec[r].expiry, clock)
<1>0. rec[r] \in Record /\ rec[r].expiry \in Nat
  BY DEF TypeOK, Record
<1>1. ASSUME told'[r] # {} PROVE Closed
  <2>1. CASE told'[r] = told[r]
    BY <1>1, <2>1 DEF RefusalInv, RequestRefusals
  <2>2. CASE told'[r] # told[r]
    <3>1. PICK p \in Pollers :
            /\ r = poller[p].req /\ Snapshot(poller[p].snap, r)
            /\ \/ poller[p].snap.state \in {"DENIED", "FAILED"}
               \/ Expired(poller[p].snap.expiry, clock)
      BY <2>2, RefusalCases
    <3>2. poller[p].snap \in Record
      BY DEF TypeOK, Poller
    <3>3. rec[r].state # "ABSENT" /\ rec[r].expiry = poller[p].snap.expiry
      BY <1>0, <3>1, <3>2 DEF Snapshot, Follows, After, Record, States
    <3>4. poller[p].snap.state \in {"DENIED", "FAILED"} => rec[r].state \in {"DENIED", "FAILED", "EXPIRED"}
      BY <3>1 DEF Snapshot, Follows, After
    <3> QED BY <3>1, <3>3, <3>4
  <2> QED BY <2>1, <2>2
<1>2. ASSUME Closed PROVE Closed'
  <2>1. Moves(rec[r], rec'[r])
    BY <1>2, RecordMoves
  <2>2. rec'[r].expiry = rec[r].expiry /\ rec'[r].state # "ABSENT"
    BY <1>2, <2>1 DEF Moves, Written
  <2>3. rec[r].state \in {"DENIED", "FAILED", "EXPIRED"} =>
          rec'[r].state \in {"DENIED", "FAILED", "EXPIRED"}
    BY <2>1 DEF Moves, Written
  <2> QED BY <1>0, <1>2, <2>2, <2>3, StillExpired
<1> QED
  BY <1>1, <1>2 DEF RequestRefusals

LEMMA RefusalStep == TypeOK /\ Bound /\ SnapInv /\ RefusalInv /\ [Next]_vars => RefusalInv'
<1> SUFFICES ASSUME TypeOK, Bound, SnapInv, RefusalInv, [Next]_vars
             PROVE  RefusalInv'
  OBVIOUS
<1>1. TypeOK'
  BY NextTypes
<1> QED
  BY <1>1, PollerRefusalsStep, RequestRefusalsStep DEF RefusalInv

LEMMA RefusalAlways == Spec => []RefusalInv
<1>1. Init => RefusalInv
  BY DEF Init, RefusalInv, RequestRefusals, PollerRefusals, IdlePoller
<1> QED
  BY <1>1, TypeCorrect, SnapAlways, RefusalStep, PTL DEF Spec

\* A device that was refused gets no tokens later, on the stores that decide a swap
\* with the time at which they make it.
THEOREM RefusalsFinal ==
  ASSUME Backend # "db"
  PROVE  Spec => NoTokensAfterRefusal
<1>1. ASSUME TypeOK, Bound, SnapInv, RefusalInv, [Next]_vars,
             NEW r \in Requests, issued'[r] > issued[r]
      PROVE  told[r] = {}
  <2>1. PICK p \in Pollers :
          /\ ConsumeSwap(p) /\ r = poller[p].req /\ rec[r].state = "APPROVED"
          /\ consumed'[r] = consumed[r] + 1
    BY <1>1, IssueCases DEF TypeOK
  <2>2. consumed'[r] # consumed[r] /\ clock \in Nat /\ rec[r].expiry \in Nat
    BY <1>1, <2>1 DEF TypeOK, Record
  <2>3. PICK t \in SwapTimes(Backend, poller[p].since, clock) : t < rec[r].expiry
    BY <1>1, <2>1, <2>2, ConsumedInTime
  <2>4. ~Expired(rec[r].expiry, clock)
    BY <2>2, <2>3 DEF SwapTimes, Expired
  <2> QED BY <1>1, <2>1, <2>4 DEF RefusalInv, RequestRefusals
<1>2. TypeOK /\ Bound /\ SnapInv /\ RefusalInv /\ [Next]_vars =>
        [\A r \in Requests : issued'[r] > issued[r] => told[r] = {}]_vars
  BY <1>1
<1> QED
  BY <1>2, TypeCorrect, SnapAlways, RefusalAlways, PTL DEF Spec, NoTokensAfterRefusal

\* A device that was told access_denied, of a request denied or failed.
DenialInv ==
  \A r \in Requests :
    "access_denied" \in told[r] => rec[r].state \in {"DENIED", "FAILED", "EXPIRED"}

\* Only HandleGrant, on a record that was read denied or failed, says so.
LEMMA DenialCases ==
  ASSUME TypeOK, Bound, SnapInv, [Next]_vars, NEW r \in Requests,
         "access_denied" \in told'[r], "access_denied" \notin told[r]
  PROVE  rec[r].state \in {"DENIED", "FAILED", "EXPIRED"}
<1>0. told \in [Requests -> SUBSET Refusals] /\ ~UNCHANGED told
  BY DEF TypeOK
<1>1. PICK p \in Pollers : PollerStep(p)
  <2>1. ASSUME NEW b \in Browsers, BrowserStep(b) PROVE UNCHANGED told
    BY <2>1 DEF BrowserStep, VerifyRead, ClaimRead, ClaimSwap, JourneyEnd, JourneyAbandoned, pollVars
  <2>2. ASSUME NEW c \in Callbacks, CallbackStep(c) PROVE UNCHANGED told
    BY <2>2 DEF CallbackStep, CallbackLoad, CallbackRead, CallbackSwap, CallbackAborted, pollVars
  <2>3. ASSUME Tick \/ (\E q \in Requests : Initiate(q)) \/ UNCHANGED vars PROVE UNCHANGED told
    BY <2>3 DEF Tick, Initiate, vars, pollVars
  <2> QED BY <1>0, <2>1, <2>2, <2>3 DEF Next
<1>2. ASSUME NEW a, Answer(p, a) PROVE r = poller[p].req /\ a = "access_denied"
  BY <1>0, <1>2 DEF Answer
<1>3. PollDecideRefused(p)
  <2>1. CASE \E q \in Requests : PollRead(p, q)
    BY <1>0, <1>2, <2>1 DEF PollRead
  <2>2. CASE PollDecideExpired(p) \/ PollDecidePending(p) \/ PollDecideApproved(p)
    BY <1>0, <1>2, <2>2 DEF PollDecideExpired, PollDecidePending, PollDecideApproved
  <2>3. CASE IssueRefused(p) \/ ConsumeSwap(p) \/ ExpireSwap(p) \/ PollAborted(p)
    <3>1. \E a : Answer(p, a) /\ a # "access_denied"
      BY <2>3 DEF IssueRefused, ConsumeSwap, ExpireSwap, PollAborted
    <3> QED BY <1>2, <3>1
  <2>4. CASE PollReread(p)
    <3>1. UNCHANGED told \/ \E a \in {"server_error", "invalid_grant", "expired_token"} : Answer(p, a)
      BY <2>4 DEF PollReread
    <3> QED BY <1>0, <1>2, <3>1
  <2>5. CASE PollingSwap(p)
    <3>1. poller[p].reply # "access_denied"
      BY DEF TypeOK, Poller
    <3> QED BY <1>2, <2>5, <3>1 DEF PollingSwap
  <2> QED BY <1>1, <2>1, <2>2, <2>3, <2>4, <2>5 DEF PollerStep
<1>4. poller[p].snap.state \in {"DENIED", "FAILED"} /\ r = poller[p].req /\ poller[p].pc = "decide"
  BY <1>2, <1>3 DEF PollDecideRefused
<1>5. Follows(poller[p].snap, rec[r])
  BY <1>4 DEF SnapInv, PollerSnap, Snapshot
<1> QED BY <1>4, <1>5 DEF Follows, After

LEMMA DenialStep ==
  TypeOK /\ Bound /\ SnapInv /\ DenialInv /\ [Next]_vars => DenialInv'
<1> SUFFICES ASSUME TypeOK, Bound, SnapInv, DenialInv, [Next]_vars,
                    NEW r \in Requests, "access_denied" \in told'[r]
             PROVE  rec'[r].state \in {"DENIED", "FAILED", "EXPIRED"}
  BY DEF DenialInv
<1>1. rec[r].state \in {"DENIED", "FAILED", "EXPIRED"}
  BY DenialCases DEF DenialInv
<1>2. Moves(rec[r], rec'[r])
  BY <1>1, RecordMoves
<1> QED BY <1>1, <1>2 DEF Moves, Written

\* What holds of NoTokensAfterRefusal on the table too: a device that was told
\* access_denied gets no tokens later.
DenialIsFinal ==
  [][\A r \in Requests : issued'[r] > issued[r] => "access_denied" \notin told[r]]_vars

\* Whichever store is in use, HandleGrant never returns tokens for a device code of
\* which a device was told access_denied.
THEOREM DenialsFinal == Spec => DenialIsFinal
<1>1. ASSUME TypeOK, Bound, SnapInv, DenialInv, [Next]_vars,
             NEW r \in Requests, issued'[r] > issued[r]
      PROVE  "access_denied" \notin told[r]
  <2>1. rec[r].state = "APPROVED"
    BY <1>1, IssueCases DEF TypeOK
  <2> QED BY <1>1, <2>1 DEF DenialInv
<1>2. TypeOK /\ Bound /\ SnapInv /\ DenialInv /\ [Next]_vars =>
        [\A r \in Requests : issued'[r] > issued[r] => "access_denied" \notin told[r]]_vars
  BY <1>1
<1>3. Init => DenialInv
  BY DEF Init, DenialInv
<1> QED
  BY <1>2, <1>3, TypeCorrect, SnapAlways, DenialStep, PTL DEF Spec, DenialIsFinal

-----------------------------------------------------------------------------
(* The device grant is a one-time grant *)

Status(n, s) ==
  IF n > 0 THEN "redeemed"
  ELSE IF s = "ABSENT" THEN "absent"
  ELSE IF s \in Open THEN "open"
  ELSE IF s = "APPROVED" THEN "granted"
  ELSE "closed"

LEMMA StatusOf ==
  ASSUME TypeOK, TypeOK', NEW r \in Requests
  PROVE  /\ GrantStatus(r) = Status(consumed[r], rec[r].state)
         /\ GrantStatus(r)' = Status(consumed'[r], rec'[r].state)
<1>1. consumed[r] \in Nat /\ consumed'[r] \in Nat
  BY DEF TypeOK
<1>2. ASSUME NEW n \in Nat, NEW s
      PROVE  Status(n, s) = CASE n > 0 -> "redeemed"
                              [] n = 0 /\ s = "ABSENT" -> "absent"
                              [] n = 0 /\ s \in {"PENDING", "REDEEMING"} -> "open"
                              [] n = 0 /\ s = "APPROVED" -> "granted"
                              [] OTHER -> "closed"
  BY DEF Status, Open
<1> QED
  BY <1>1, <1>2 DEF GrantStatus

Was(r) == Status(consumed[r], rec[r].state)
Becomes(r) == Status(consumed'[r], rec'[r].state)

Same(r) == /\ Becomes(r) = Was(r)
           /\ rec'[r].user = rec[r].user
           /\ issued'[r] = issued[r]

\* A step that changes the abstract state of q alone.
LEMMA PromiseStep ==
  ASSUME TypeOK, TypeOK', NEW q \in Requests, \A r \in Requests \ {q} : Same(r),
         \/ Same(q)
         \/ /\ Was(q) = "absent" /\ Becomes(q) = "open"
            /\ rec'[q].user = rec[q].user /\ issued'[q] = issued[q]
         \/ /\ Was(q) = "open" /\ Becomes(q) = "granted"
            /\ rec'[q].user \in Users /\ issued'[q] = issued[q]
         \/ /\ Was(q) = "granted" /\ Becomes(q) = "redeemed"
            /\ rec'[q].user = rec[q].user /\ issued'[q] \in {issued[q], issued[q] + 1}
         \/ /\ Was(q) \in {"open", "granted"} /\ Becomes(q) = "closed"
            /\ rec'[q].user = rec[q].user /\ issued'[q] = issued[q]
  PROVE  [Promise!Next]_(Promise!vars)
<1> DEFINE status == [r \in Requests |-> GrantStatus(r)]
           grantee == [r \in Requests |-> rec[r].user]
<1>0. /\ issued \in [Requests -> Nat] /\ issued' \in [Requests -> Nat]
      /\ status = [r \in Requests |-> Was(r)] /\ status' = [r \in Requests |-> Becomes(r)]
  BY StatusOf DEF TypeOK, Was, Becomes
<1>1. ASSUME NEW s, Becomes(q) = s PROVE status' = [status EXCEPT ![q] = s]
  <2>1. [r \in Requests |-> Becomes(r)] = [[r \in Requests |-> Was(r)] EXCEPT ![q] = s]
    BY <1>1 DEF Same
  <2> QED BY <1>0, <2>1
<1>2. ASSUME NEW u, rec'[q].user = u PROVE grantee' = [grantee EXCEPT ![q] = u]
  BY <1>2 DEF Same
<1>3. ASSUME rec'[q].user = rec[q].user PROVE grantee' = grantee
  BY <1>3 DEF Same
<1>4. ASSUME NEW n, issued'[q] = issued[q] + n PROVE issued' = [issued EXCEPT ![q] = @ + n]
  BY <1>0, <1>4 DEF Same
<1>5. ASSUME issued'[q] = issued[q] PROVE issued' = issued
  BY <1>0, <1>5 DEF Same
<1>6. CASE Same(q)
  <2>1. status' = status
    <3>1. [r \in Requests |-> Becomes(r)] = [r \in Requests |-> Was(r)]
      BY <1>6 DEF Same
    <3> QED BY <1>0, <3>1
  <2> QED BY <1>3, <1>5, <1>6, <2>1 DEF Same, Promise!vars
<1>7. CASE /\ Was(q) = "absent" /\ Becomes(q) = "open"
           /\ rec'[q].user = rec[q].user /\ issued'[q] = issued[q]
  <2>1. Promise!Open(q)
    BY <1>0, <1>1, <1>3, <1>5, <1>7 DEF Promise!Open
  <2> QED BY <2>1 DEF Promise!Next
<1>8. CASE /\ Was(q) = "open" /\ Becomes(q) = "granted"
           /\ rec'[q].user \in Users /\ issued'[q] = issued[q]
  <2>1. PICK u \in Users : u = rec'[q].user
    BY <1>8
  <2>2. Promise!Grant(q, u)
    BY <1>0, <1>1, <1>2, <1>5, <1>8, <2>1 DEF Promise!Grant
  <2> QED BY <2>2 DEF Promise!Next
<1>9. CASE /\ Was(q) = "granted" /\ Becomes(q) = "redeemed"
           /\ rec'[q].user = rec[q].user /\ issued'[q] \in {issued[q], issued[q] + 1}
  <2>1. \E n \in {0, 1} : issued' = [issued EXCEPT ![q] = @ + n]
    <3>1. issued[q] \in Nat
      BY <1>0
    <3>2. issued'[q] = issued[q] + 0 \/ issued'[q] = issued[q] + 1
      BY <1>9, <3>1
    <3> QED BY <1>4, <3>2
  <2>2. Promise!Redeem(q)
    BY <1>0, <1>1, <1>3, <1>9, <2>1 DEF Promise!Redeem
  <2> QED BY <2>2 DEF Promise!Next
<1>10. CASE /\ Was(q) \in {"open", "granted"} /\ Becomes(q) = "closed"
            /\ rec'[q].user = rec[q].user /\ issued'[q] = issued[q]
  <2>1. Promise!Close(q)
    BY <1>0, <1>1, <1>3, <1>5, <1>10 DEF Promise!Close
  <2> QED BY <2>1 DEF Promise!Next
<1> QED
  BY <1>6, <1>7, <1>8, <1>9, <1>10

\* A record that is written with the same state or none at all.
LEMMA SameRecord ==
  ASSUME NEW r \in Requests, rec'[r] = rec[r] \/ Written(rec[r], rec'[r], rec[r].state),
         issued'[r] = issued[r], consumed'[r] = consumed[r]
  PROVE  Same(r)
BY DEF Same, Was, Becomes, Written

LEMMA PromiseByStep ==
  ASSUME TypeOK, TypeOK', Bound, SnapInv, OnceInv, JourneyInv, [Next]_vars
  PROVE  [Promise!Next]_(Promise!vars)
<1>0. ASSUME \A r \in Requests : Same(r) PROVE [Promise!Next]_(Promise!vars)
  <2>1. [r \in Requests |-> GrantStatus(r)]' = [r \in Requests |-> GrantStatus(r)]
    BY <1>0, StatusOf DEF Same, Was, Becomes
  <2>2. [r \in Requests |-> rec[r].user]' = [r \in Requests |-> rec[r].user]
    BY <1>0 DEF Same
  <2>3. issued' = issued
    BY <1>0 DEF Same, TypeOK
  <2> QED BY <2>1, <2>2, <2>3 DEF Promise!vars
<1>o. ASSUME NEW r \in Requests
      PROVE  /\ consumed[r] = 0 \/ consumed[r] > 0
             /\ rec[r].state \notin {"CONSUMED", "EXPIRED"} => consumed[r] = 0
  <2>1. consumed[r] \in Nat
    BY DEF TypeOK
  <2>2. consumed[r] > 0 => rec[r].state \in {"CONSUMED", "EXPIRED"}
    BY DEF OnceInv
  <2> QED BY <2>1, <2>2
<1>1. CASE QuietStep
  BY <1>0, <1>1, SameRecord, QuietStepQuiet
<1>2. ASSUME NEW q \in Requests, Initiate(q) PROVE [Promise!Next]_(Promise!vars)
  <2>1. UNCHANGED <<issued, consumed>>
    BY <1>2 DEF Initiate, tokenVars
  <2>2. \A r \in Requests \ {q} : Same(r)
    BY <1>2, <2>1, InitiateWrites, SameRecord
  <2>3. rec[q].state = "ABSENT" /\ rec'[q].state = "PENDING" /\ rec'[q].user = NoUser
    BY <1>2 DEF Initiate, TypeOK, NoRecord
  <2>4. Was(q) = "absent" /\ Becomes(q) = "open"
    BY <1>o, <2>1, <2>3 DEF Was, Becomes, Status, Open
  <2>5. rec[q].user = NoUser
    BY <2>3 DEF JourneyInv, RequestJourney
  <2> QED BY <2>1, <2>2, <2>3, <2>4, <2>5, PromiseStep
<1>3. ASSUME NEW b \in Browsers, ClaimSwap(b) PROVE [Promise!Next]_(Promise!vars)
  <2>1. UNCHANGED <<issued, consumed>>
    BY <1>3 DEF ClaimSwap, tokenVars
  <2>2. ASSUME NEW r \in Requests PROVE Same(r)
    <3>1. CASE rec'[r] = rec[r]
      BY <2>1, <3>1, SameRecord
    <3>2. CASE rec[r].state = "PENDING" /\ Written(rec[r], rec'[r], "REDEEMING")
      BY <2>1, <3>2 DEF Same, Was, Becomes, Status, Open, Written
    <3> QED BY <1>3, <3>1, <3>2, ClaimMoves
  <2> QED BY <1>0, <2>2
<1>4. ASSUME NEW c \in Callbacks, CallbackSwap(c) PROVE [Promise!Next]_(Promise!vars)
  <2>0. PICK q \in Requests : q = callback[c].req
    BY <1>4 DEF CallbackSwap, Bound
  <2>1. UNCHANGED <<issued, consumed>>
    BY <1>4 DEF CallbackSwap, tokenVars
  <2>2. \A r \in Requests \ {q} : Same(r)
    BY <1>4, <2>0, <2>1, DecisionMoves, SameRecord
  <2>3. CASE rec'[q] = rec[q]
    BY <2>1, <2>2, <2>3, SameRecord, PromiseStep
  <2>4. CASE /\ rec[q].state = "REDEEMING" /\ callback[c].error = "none"
             /\ rec'[q].state = "APPROVED" /\ rec'[q].user = callback[c].user
    <3>1. Was(q) = "open" /\ Becomes(q) = "granted"
      BY <1>o, <2>1, <2>4 DEF Was, Becomes, Status, Open
    <3>2. rec'[q].user \in Users
      BY <1>4, <2>0, <2>4 DEF CallbackSwap, JourneyInv, CallbackJourney, Approver, AssertionJourney
    <3> QED BY <2>1, <2>2, <3>1, <3>2, PromiseStep
  <2>5. CASE /\ rec[q].state = "REDEEMING"
             /\ \E s \in {"DENIED", "FAILED"} : Written(rec[q], rec'[q], s)
    <3>1. Was(q) = "open" /\ Becomes(q) = "closed" /\ rec'[q].user = rec[q].user
      BY <1>o, <2>1, <2>5 DEF Was, Becomes, Status, Open, Written
    <3> QED BY <2>1, <2>2, <3>1, PromiseStep
  <2> QED BY <1>4, <2>0, <2>3, <2>4, <2>5, DecisionMoves
<1>5. ASSUME NEW p \in Pollers, PollingSwap(p) PROVE [Promise!Next]_(Promise!vars)
  <2>1. UNCHANGED <<issued, consumed>>
    BY <1>5 DEF PollingSwap, tokenVars
  <2> QED BY <1>0, <1>5, <2>1, PollMoves, SameRecord
<1>6. ASSUME NEW p \in Pollers, ExpireSwap(p) PROVE [Promise!Next]_(Promise!vars)
  <2>0. PICK q \in Requests : q = poller[p].req
    BY <1>6 DEF ExpireSwap, Bound
  <2>1. UNCHANGED <<issued, consumed>>
    BY <1>6 DEF ExpireSwap, tokenVars
  <2>2. \A r \in Requests \ {q} : Same(r)
    BY <1>6, <2>0, <2>1, ExpireMoves, SameRecord
  <2>3. CASE rec'[q] = rec[q]
    BY <2>1, <2>2, <2>3, SameRecord, PromiseStep
  <2>4. CASE Written(rec[q], rec'[q], "EXPIRED")
    <3>1. rec[q].state # "ABSENT" /\ rec[q] \in Record
      <4>1. poller[p].snap \in Record /\ rec[q] \in Record /\ Snapshot(poller[p].snap, q)
        BY <1>6, <2>0 DEF ExpireSwap, SnapInv, PollerSnap, TypeOK, Poller
      <4> QED BY <4>1 DEF Snapshot, Follows, After, Record, States
    <3>2. rec'[q].state = "EXPIRED" /\ rec'[q].user = rec[q].user
      BY <2>4 DEF Written
    <3>3. rec[q].state \in States
      BY <3>1 DEF Record
    <3>4. CASE consumed[q] > 0
      BY <2>1, <2>2, <3>2, <3>4, PromiseStep DEF Same, Was, Becomes, Status
    <3>5. CASE consumed[q] = 0
      <4>1. Was(q) \in {"open", "granted", "closed"}
        BY <3>3, <3>5 DEF Was, Becomes, Status, Open, States
      <4>2. Becomes(q) = "closed"
        BY <2>1, <3>2, <3>5 DEF Was, Becomes, Status, Open
      <4> QED BY <2>1, <2>2, <3>2, <4>1, <4>2, PromiseStep DEF Same
    <3> QED BY <1>o, <2>1, <3>4, <3>5
  <2> QED BY <1>6, <2>0, <2>3, <2>4, ExpireMoves
<1>7. ASSUME NEW p \in Pollers, ConsumeSwap(p) PROVE [Promise!Next]_(Promise!vars)
  <2>1. PICK q \in Requests : q = poller[p].req
    BY <1>7 DEF ConsumeSwap, Bound
  <2>2. CASE UNCHANGED <<rec, issued, consumed>>
    BY <1>0, <2>2, SameRecord
  <2>3. CASE /\ rec[q].state = "APPROVED"
             /\ rec' = [rec EXCEPT ![q] = [poller[p].snap EXCEPT !.state = "CONSUMED"]]
             /\ consumed' = [consumed EXCEPT ![q] = @ + 1]
             /\ issued' = [issued EXCEPT ![q] = @ + 1] \/ issued' = issued
    <3>1. /\ consumed'[q] = consumed[q] + 1 /\ issued'[q] \in {issued[q], issued[q] + 1}
          /\ \A r \in Requests \ {q} :
               rec'[r] = rec[r] /\ consumed'[r] = consumed[r] /\ issued'[r] = issued[r]
      BY <2>1, <2>3 DEF TypeOK
    <3>2. \A r \in Requests \ {q} : Same(r)
      BY <3>1, SameRecord
    <3>3. consumed[q] = 0
      BY <1>o, <2>1, <2>3
    <3>4. Was(q) = "granted"
      BY <2>3, <3>3 DEF Was, Becomes, Status, Open
    <3>5. Becomes(q) = "redeemed"
      BY <3>1, <3>3 DEF Was, Becomes, Status, Open
    <3>6. rec'[q].user = rec[q].user
      BY <1>7, <2>1, ConsumeMoves DEF Written
    <3> QED BY <2>1, <3>1, <3>2, <3>4, <3>5, <3>6, PromiseStep
  <2> QED
    BY <1>7, <2>1, <2>2, <2>3 DEF ConsumeSwap, SwapsBeforeExpiry, FieldMatchesBeforeExpiry, FieldMatches
<1> QED
  BY <1>1, <1>2, <1>3, <1>4, <1>5, <1>6, <1>7, StepCases

\* The device grant implements OneTimeGrant, for any number of requests and handlers
\* and on each of the stores.
THEOREM DeviceGrantKeepsPromise == Spec => ImplementsOneTimeGrant
<1>1. Init => Promise!Init
  BY DEF Init, Promise!Init, GrantStatus, NoRecord
<1>2. TypeOK /\ Bound /\ SnapInv /\ OnceInv /\ JourneyInv /\ [Next]_vars
        => [Promise!Next]_(Promise!vars)
  BY NextTypes, PromiseByStep
<1> QED
  BY <1>1, <1>2, TypeCorrect, SnapAlways, OnceAlways, JourneyAlways, PTL
  DEF Spec, ImplementsOneTimeGrant, Promise!Spec
=============================================================================
