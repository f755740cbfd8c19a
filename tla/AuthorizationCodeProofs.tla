---------------------- MODULE AuthorizationCodeProofs -----------------------
(***************************************************************************)
(* Proofs about AuthorizationCode, for any number of requests, assertions, *)
(* codes, callbacks and token requests, both stores and every lifetime.    *)
(***************************************************************************)
EXTENDS AuthorizationCode, TLAPS

\* Division as int64(d.Seconds()) uses it.
LEMMA WholeSeconds ==
  ASSUME NEW x \in Int, NEW s \in Nat \ {0}
  PROVE  /\ (x \div s) * s \in Int
         /\ x < (x \div s) * s + s
         /\ x >= s => (x \div s) * s > 0
<1>1. (x \div s) \in Int /\ x = s * (x \div s) + (x % s) /\ x % s \in 0..(s - 1)
  BY Z3
<1>2. (x \div s) * s = s * (x \div s)
  BY <1>1
<1> QED BY <1>1, <1>2

LEMMA StartOfSecond ==
  ASSUME NEW x \in Nat, NEW s \in Nat \ {0}
  PROVE  (x \div s) * s \in Nat
<1>1. (x \div s) \in Int /\ x = s * (x \div s) + (x % s) /\ x % s \in 0..(s - 1)
  BY Z3
<1>2. (x \div s) >= 0
  BY Z3
<1> QED BY <1>1, <1>2, Z3

\* The time an entry is stored until is never more than a second short of the
\* instant its TTL was computed for.
LEMMA CutToSeconds ==
  ASSUME TypeOK, NEW t \in Nat
  PROVE  /\ WholeSecondsUntil(t) \in Int
         /\ ~WithinASecond(t) => /\ WholeSecondsUntil(t) > 0
                                 /\ clock + WholeSecondsUntil(t) + Second >= t
<1>1. Second \in Nat \ {0}
  BY AuthorizationCodeConstants
<1>2. clock \in Nat /\ t - clock - 1 \in Int
  BY DEF TypeOK
<1>3. /\ WholeSecondsUntil(t) \in Int
      /\ t - clock - 1 < WholeSecondsUntil(t) + Second
      /\ t - clock - 1 >= Second => WholeSecondsUntil(t) > 0
  BY <1>1, <1>2, WholeSeconds DEF WholeSecondsUntil
<1> QED BY <1>1, <1>2, <1>3 DEF WithinASecond

LEMMA StoredUntilNat ==
  ASSUME NEW ttl \in Int, NEW now \in Nat
  PROVE  /\ StoredUntil(ttl, now) \in Nat
         /\ ttl > 0 => StoredUntil(ttl, now) = now + ttl
BY DEF StoredUntil, Never

\* An entry that lasts beyond the present is visible.
LEMMA LastingIsVisible ==
  ASSUME TypeOK, NEW e \in Entry, e.there, e.until > clock
  PROVE  Visible(e)
BY DEF Visible, Live, Entry, TypeOK

-----------------------------------------------------------------------------
(* Types *)

\* A handler under way has a request or a code, and holds assertions that exist.
Bound ==
  /\ \A d \in Redeemers : redeemer[d].pc # "idle" => redeemer[d].code \in Codes
  /\ \A c \in Callbacks :
       /\ callback[c].pc # "idle" => callback[c].req \in Requests
       /\ callback[c].given \subseteq assertions

LEMMA InitTypes == Init => TypeOK /\ Bound
BY AuthorizationCodeConstants
   DEF Init, TypeOK, Bound, Entry, NoEntry, Code, NoCodeYet, Callback, IdleCallback,
       Redeemer, IdleRedeemer

LEMMA RecordJTITypes ==
  ASSUME TypeOK, NEW a \in assertions, RecordJTI(a), Counts(a)
  PROVE  spent' \in [JTIs -> Entry] /\ spentInTime' \in [JTIs -> Nat]
<1>1. a.jti \in JTIs /\ a.until \in Nat
  BY DEF TypeOK, Assertion
<1>2. StoredUntil(WholeSecondsUntil(a.until), clock) \in Nat
  BY <1>1, CutToSeconds, StoredUntilNat DEF TypeOK
<1> DEFINE e == [there |-> TRUE, until |-> StoredUntil(WholeSecondsUntil(a.until), clock)]
<1>e. e \in Entry
  BY <1>2 DEF Entry
<1>t. spent \in [JTIs -> Entry]
  BY DEF TypeOK
<1>s. spent' = spent \/ spent' = [spent EXCEPT ![a.jti] = e]
  BY DEF RecordJTI
<1> HIDE DEF e
<1>3. spent' \in [JTIs -> Entry]
  BY <1>1, <1>e, <1>t, <1>s
<1>4. spentInTime' \in [JTIs -> Nat]
  BY <1>1 DEF Counts, TypeOK
<1> QED BY <1>3, <1>4

LEMMA MarksTypes ==
  ASSUME TypeOK, NEW k \in Codes, Marks(k)
  PROVE  marker' \in [Codes -> Entry] /\ unmarked' \subseteq Codes
<1>1. code[k].expiry \in Nat
  BY DEF TypeOK, Code
<1>2. MarkerTTL(k) \in Int
  BY <1>1, CutToSeconds, AuthorizationCodeConstants DEF MarkerTTL
<1>3. StoredUntil(MarkerTTL(k), clock) \in Nat
  BY <1>2, StoredUntilNat DEF TypeOK
<1> DEFINE e == [there |-> TRUE, until |-> StoredUntil(MarkerTTL(k), clock)]
<1>4. e \in Entry
  BY <1>3 DEF Entry
<1>5. marker \in [Codes -> Entry] /\ unmarked \subseteq Codes
  BY DEF TypeOK
<1>6. \/ marker' = [marker EXCEPT ![k] = e] /\ unmarked' = unmarked
      \/ marker' = marker /\ unmarked' = unmarked \cup {k}
  BY DEF Marks
<1> HIDE DEF e
<1> QED BY <1>4, <1>5, <1>6

LEMMA ConsumeTypes ==
  ASSUME TypeOK, NEW k \in Codes, Consume(k)
  PROVE  code' \in [Codes -> Code]
BY DEF Consume, TypeOK, Code

LEMMA GoToTypes ==
  ASSUME TypeOK, Bound, NEW d \in Redeemers, redeemer[d].pc # "idle",
         NEW pc \in {"take", "mark", "lookup", "revoke", "check", "issue"}, GoTo(d, pc)
  PROVE  /\ redeemer' \in [Redeemers -> Redeemer]
         /\ \A e \in Redeemers : redeemer'[e].pc # "idle" => redeemer'[e].code \in Codes
BY DEF GoTo, TypeOK, Bound, Redeemer

\* What a step of a token request does to its local state, and to no other's.
LEMMA GoToEffect ==
  ASSUME TypeOK, NEW d \in Redeemers, NEW pc, GoTo(d, pc)
  PROVE  /\ redeemer'[d].pc = pc /\ redeemer'[d].code = redeemer[d].code
         /\ \A e \in Redeemers \ {d} : redeemer'[e] = redeemer[e]
BY DEF GoTo, TypeOK, Redeemer

LEMMA EndEffect ==
  ASSUME TypeOK, NEW d \in Redeemers, redeemer' = [redeemer EXCEPT ![d] = IdleRedeemer]
  PROVE  /\ redeemer' \in [Redeemers -> Redeemer]
         /\ redeemer'[d].pc = "idle"
         /\ \A e \in Redeemers \ {d} : redeemer'[e] = redeemer[e]
BY DEF TypeOK, Redeemer, IdleRedeemer

LEMMA FlowTypes ==
  ASSUME TypeOK, Bound, NEW r \in Requests, AddRequest(r) \/ FlowEnds(r)
  PROVE  TypeOK' /\ Bound'
<1>1. CASE AddRequest(r)
  <2>1. StoredUntil(RequestValidity, clock) \in Nat
    BY AuthorizationCodeConstants, StoredUntilNat DEF TypeOK
  <2>2. [there |-> TRUE, until |-> StoredUntil(RequestValidity, clock)] \in Entry
    BY <2>1 DEF Entry
  <2>3. request' \in [Requests -> Entry]
    BY <1>1, <2>2 DEF AddRequest, TypeOK
  <2> QED BY <1>1, <2>3 DEF AddRequest, TypeOK, Bound, tokenVars
<1>2. CASE FlowEnds(r)
  <2>1. PICK j \in JTIs, e \in BOOLEAN :
          assertions' = assertions \cup
            {[jti |-> j, req |-> r, error |-> e,
              until |-> (clock \div Second) * Second + AssertionValidity]}
    BY <1>2 DEF FlowEnds
  <2>2. (clock \div Second) * Second + AssertionValidity \in Nat
    <3>1. clock \in Nat /\ Second \in Nat \ {0} /\ AssertionValidity \in Nat
      BY AuthorizationCodeConstants DEF TypeOK
    <3>2. (clock \div Second) * Second \in Nat
      BY <3>1, StartOfSecond
    <3> QED BY <3>1, <3>2
  <2>3. [jti |-> j, req |-> r, error |-> e,
         until |-> (clock \div Second) * Second + AssertionValidity] \in Assertion
    BY <2>2 DEF Assertion
  <2>4. assertions' \subseteq Assertion /\ assertions \subseteq assertions'
    BY <2>1, <2>3 DEF TypeOK
  <2> QED BY <1>2, <2>4 DEF FlowEnds, TypeOK, Bound, tokenVars
<1> QED BY <1>1, <1>2

LEMMA ExchangeTypes ==
  ASSUME TypeOK, Bound, NEW a \in assertions, Exchange(a)
  PROVE  TypeOK' /\ Bound'
<1>1. spent' \in [JTIs -> Entry] /\ spentInTime' \in [JTIs -> Nat]
  BY RecordJTITypes DEF Exchange
<1> QED BY <1>1 DEF Exchange, TypeOK, Bound, tokenVars

LEMMA CallbackTypes ==
  ASSUME TypeOK, Bound, NEW c \in Callbacks, CallbackStep(c)
  PROVE  TypeOK' /\ Bound'
<1>0. IdleCallback \in Callback /\ IdleCallback.pc = "idle" /\ IdleCallback.given = {}
  BY DEF IdleCallback, Callback
<1>c. callback \in [Callbacks -> Callback] /\ callback[c] \in Callback
  BY DEF TypeOK
\* A callback that ends keeps the types of its local state.
<1>i. ASSUME callback' = [callback EXCEPT ![c] = IdleCallback], UNCHANGED assertions,
             UNCHANGED redeemer
      PROVE  callback' \in [Callbacks -> Callback] /\ Bound'
  BY <1>0, <1>i, <1>c DEF Bound
<1>1. ASSUME NEW r \in Requests, NEW a \in assertions, CallbackLoad(c, r, a)
      PROVE  TypeOK' /\ Bound'
  <2> DEFINE new == [callback[c] EXCEPT !.pc = "clear", !.req = r, !.given = {a}]
  <2>1. new \in Callback /\ new.req = r /\ new.given = {a}
    BY <1>c DEF Callback, TypeOK
  <2>2. callback' = [callback EXCEPT ![c] = new]
    BY <1>1, <1>c DEF CallbackLoad
  <2> HIDE DEF new
  <2>3. callback' \in [Callbacks -> Callback]
    BY <1>c, <2>1, <2>2
  <2>4. Bound'
    BY <1>1, <1>c, <2>1, <2>2 DEF CallbackLoad, Bound, tokenVars
  <2> QED BY <1>1, <2>3, <2>4 DEF CallbackLoad, TypeOK, tokenVars
<1>2. CASE CallbackClear(c)
  <2>1. request' \in [Requests -> Entry]
    <3>1. PICK cleared \in BOOLEAN :
            request' = IF cleared THEN [request EXCEPT ![callback[c].req].there = FALSE]
                                  ELSE request
      BY <1>2 DEF CallbackClear
    <3>2. \A x \in Entry : [x EXCEPT !.there = FALSE] \in Entry
      BY DEF Entry
    <3>3. request \in [Requests -> Entry]
      BY DEF TypeOK
    <3>4. CASE cleared
      <4>1. request' = [request EXCEPT ![callback[c].req] = [request[callback[c].req] EXCEPT !.there = FALSE]]
        BY <3>1, <3>4
      <4> QED BY <3>2, <3>3, <4>1
    <3> QED BY <3>1, <3>3, <3>4
  <2>2. callback' \in [Callbacks -> Callback] /\ Bound'
    <3>1. CASE ~GoesOn(c)
      BY <1>2, <1>i, <3>1 DEF CallbackClear, tokenVars
    <3>2. CASE GoesOn(c)
      <4> DEFINE new == [callback[c] EXCEPT !.pc = "spend"]
      <4>1. new \in Callback /\ new.req = callback[c].req /\ new.given = callback[c].given
        BY <1>c DEF Callback
      <4>2. callback' = [callback EXCEPT ![c] = new]
        BY <1>2, <1>c, <3>2 DEF CallbackClear
      <4>3. callback[c].pc # "idle" /\ UNCHANGED <<assertions, redeemer>>
        BY <1>2 DEF CallbackClear, tokenVars
      <4> HIDE DEF new
      <4> QED BY <1>c, <4>1, <4>2, <4>3 DEF Bound
    <3> QED BY <3>1, <3>2
  <2> QED BY <1>2, <2>1, <2>2 DEF CallbackClear, TypeOK, tokenVars
<1>3. CASE CallbackSpend(c)
  <2>1. PICK a \in callback[c].given :
          RecordJTI(a) /\ Counts(a) /\ bound' = bound \cup {a.req}
    BY <1>3 DEF CallbackSpend
  <2>2. a \in assertions /\ a \in Assertion
    BY <2>1 DEF Bound, TypeOK
  <2>3. spent' \in [JTIs -> Entry] /\ spentInTime' \in [JTIs -> Nat]
    BY <2>1, <2>2, RecordJTITypes
  <2>4. bound' \subseteq Requests
    BY <2>1, <2>2 DEF TypeOK, Assertion
  <2> DEFINE new == [callback[c] EXCEPT !.pc = "insert", !.expiry = clock + CodeValidity]
  <2>5. clock + CodeValidity \in Nat
    BY AuthorizationCodeConstants DEF TypeOK
  <2>6. new \in Callback /\ new.req = callback[c].req /\ new.given = callback[c].given
    BY <1>c, <2>5 DEF Callback
  <2>7. /\ callback' = [callback EXCEPT ![c] = new]
        /\ callback[c].pc # "idle" /\ UNCHANGED <<assertions, redeemer>>
    BY <1>3, <1>c DEF CallbackSpend, tokenVars
  <2> HIDE DEF new
  <2>8. callback' \in [Callbacks -> Callback] /\ Bound'
    BY <1>c, <2>6, <2>7 DEF Bound
  <2> QED BY <1>3, <2>3, <2>4, <2>8 DEF CallbackSpend, TypeOK, tokenVars
<1>4. CASE CallbackInsert(c)
  <2>1. callback[c].expiry \in Nat /\ callback[c].req \in Requests \cup {NoRequest}
    BY <1>c DEF Callback
  <2>2. StoredUntil(WholeSecondsUntil(callback[c].expiry), clock) \in Nat
    BY <2>1, CutToSeconds, StoredUntilNat DEF TypeOK
  <2> DEFINE new == [state |-> "stored", req |-> callback[c].req,
                     expiry |-> callback[c].expiry,
                     until |-> StoredUntil(WholeSecondsUntil(callback[c].expiry), clock)]
  <2>3. new \in Code
    BY <2>1, <2>2 DEF Code
  <2>4. \E k \in Codes : code' = [code EXCEPT ![k] = new]
    BY <1>4 DEF CallbackInsert
  <2> HIDE DEF new
  <2>5. code' \in [Codes -> Code]
    BY <2>3, <2>4 DEF TypeOK
  <2>6. callback' \in [Callbacks -> Callback] /\ Bound'
    BY <1>4, <1>i DEF CallbackInsert, tokenVars
  <2> QED BY <1>4, <2>5, <2>6 DEF CallbackInsert, TypeOK, tokenVars
<1>5. CASE CallbackEnds(c)
  <2>1. callback' \in [Callbacks -> Callback] /\ Bound'
    BY <1>5, <1>i DEF CallbackEnds, tokenVars
  <2> QED BY <1>5, <2>1 DEF CallbackEnds, TypeOK, tokenVars
<1> QED BY <1>1, <1>2, <1>3, <1>4, <1>5 DEF CallbackStep

LEMMA RedeemerTypes ==
  ASSUME TypeOK, Bound, NEW d \in Redeemers, RedeemerStep(d)
  PROVE  TypeOK' /\ Bound'
<1>b. redeemer[d].pc # "idle" => redeemer[d].code \in Codes
  BY DEF Bound
<1> DEFINE B == \A e \in Redeemers : redeemer[e].pc # "idle" => redeemer[e].code \in Codes
<1>e. ASSUME redeemer' = [redeemer EXCEPT ![d] = IdleRedeemer]
      PROVE  redeemer' \in [Redeemers -> Redeemer] /\ B'
  BY <1>e, EndEffect DEF Bound
<1>1. ASSUME NEW k \in Codes, NEW own \in BOOLEAN, RedeemRead(d, k, own)
      PROVE  TypeOK' /\ Bound'
  <2> DEFINE new == [pc |-> IF Stored(k) /\ own THEN "take" ELSE "lookup", code |-> k]
  <2>1. new \in Redeemer /\ new.code = k
    BY DEF Redeemer
  <2>2. redeemer' = [redeemer EXCEPT ![d] = new]
    BY <1>1 DEF RedeemRead
  <2> HIDE DEF new
  <2>3. redeemer' \in [Redeemers -> Redeemer] /\ B'
    BY <2>1, <2>2 DEF TypeOK, Bound
  <2> QED BY <1>1, <2>3 DEF RedeemRead, TypeOK, Bound, flowVars
<1>2. CASE RedeemTransaction(d)
  <2>1. redeemer[d].code \in Codes /\ redeemer[d].pc # "idle"
    BY <1>2, <1>b DEF RedeemTransaction
  <2>2. redeemer' \in [Redeemers -> Redeemer] /\ B'
    BY <1>2, <2>1, GoToTypes DEF RedeemTransaction
  <2>3. /\ code' \in [Codes -> Code] /\ marker' \in [Codes -> Entry]
        /\ unmarked' \subseteq Codes
    BY <1>2, <2>1, MarksTypes, ConsumeTypes DEF RedeemTransaction, TypeOK
  <2> QED BY <1>2, <2>2, <2>3 DEF RedeemTransaction, TypeOK, Bound, flowVars
<1>3. CASE RedeemTake(d)
  <2>1. redeemer[d].code \in Codes /\ redeemer[d].pc # "idle"
    BY <1>3, <1>b DEF RedeemTake
  <2>2. redeemer' \in [Redeemers -> Redeemer] /\ B'
    BY <1>3, <2>1, GoToTypes DEF RedeemTake
  <2>3. code' \in [Codes -> Code]
    BY <1>3, <2>1, ConsumeTypes DEF RedeemTake, TypeOK
  <2> QED BY <1>3, <2>2, <2>3 DEF RedeemTake, TypeOK, Bound, flowVars
<1>4. CASE RedeemMark(d)
  <2>1. redeemer[d].code \in Codes /\ redeemer[d].pc # "idle"
    BY <1>4, <1>b DEF RedeemMark
  <2>2. redeemer' \in [Redeemers -> Redeemer] /\ B'
    BY <1>4, <2>1, GoToTypes DEF RedeemMark
  <2>3. marker' \in [Codes -> Entry] /\ unmarked' \subseteq Codes
    BY <1>4, <2>1, MarksTypes DEF RedeemMark
  <2> QED BY <1>4, <2>2, <2>3 DEF RedeemMark, TypeOK, Bound, flowVars
<1>5. CASE RedeemFails(d)
  <2>1. redeemer[d].code \in Codes /\ redeemer[d].pc # "idle"
    BY <1>5, <1>b DEF RedeemFails
  <2>2. redeemer' \in [Redeemers -> Redeemer] /\ B'
    BY <1>5, <2>1, GoToTypes DEF RedeemFails
  <2>3. /\ code' \in [Codes -> Code] /\ marker' \in [Codes -> Entry]
        /\ unmarked' \subseteq Codes
    BY <1>5, <2>1, MarksTypes, ConsumeTypes DEF RedeemFails, TypeOK
  <2> QED BY <1>5, <2>2, <2>3 DEF RedeemFails, TypeOK, Bound, flowVars
<1>6. CASE RedeemLookup(d)
  <2>1. redeemer[d].code \in Codes /\ redeemer[d].pc # "idle"
    BY <1>6, <1>b DEF RedeemLookup
  <2>2. redeemer' \in [Redeemers -> Redeemer] /\ B'
    BY <1>6, <1>e, <2>1, GoToTypes DEF RedeemLookup
  <2>3. replayed' \subseteq Codes
    BY <1>6, <2>1 DEF RedeemLookup, TypeOK
  <2> QED BY <1>6, <2>2, <2>3 DEF RedeemLookup, TypeOK, Bound, flowVars
<1>7. CASE RedeemRevoke(d)
  <2>1. redeemer[d].code \in Codes
    BY <1>7, <1>b DEF RedeemRevoke
  <2>2. redeemer' \in [Redeemers -> Redeemer] /\ B'
    BY <1>7, <1>e DEF RedeemRevoke
  <2>3. revoked' \subseteq Codes /\ replayed' \subseteq Codes
    BY <1>7, <2>1 DEF RedeemRevoke, TypeOK
  <2> QED BY <1>7, <2>2, <2>3 DEF RedeemRevoke, TypeOK, Bound, flowVars
<1>8. CASE RedeemCheck(d)
  <2>1. redeemer[d].pc # "idle"
    BY <1>8 DEF RedeemCheck
  <2>2. redeemer' \in [Redeemers -> Redeemer] /\ B'
    BY <1>8, <2>1, GoToTypes DEF RedeemCheck
  <2> QED BY <1>8, <2>2 DEF RedeemCheck, TypeOK, Bound, flowVars
<1>9. CASE RedeemIssue(d)
  <2>1. redeemer[d].code \in Codes
    BY <1>9, <1>b DEF RedeemIssue
  <2>2. redeemer' \in [Redeemers -> Redeemer] /\ B'
    BY <1>9, <1>e DEF RedeemIssue
  <2>3. issued' \in [Codes -> Nat]
    BY <1>9, <2>1 DEF RedeemIssue, TypeOK
  <2> QED BY <1>9, <2>2, <2>3 DEF RedeemIssue, TypeOK, Bound, flowVars
<1>10. CASE RedeemEnds(d)
  <2>1. redeemer' \in [Redeemers -> Redeemer] /\ B'
    BY <1>10, <1>e DEF RedeemEnds
  <2> QED BY <1>10, <2>1 DEF RedeemEnds, TypeOK, Bound, flowVars
<1> QED BY <1>1, <1>2, <1>3, <1>4, <1>5, <1>6, <1>7, <1>8, <1>9, <1>10 DEF RedeemerStep

LEMMA NextTypes == TypeOK /\ Bound /\ [Next]_vars => TypeOK' /\ Bound'
<1> SUFFICES ASSUME TypeOK, Bound, [Next]_vars
             PROVE  TypeOK' /\ Bound'
  OBVIOUS
<1>1. CASE Tick
  BY <1>1 DEF Tick, TypeOK, Bound, flowVars, tokenVars
<1>2. ASSUME NEW r \in Requests, AddRequest(r) \/ FlowEnds(r)
      PROVE  TypeOK' /\ Bound'
  BY <1>2, FlowTypes
<1>3. ASSUME NEW a \in assertions, Exchange(a)
      PROVE  TypeOK' /\ Bound'
  BY <1>3, ExchangeTypes
<1>4. ASSUME NEW c \in Callbacks, CallbackStep(c)
      PROVE  TypeOK' /\ Bound'
  BY <1>4, CallbackTypes
<1>5. ASSUME NEW d \in Redeemers, RedeemerStep(d)
      PROVE  TypeOK' /\ Bound'
  BY <1>5, RedeemerTypes
<1>6. CASE UNCHANGED vars
  BY <1>6 DEF vars, TypeOK, Bound, flowVars, tokenVars
<1> QED BY <1>1, <1>2, <1>3, <1>4, <1>5, <1>6 DEF Next

\* The state keeps its types, and every handler under way has the request or the
\* code it works on.
THEOREM TypesHold == Spec => [](TypeOK /\ Bound)
BY InitTypes, NextTypes, PTL DEF Spec

-----------------------------------------------------------------------------
(* A code is redeemed once *)

\* A token request that took its code out of the store and has not answered yet.
Holds(d) == redeemer[d].pc \in {"mark", "check", "issue"}

\* A code that is held is gone from the store, is held by one token request and has
\* given no tokens; a code that gave tokens gave them once and is gone.
CodesInv ==
  /\ \A d \in Redeemers :
       Holds(d) => /\ code[redeemer[d].code].state = "consumed"
                   /\ issued[redeemer[d].code] = 0
  /\ \A d, e \in Redeemers :
       Holds(d) /\ Holds(e) /\ redeemer[d].code = redeemer[e].code => d = e
  /\ \A k \in Codes : issued[k] # 0 => issued[k] = 1 /\ code[k].state = "consumed"

\* A token request goes on, or ends, with the code it held before.
LEMMA HoldsOn ==
  ASSUME TypeOK, CodesInv, NEW d \in Redeemers,
         \A e \in Redeemers \ {d} : redeemer'[e] = redeemer[e],
         \/ redeemer'[d].pc \notin {"mark", "check", "issue"}
         \/ Holds(d) /\ redeemer'[d].code = redeemer[d].code,
         UNCHANGED <<code, issued>>
  PROVE  CodesInv'
<1>1. \A e \in Redeemers : Holds(e)' => Holds(e) /\ redeemer'[e].code = redeemer[e].code
  BY DEF Holds
<1> QED BY <1>1 DEF CodesInv

\* Taking a code out of the store.
LEMMA ConsumeHolds ==
  ASSUME TypeOK, Bound, CodesInv, NEW d \in Redeemers,
         redeemer[d].code \in Codes, code[redeemer[d].code].state = "stored",
         Consume(redeemer[d].code), UNCHANGED issued,
         redeemer'[d].code = redeemer[d].code,
         \A e \in Redeemers \ {d} : redeemer'[e] = redeemer[e]
  PROVE  CodesInv'
<1> DEFINE k == redeemer[d].code
<1>1. /\ code'[k].state = "consumed"
      /\ \A l \in Codes \ {k} : code'[l] = code[l]
  BY DEF Consume, TypeOK, Code
<1>2. issued[k] = 0
  BY DEF CodesInv
<1>3. \A e \in Redeemers : Holds(e) => redeemer[e].code # k /\ redeemer[e].code \in Codes
  BY DEF CodesInv, Holds, Bound
<1>4. \A e \in Redeemers \ {d} :
        /\ Holds(e)' => Holds(e)
        /\ redeemer'[e].code = redeemer[e].code
  BY DEF Holds
<1> HIDE DEF k
<1>5. redeemer'[d].code = k
  BY DEF k
<1>6. \A e \in Redeemers : Holds(e)' =>
        /\ code'[redeemer'[e].code].state = "consumed" /\ issued'[redeemer'[e].code] = 0
  BY <1>1, <1>2, <1>3, <1>4, <1>5 DEF CodesInv
<1>7. \A e, f \in Redeemers :
        Holds(e)' /\ Holds(f)' /\ redeemer'[e].code = redeemer'[f].code => e = f
  BY <1>3, <1>4, <1>5 DEF CodesInv
<1>8. \A l \in Codes : issued'[l] # 0 => issued'[l] = 1 /\ code'[l].state = "consumed"
  BY <1>1 DEF CodesInv
<1> QED BY <1>6, <1>7, <1>8 DEF CodesInv

LEMMA RedeemerCodes ==
  ASSUME TypeOK, Bound, CodesInv, NEW d \in Redeemers, RedeemerStep(d)
  PROVE  CodesInv'
<1> USE DEF Holds
<1>b. redeemer[d].pc # "idle" => redeemer[d].code \in Codes
  BY DEF Bound
<1>1. ASSUME NEW k \in Codes, NEW own \in BOOLEAN, RedeemRead(d, k, own)
      PROVE  CodesInv'
  <2>1. /\ redeemer'[d].pc \notin {"mark", "check", "issue"}
        /\ \A e \in Redeemers \ {d} : redeemer'[e] = redeemer[e]
    BY <1>1 DEF RedeemRead, TypeOK
  <2> QED BY <1>1, <2>1, HoldsOn DEF RedeemRead
<1>2. CASE RedeemTransaction(d)
  <2>1. CASE Takes(redeemer[d].code)
    BY <1>2, <1>b, <2>1, GoToEffect, ConsumeHolds DEF RedeemTransaction, Takes, Stored
  <2>2. CASE ~Takes(redeemer[d].code)
    BY <1>2, <2>2, GoToEffect, HoldsOn DEF RedeemTransaction
  <2> QED BY <2>1, <2>2
<1>3. CASE RedeemTake(d)
  <2>1. CASE Takes(redeemer[d].code)
    BY <1>3, <1>b, <2>1, GoToEffect, ConsumeHolds DEF RedeemTake, Takes, Stored
  <2>2. CASE ~Takes(redeemer[d].code)
    BY <1>3, <2>2, GoToEffect, HoldsOn DEF RedeemTake
  <2> QED BY <2>1, <2>2
<1>4. CASE RedeemMark(d)
  BY <1>4, GoToEffect, HoldsOn DEF RedeemMark
<1>5. CASE RedeemFails(d)
  <2>1. CASE UNCHANGED code
    BY <1>5, <2>1, GoToEffect, HoldsOn DEF RedeemFails
  <2>2. CASE Takes(redeemer[d].code) /\ Consume(redeemer[d].code)
    BY <1>5, <1>b, <2>2, GoToEffect, ConsumeHolds DEF RedeemFails, Takes, Stored
  <2> QED BY <1>5, <2>1, <2>2 DEF RedeemFails
<1>6. CASE RedeemLookup(d)
  BY <1>6, GoToEffect, EndEffect, HoldsOn DEF RedeemLookup
<1>7. CASE RedeemRevoke(d)
  BY <1>7, EndEffect, HoldsOn DEF RedeemRevoke
<1>8. CASE RedeemCheck(d)
  BY <1>8, GoToEffect, HoldsOn DEF RedeemCheck
<1>9. CASE RedeemIssue(d)
  <2> DEFINE k == redeemer[d].code
  <2>1. Holds(d) /\ k \in Codes /\ code[k].state = "consumed" /\ issued[k] = 0
    BY <1>9, <1>b DEF RedeemIssue, CodesInv
  <2>2. /\ issued'[k] = 1 /\ \A l \in Codes \ {k} : issued'[l] = issued[l]
        /\ UNCHANGED code
    BY <1>9, <2>1 DEF RedeemIssue, TypeOK
  <2>3. \A e \in Redeemers : Holds(e)' =>
          e # d /\ Holds(e) /\ redeemer'[e] = redeemer[e]
    BY <1>9, EndEffect DEF RedeemIssue
  <2>4. \A e \in Redeemers : Holds(e)' => redeemer[e].code # k /\ redeemer[e].code \in Codes
    BY <2>1, <2>3 DEF CodesInv, Bound
  <2> HIDE DEF k
  <2> QED BY <2>1, <2>2, <2>3, <2>4 DEF CodesInv
<1>10. CASE RedeemEnds(d)
  BY <1>10, EndEffect, HoldsOn DEF RedeemEnds
<1> QED BY <1>1, <1>2, <1>3, <1>4, <1>5, <1>6, <1>7, <1>8, <1>9, <1>10 DEF RedeemerStep

\* A fresh code disturbs no other.
LEMMA InsertCodes ==
  ASSUME TypeOK, Bound, CodesInv, NEW c \in Callbacks, CallbackInsert(c)
  PROVE  CodesInv'
<1>1. PICK k \in Codes : /\ code[k].state = "none"
                         /\ \A l \in Codes \ {k} : code'[l] = code[l]
  BY DEF CallbackInsert, TypeOK
<1>2. UNCHANGED <<redeemer, issued>>
  BY DEF CallbackInsert, tokenVars
<1>3. \A e \in Redeemers : Holds(e) => redeemer[e].code \in Codes
  BY DEF Holds, Bound
<1> QED BY <1>1, <1>2, <1>3 DEF CodesInv, Holds

LEMMA NextCodes == TypeOK /\ Bound /\ CodesInv /\ [Next]_vars => CodesInv'
<1> SUFFICES ASSUME TypeOK, Bound, CodesInv, [Next]_vars
             PROVE  CodesInv'
  OBVIOUS
<1>1. CASE UNCHANGED <<code, redeemer, issued>>
  BY <1>1 DEF CodesInv, Holds
<1>2. ASSUME NEW c \in Callbacks, CallbackStep(c)
      PROVE  CodesInv'
  BY <1>1, <1>2, InsertCodes
     DEF CallbackStep, CallbackLoad, CallbackClear, CallbackSpend, CallbackEnds, tokenVars
<1>3. ASSUME NEW d \in Redeemers, RedeemerStep(d)
      PROVE  CodesInv'
  BY <1>3, RedeemerCodes
<1>4. ASSUME NEW r \in Requests, AddRequest(r) \/ FlowEnds(r)
      PROVE  CodesInv'
  BY <1>1, <1>4 DEF AddRequest, FlowEnds, tokenVars
<1> QED BY <1>1, <1>2, <1>3, <1>4 DEF Next, Tick, Exchange, vars, tokenVars

\* However many token requests present an authorization code at the same time, in
\* either store and whatever fails, tokens are returned for it at most once
\* (ConsumeAuthorizationCode).
THEOREM CodeOnce == Spec => []CodeRedeemedOnce
<1>1. Init => CodesInv
  BY DEF Init, CodesInv, Holds, IdleRedeemer
<1>2. TypeOK /\ CodesInv => CodeRedeemedOnce
  BY DEF TypeOK, CodesInv, CodeRedeemedOnce
<1> QED BY <1>1, <1>2, NextCodes, TypesHold, PTL DEF Spec

-----------------------------------------------------------------------------
(* An assertion is accepted once *)

\* jtis are not given twice.  A jti that was accepted in time belongs to an
\* assertion, and its replay entry lasts until the last second of that assertion.
SpentInv ==
  /\ \A a, b \in assertions : a.jti = b.jti => a = b
  /\ \A j \in JTIs : spentInTime[j] # 0 =>
       /\ spentInTime[j] = 1
       /\ \E a \in assertions : a.jti = j
  /\ \A a \in assertions : spentInTime[a.jti] # 0 =>
       spent[a.jti].there /\ spent[a.jti].until + Second >= a.until

LEMMA RecordSpends ==
  ASSUME TypeOK, SpentInv, NEW a \in assertions, RecordJTI(a), Counts(a),
         UNCHANGED assertions
  PROVE  SpentInv'
<1>1. a.jti \in JTIs /\ a.until \in Nat /\ clock \in Nat /\ Second \in Nat \ {0}
  BY AuthorizationCodeConstants DEF TypeOK, Assertion
<1>2. CASE WithinASecond(a.until)
  BY <1>2 DEF RecordJTI, Counts, SpentInv
<1>3. CASE ~WithinASecond(a.until)
  <2>1. spentInTime[a.jti] = 0
    <3> SUFFICES ASSUME spentInTime[a.jti] # 0 PROVE FALSE
      OBVIOUS
    <3>1. spent[a.jti] \in Entry
      BY <1>1 DEF TypeOK
    <3>2. spent[a.jti].there /\ spent[a.jti].until > clock
      BY <1>1, <1>3, <3>1 DEF SpentInv, WithinASecond, Entry
    <3>3. ~Visible(spent[a.jti])
      BY <1>3 DEF RecordJTI
    <3> QED BY <3>1, <3>2, <3>3, LastingIsVisible
  <2> DEFINE u == StoredUntil(WholeSecondsUntil(a.until), clock)
  <2>2. u \in Nat /\ u + Second >= a.until
    BY <1>1, <1>3, CutToSeconds, StoredUntilNat
  <2>3. /\ spent'[a.jti] = [there |-> TRUE, until |-> u]
        /\ \A j \in JTIs \ {a.jti} : spent'[j] = spent[j]
    BY <1>1, <1>3 DEF RecordJTI, TypeOK
  <2>4. /\ spentInTime'[a.jti] = 1
        /\ \A j \in JTIs \ {a.jti} : spentInTime'[j] = spentInTime[j]
    BY <1>1, <1>3, <2>1 DEF Counts, TypeOK
  <2>5. \A b \in assertions : b.jti \in JTIs
    BY DEF TypeOK, Assertion
  <2> HIDE DEF u
  <2>6. \A b \in assertions : spentInTime'[b.jti] # 0 =>
          spent'[b.jti].there /\ spent'[b.jti].until + Second >= b.until
    <3> TAKE b \in assertions
    <3>1. CASE b.jti = a.jti
      <4>1. b = a
        BY <3>1 DEF SpentInv
      <4> QED BY <4>1, <2>2, <2>3
    <3>2. CASE b.jti # a.jti
      BY <3>2, <2>3, <2>4, <2>5 DEF SpentInv
    <3> QED BY <3>1, <3>2
  <2>7. \A j \in JTIs : spentInTime'[j] # 0 =>
          spentInTime'[j] = 1 /\ \E b \in assertions : b.jti = j
    BY <2>4 DEF SpentInv
  <2> QED BY <2>6, <2>7 DEF SpentInv
<1> QED BY <1>2, <1>3

\* A fresh jti was never accepted.
LEMMA FlowSpends ==
  ASSUME TypeOK, SpentInv, NEW r \in Requests, FlowEnds(r)
  PROVE  SpentInv'
<1>1. PICK j \in JTIs \ {a.jti : a \in assertions}, e \in BOOLEAN :
        assertions' = assertions \cup
          {[jti |-> j, req |-> r, error |-> e,
            until |-> (clock \div Second) * Second + AssertionValidity]}
  BY DEF FlowEnds
<1> DEFINE new == [jti |-> j, req |-> r, error |-> e,
                   until |-> (clock \div Second) * Second + AssertionValidity]
<1>2. assertions' = assertions \cup {new} /\ new.jti = j
  BY <1>1
<1>3. \A a \in assertions : a.jti # j
  BY <1>1
<1>4. UNCHANGED <<spent, spentInTime>>
  BY DEF FlowEnds
<1>5. spentInTime[j] = 0
  BY <1>1, <1>3 DEF SpentInv
<1> HIDE DEF new
<1> QED BY <1>2, <1>3, <1>4, <1>5 DEF SpentInv

LEMMA NextSpent == TypeOK /\ Bound /\ SpentInv /\ [Next]_vars => SpentInv'
<1> SUFFICES ASSUME TypeOK, Bound, SpentInv, [Next]_vars
             PROVE  SpentInv'
  OBVIOUS
<1>1. CASE UNCHANGED <<assertions, spent, spentInTime>>
  BY <1>1 DEF SpentInv
<1>2. ASSUME NEW c \in Callbacks, CallbackStep(c)
      PROVE  SpentInv'
  <2>1. CASE CallbackSpend(c)
    <3>1. PICK a \in callback[c].given : RecordJTI(a) /\ Counts(a)
      BY <2>1 DEF CallbackSpend
    <3>2. a \in assertions
      BY <1>2, <3>1 DEF Bound
    <3> QED BY <2>1, <3>1, <3>2, RecordSpends DEF CallbackSpend
  <2> QED
    BY <1>1, <1>2, <2>1
       DEF CallbackStep, CallbackLoad, CallbackClear, CallbackInsert, CallbackEnds
<1>3. ASSUME NEW a \in assertions, Exchange(a)
      PROVE  SpentInv'
  BY <1>3, RecordSpends DEF Exchange
<1>4. ASSUME NEW r \in Requests, AddRequest(r) \/ FlowEnds(r)
      PROVE  SpentInv'
  BY <1>1, <1>4, FlowSpends DEF AddRequest
<1>5. ASSUME NEW d \in Redeemers, RedeemerStep(d)
      PROVE  SpentInv'
  BY <1>1, <1>5 DEF RedeemerStep, RedeemRead, RedeemTransaction, RedeemTake, RedeemMark,
     RedeemFails, RedeemLookup, RedeemRevoke, RedeemCheck, RedeemIssue, RedeemEnds, flowVars
<1> QED BY <1>1, <1>2, <1>3, <1>4, <1>5 DEF Next, Tick, vars, flowVars

\* The callback and the token endpoint together accept an assertion at most once
\* before its last second, although nothing but the replay entry keeps two
\* callbacks that loaded the same request apart (ConsumeAuthAssertion, RecordJTI).
THEOREM AssertionOnce == Spec => []AssertionSpentOnce
<1>1. Init => SpentInv
  BY DEF Init, SpentInv
<1>2. TypeOK /\ SpentInv => AssertionSpentOnce
  BY DEF TypeOK, SpentInv, AssertionSpentOnce
<1> QED BY <1>1, <1>2, NextSpent, TypesHold, PTL DEF Spec

-----------------------------------------------------------------------------
(* With the SQL store, a replay in time revokes *)

\* No token request is between taking a code and marking it; the marker of a
\* consumed code lasts until the last second of the code; and every replay that
\* came in time revoked, unless the marker could not be written.
MarkInv ==
  store = "db" =>
    /\ \A d \in Redeemers : redeemer[d].pc # "mark"
    /\ \A k \in Codes :
         code[k].state = "consumed" /\ k \notin unmarked =>
           marker[k].there /\ marker[k].until + Second >= code[k].expiry
    /\ OnCodeReplay => replayed \subseteq revoked \cup unmarked

\* A code that is consumed and marked in one step.
LEMMA ConsumeMarks ==
  ASSUME TypeOK, MarkInv, NEW k \in Codes, Consume(k), Marks(k), store = "db"
  PROVE  /\ \A l \in Codes :
              code'[l].state = "consumed" /\ l \notin unmarked' =>
                marker'[l].there /\ marker'[l].until + Second >= code'[l].expiry
         /\ unmarked \subseteq unmarked'
<1>1. code[k].expiry \in Nat /\ clock \in Nat /\ Second \in Nat \ {0}
  BY AuthorizationCodeConstants DEF TypeOK, Code
<1> DEFINE u == StoredUntil(MarkerTTL(k), clock)
<1>2. u + Second >= code[k].expiry
  <2>1. CASE WithinASecond(code[k].expiry)
    <3>1. u = clock + Second
      BY <1>1, <2>1, StoredUntilNat DEF MarkerTTL
    <3> QED BY <1>1, <2>1, <3>1 DEF WithinASecond
  <2>2. CASE ~WithinASecond(code[k].expiry)
    BY <1>1, <2>2, CutToSeconds, StoredUntilNat DEF MarkerTTL
  <2> QED BY <2>1, <2>2
<1>3. /\ code'[k].expiry = code[k].expiry
      /\ \A l \in Codes \ {k} : code'[l] = code[l]
  BY DEF Consume, TypeOK, Code
<1>4. \/ /\ marker'[k] = [there |-> TRUE, until |-> u]
         /\ \A l \in Codes \ {k} : marker'[l] = marker[l]
         /\ unmarked' = unmarked
      \/ marker' = marker /\ unmarked' = unmarked \cup {k}
  BY DEF Marks, TypeOK
<1> HIDE DEF u
<1> QED BY <1>2, <1>3, <1>4 DEF MarkInv

\* A lookup that finds no marker, in time, is one of a code that was not marked.
LEMMA MissedIsUnmarked ==
  ASSUME TypeOK, MarkInv, NEW k \in Codes, store = "db", InTime(k), ~Visible(marker[k])
  PROVE  k \in unmarked
<1> SUFFICES ASSUME k \notin unmarked PROVE FALSE
  OBVIOUS
<1>1. code[k].expiry \in Nat /\ clock \in Nat /\ Second \in Nat \ {0} /\ marker[k] \in Entry
  BY AuthorizationCodeConstants DEF TypeOK, Code
<1>2. marker[k].there /\ marker[k].until > clock
  BY <1>1 DEF MarkInv, InTime, WithinASecond, Entry
<1> QED BY <1>1, <1>2, LastingIsVisible

LEMMA RedeemerMarks ==
  ASSUME TypeOK, Bound, MarkInv, NEW d \in Redeemers, RedeemerStep(d)
  PROVE  MarkInv'
<1> SUFFICES ASSUME store' = "db" PROVE MarkInv'
  BY DEF MarkInv
<1>0. store = "db"
  BY DEF RedeemerStep, RedeemRead, RedeemTransaction, RedeemTake, RedeemMark,
     RedeemFails, RedeemLookup, RedeemRevoke, RedeemCheck, RedeemIssue, RedeemEnds
<1>b. redeemer[d].pc # "idle" => redeemer[d].code \in Codes
  BY DEF Bound
\* Steps that leave the codes and their markers alone.
<1>u. ASSUME UNCHANGED <<code, marker, unmarked, revoked, replayed>>,
             redeemer'[d].pc # "mark",
             \A e \in Redeemers \ {d} : redeemer'[e] = redeemer[e]
      PROVE  MarkInv'
  BY <1>0, <1>u DEF MarkInv
\* Steps that consume a code.
<1>c. ASSUME Consume(redeemer[d].code), Marks(redeemer[d].code), redeemer[d].code \in Codes,
             UNCHANGED <<revoked, replayed>>, redeemer'[d].pc # "mark",
             \A e \in Redeemers \ {d} : redeemer'[e] = redeemer[e]
      PROVE  MarkInv'
  <2>1. /\ \A l \in Codes :
             code'[l].state = "consumed" /\ l \notin unmarked' =>
               marker'[l].there /\ marker'[l].until + Second >= code'[l].expiry
        /\ unmarked \subseteq unmarked'
    BY <1>0, <1>c, ConsumeMarks
  <2> QED BY <1>0, <1>c, <2>1 DEF MarkInv
<1>1. ASSUME NEW k \in Codes, NEW own \in BOOLEAN, RedeemRead(d, k, own)
      PROVE  MarkInv'
  <2>1. /\ redeemer'[d].pc # "mark"
        /\ \A e \in Redeemers \ {d} : redeemer'[e] = redeemer[e]
    BY <1>1 DEF RedeemRead, TypeOK
  <2> QED BY <1>1, <1>u, <2>1 DEF RedeemRead
<1>2. CASE RedeemTransaction(d)
  <2>1. CASE Takes(redeemer[d].code)
    BY <1>2, <1>b, <1>c, <2>1, GoToEffect DEF RedeemTransaction
  <2>2. CASE ~Takes(redeemer[d].code)
    BY <1>2, <1>u, <2>2, GoToEffect DEF RedeemTransaction
  <2> QED BY <2>1, <2>2
<1>3. CASE RedeemTake(d)
  BY <1>0, <1>3 DEF RedeemTake
<1>4. CASE RedeemMark(d)
  BY <1>0, <1>4 DEF RedeemMark, MarkInv
<1>5. CASE RedeemFails(d)
  <2>1. CASE UNCHANGED <<code, marker, unmarked>>
    BY <1>5, <1>u, <2>1, GoToEffect DEF RedeemFails
  <2>2. CASE Consume(redeemer[d].code) /\ Marks(redeemer[d].code)
    BY <1>5, <1>b, <1>c, <2>2, GoToEffect DEF RedeemFails
  <2> QED BY <1>0, <1>5, <2>1, <2>2 DEF RedeemFails
<1>6. CASE RedeemLookup(d)
  <2> DEFINE k == redeemer[d].code
  <2>1. k \in Codes
    BY <1>6, <1>b DEF RedeemLookup
  <2>2. CASE OnCodeReplay /\ Visible(marker[k])
    BY <1>6, <1>u, <2>2, GoToEffect DEF RedeemLookup
  <2>3. CASE ~(OnCodeReplay /\ Visible(marker[k]))
    <3>1. OnCodeReplay => replayed' \subseteq revoked \cup unmarked
      BY <1>0, <1>6, <2>1, <2>3, MissedIsUnmarked DEF RedeemLookup, MarkInv
    <3>2. /\ redeemer'[d].pc # "mark"
          /\ \A e \in Redeemers \ {d} : redeemer'[e] = redeemer[e]
      BY <1>6, <2>3, EndEffect DEF RedeemLookup
    <3> QED BY <1>0, <1>6, <3>1, <3>2 DEF RedeemLookup, MarkInv
  <2> QED BY <2>2, <2>3
<1>7. CASE RedeemRevoke(d)
  <2>1. /\ redeemer'[d].pc # "mark"
        /\ \A e \in Redeemers \ {d} : redeemer'[e] = redeemer[e]
    BY <1>7, EndEffect DEF RedeemRevoke
  <2> QED BY <1>0, <1>7, <2>1 DEF RedeemRevoke, MarkInv
<1>8. CASE RedeemCheck(d)
  BY <1>8, <1>u, GoToEffect DEF RedeemCheck
<1>9. CASE RedeemIssue(d)
  BY <1>9, <1>u, EndEffect DEF RedeemIssue
<1>10. CASE RedeemEnds(d)
  BY <1>10, <1>u, EndEffect DEF RedeemEnds
<1> QED BY <1>1, <1>2, <1>3, <1>4, <1>5, <1>6, <1>7, <1>8, <1>9, <1>10 DEF RedeemerStep

LEMMA InsertMarks ==
  ASSUME TypeOK, MarkInv, NEW c \in Callbacks, CallbackInsert(c)
  PROVE  MarkInv'
<1>1. \A k \in Codes : code'[k] = code[k] \/ code'[k].state = "stored"
  BY DEF CallbackInsert, TypeOK
<1>2. UNCHANGED <<store, marker, redeemer, revoked, unmarked, replayed>>
  BY DEF CallbackInsert, tokenVars
<1> QED BY <1>1, <1>2 DEF MarkInv

LEMMA NextMarks == TypeOK /\ Bound /\ MarkInv /\ [Next]_vars => MarkInv'
<1> SUFFICES ASSUME TypeOK, Bound, MarkInv, [Next]_vars
             PROVE  MarkInv'
  OBVIOUS
<1>1. CASE UNCHANGED <<store, code, tokenVars>>
  BY <1>1 DEF MarkInv, tokenVars
<1>2. ASSUME NEW c \in Callbacks, CallbackStep(c)
      PROVE  MarkInv'
  BY <1>1, <1>2, InsertMarks
     DEF CallbackStep, CallbackLoad, CallbackClear, CallbackSpend, CallbackEnds
<1>3. ASSUME NEW d \in Redeemers, RedeemerStep(d)
      PROVE  MarkInv'
  BY <1>3, RedeemerMarks
<1>4. ASSUME NEW r \in Requests, AddRequest(r) \/ FlowEnds(r)
      PROVE  MarkInv'
  BY <1>1, <1>4 DEF AddRequest, FlowEnds
<1> QED BY <1>1, <1>2, <1>3, <1>4 DEF Next, Tick, Exchange, vars

\* Where the code and its marker change hands in one transaction, no replay that
\* comes in time passes without the revocation of the token family, whatever the
\* lifetimes and however requests interleave (GetAuthorizationCodeDetails).
THEOREM ReplayRevokesWithSQL == Spec => []ReplayRevokesOnSQL
<1>1. Init => MarkInv
  BY DEF Init, MarkInv, NoCodeYet, IdleRedeemer
<1>2. MarkInv => ReplayRevokesOnSQL
  BY DEF MarkInv, ReplayRevokesOnSQL, ReplayRevokes
<1> QED BY <1>1, <1>2, NextMarks, TypesHold, PTL DEF Spec

-----------------------------------------------------------------------------
(* A code belongs to the flow of its request *)

\* A callback under way holds one assertion; past the check of its binding this is
\* a success of the callback's own request, and once it was spent the request is
\* bound.
FlowInv ==
  /\ \A c \in Callbacks : callback[c].pc # "idle" =>
       \E a \in assertions :
         /\ callback[c].given = {a}
         /\ callback[c].pc \in {"spend", "insert"} => ~a.error /\ a.req = callback[c].req
         /\ callback[c].pc = "insert" => a.req \in bound
  /\ CodesBelongToFlow

\* A larger set of assertions and of bound requests keeps what the others hold.
LEMMA FlowGrows ==
  ASSUME FlowInv, NEW c, assertions \subseteq assertions', bound \subseteq bound',
         \A e \in Callbacks \ {c} : callback'[e] = callback[e]
  PROVE  /\ \A e \in Callbacks \ {c} : callback'[e].pc # "idle" =>
              \E a \in assertions' :
                /\ callback'[e].given = {a}
                /\ callback'[e].pc \in {"spend", "insert"} =>
                     ~a.error /\ a.req = callback'[e].req
                /\ callback'[e].pc = "insert" => a.req \in bound'
         /\ UNCHANGED code => CodesBelongToFlow'
<1>1. ASSUME NEW e \in Callbacks \ {c}, callback'[e].pc # "idle"
      PROVE  \E a \in assertions' :
                /\ callback'[e].given = {a}
                /\ callback'[e].pc \in {"spend", "insert"} =>
                     ~a.error /\ a.req = callback'[e].req
                /\ callback'[e].pc = "insert" => a.req \in bound'
  BY <1>1 DEF FlowInv
<1>2. UNCHANGED code => CodesBelongToFlow'
  BY DEF FlowInv, CodesBelongToFlow
<1> QED BY <1>1, <1>2

LEMMA CallbackFlow ==
  ASSUME TypeOK, Bound, FlowInv, NEW c \in Callbacks, CallbackStep(c)
  PROVE  FlowInv'
<1>c. callback \in [Callbacks -> Callback] /\ callback[c] \in Callback
  BY DEF TypeOK
\* What is left to show where the step is one of c.
<1>s. ASSUME UNCHANGED <<assertions, code>>, bound \subseteq bound',
             \A e \in Callbacks \ {c} : callback'[e] = callback[e],
             callback'[c].pc # "idle" =>
               \E a \in assertions :
                 /\ callback'[c].given = {a}
                 /\ callback'[c].pc \in {"spend", "insert"} =>
                      ~a.error /\ a.req = callback'[c].req
                 /\ callback'[c].pc = "insert" => a.req \in bound'
      PROVE  FlowInv'
  BY <1>s, FlowGrows DEF FlowInv
<1>1. ASSUME NEW r \in Requests, NEW a \in assertions, CallbackLoad(c, r, a)
      PROVE  FlowInv'
  <2>1. /\ callback'[c].pc = "clear" /\ callback'[c].given = {a}
        /\ \A e \in Callbacks \ {c} : callback'[e] = callback[e]
    BY <1>1, <1>c DEF CallbackLoad, Callback
  <2> QED BY <1>1, <1>s, <2>1 DEF CallbackLoad
<1>2. CASE CallbackClear(c)
  <2>1. \A e \in Callbacks \ {c} : callback'[e] = callback[e]
    BY <1>2, <1>c DEF CallbackClear
  <2>2. CASE GoesOn(c)
    <3>1. /\ callback'[c].pc = "spend" /\ callback'[c].given = callback[c].given
          /\ callback'[c].req = callback[c].req
      BY <1>2, <1>c, <2>2 DEF CallbackClear, Callback
    <3>2. \E a \in assertions :
            callback[c].given = {a} /\ ~a.error /\ a.req = callback[c].req
      BY <1>2, <2>2 DEF CallbackClear, FlowInv, GoesOn
    <3> QED BY <1>2, <1>s, <2>1, <3>1, <3>2 DEF CallbackClear
  <2>3. CASE ~GoesOn(c)
    <3>1. callback'[c].pc = "idle"
      BY <1>2, <1>c, <2>3 DEF CallbackClear, IdleCallback
    <3> QED BY <1>2, <1>s, <2>1, <3>1 DEF CallbackClear
  <2> QED BY <2>2, <2>3
<1>3. CASE CallbackSpend(c)
  <2>1. PICK a \in callback[c].given : bound' = bound \cup {a.req}
    BY <1>3 DEF CallbackSpend
  <2>2. /\ a \in assertions /\ callback[c].given = {a}
        /\ ~a.error /\ a.req = callback[c].req
    BY <1>3, <2>1 DEF CallbackSpend, FlowInv
  <2>3. /\ callback'[c].pc = "insert" /\ callback'[c].given = callback[c].given
        /\ callback'[c].req = callback[c].req
        /\ \A e \in Callbacks \ {c} : callback'[e] = callback[e]
    BY <1>3, <1>c DEF CallbackSpend, Callback
  <2> QED BY <1>3, <1>s, <2>1, <2>2, <2>3 DEF CallbackSpend
<1>4. CASE CallbackInsert(c)
  <2>1. PICK k \in Codes :
          code' = [code EXCEPT ![k] =
            [state |-> "stored", req |-> callback[c].req, expiry |-> callback[c].expiry,
             until |-> StoredUntil(WholeSecondsUntil(callback[c].expiry), clock)]]
    BY <1>4 DEF CallbackInsert
  <2>2. /\ code'[k].req = callback[c].req
        /\ \A l \in Codes \ {k} : code'[l] = code[l]
    BY <2>1 DEF TypeOK
  <2>3. \E a \in assertions : ~a.error /\ a.req = callback[c].req /\ a.req \in bound
    BY <1>4 DEF CallbackInsert, FlowInv
  <2>4. UNCHANGED <<assertions, bound>>
    BY <1>4 DEF CallbackInsert
  <2>5. CodesBelongToFlow'
    BY <2>2, <2>3, <2>4 DEF FlowInv, CodesBelongToFlow
  <2>6. /\ callback'[c].pc = "idle"
        /\ \A e \in Callbacks \ {c} : callback'[e] = callback[e]
    BY <1>4, <1>c DEF CallbackInsert, IdleCallback
  <2> QED BY <2>4, <2>5, <2>6, FlowGrows DEF FlowInv
<1>5. CASE CallbackEnds(c)
  <2>1. /\ callback'[c].pc = "idle"
        /\ \A e \in Callbacks \ {c} : callback'[e] = callback[e]
    BY <1>5, <1>c DEF CallbackEnds, IdleCallback
  <2> QED BY <1>5, <1>s, <2>1 DEF CallbackEnds
<1> QED BY <1>1, <1>2, <1>3, <1>4, <1>5 DEF CallbackStep

\* A token request takes codes out of the store, but changes no code's request.
LEMMA RedeemerFlow ==
  ASSUME TypeOK, Bound, FlowInv, NEW d \in Redeemers, RedeemerStep(d)
  PROVE  FlowInv'
<1> DEFINE k == redeemer[d].code
<1>1. UNCHANGED <<assertions, callback, bound>>
  BY DEF RedeemerStep, RedeemRead, RedeemTransaction, RedeemTake, RedeemMark, RedeemFails,
     RedeemLookup, RedeemRevoke, RedeemCheck, RedeemIssue, RedeemEnds, flowVars
<1>2. \/ UNCHANGED code
      \/ redeemer[d].pc = "take" /\ Takes(k) /\ Consume(k)
  BY DEF RedeemerStep, RedeemRead, RedeemTransaction, RedeemTake, RedeemMark, RedeemFails,
     RedeemLookup, RedeemRevoke, RedeemCheck, RedeemIssue, RedeemEnds
<1>3. \A l \in Codes :
        code'[l].req = code[l].req /\ (code'[l].state # "none" => code[l].state # "none")
  <2>1. CASE UNCHANGED code
    BY <2>1
  <2>2. CASE redeemer[d].pc = "take" /\ Takes(k) /\ Consume(k)
    <3>1. code[k].state = "stored"
      BY <2>2 DEF Takes, Stored
    <3> QED BY <2>2, <3>1 DEF Consume, TypeOK, Code
  <2> QED BY <1>2, <2>1, <2>2
<1> QED BY <1>1, <1>3 DEF FlowInv, CodesBelongToFlow

LEMMA NextFlow == TypeOK /\ Bound /\ FlowInv /\ [Next]_vars => FlowInv'
<1> SUFFICES ASSUME TypeOK, Bound, FlowInv, [Next]_vars
             PROVE  FlowInv'
  OBVIOUS
<1>1. CASE UNCHANGED <<assertions, callback, bound, code>>
  BY <1>1 DEF FlowInv, CodesBelongToFlow
<1>2. ASSUME NEW r \in Requests, FlowEnds(r)
      PROVE  FlowInv'
  <2>1. assertions \subseteq assertions' /\ UNCHANGED <<callback, bound, code>>
    BY <1>2 DEF FlowEnds
  <2> QED BY <2>1 DEF FlowInv, CodesBelongToFlow
<1>3. ASSUME NEW r \in Requests, AddRequest(r)
      PROVE  FlowInv'
  BY <1>1, <1>3 DEF AddRequest
<1>4. ASSUME NEW c \in Callbacks, CallbackStep(c)
      PROVE  FlowInv'
  BY <1>4, CallbackFlow
<1>5. ASSUME NEW d \in Redeemers, RedeemerStep(d)
      PROVE  FlowInv'
  BY <1>5, RedeemerFlow
<1> QED BY <1>1, <1>2, <1>3, <1>4, <1>5 DEF Next, Tick, Exchange, vars, flowVars

\* Whatever assertion is submitted for whatever request, a code is only made from a
\* success that the flow of its own request signed and that was spent for it
\* (mintAuthorizationCode).
THEOREM CodesOfTheirFlow == Spec => []CodesBelongToFlow
<1>1. Init => FlowInv
  BY DEF Init, FlowInv, CodesBelongToFlow, NoCodeYet, IdleCallback
<1>2. FlowInv => CodesBelongToFlow
  BY DEF FlowInv
<1> QED BY <1>1, <1>2, NextFlow, TypesHold, PTL DEF Spec
=============================================================================
