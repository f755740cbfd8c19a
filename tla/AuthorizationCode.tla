------------------------- MODULE AuthorizationCode --------------------------
(***************************************************************************)
(* The authorization code grant: authorization requests waiting for their  *)
(* flow, the callback that turns a signed assertion into a code, and the   *)
(* redemption of codes with its answer to a replay, the revocation of the  *)
(* token family that the first redemption gave rise to.                    *)
(*                                                                         *)
(* Handlers are cut at their store calls.  With the SQL store the body of  *)
(* GetAuthorizationCodeDetails is a transaction; with Redis the            *)
(* transactioner does nothing and each call takes effect by itself.        *)
(*                                                                         *)
(* TTLs are cut to whole seconds and the code compares durations with one  *)
(* second, so time is counted in ticks, Second of them to a second.  Every *)
(* reading of the clock falls strictly inside a tick: time.Until(t) is     *)
(* less than t - clock and more than t - clock - 1.                        *)
(***************************************************************************)
EXTENDS Integers, RuntimeStore

CONSTANTS
  Requests,          \* authIDs
  JTIs,              \* of the assertions the flow engine signs
  Codes,             \* authorization codes, each with a token family of its own
  Callbacks,         \* callback requests in flight
  Redeemers,         \* token requests in flight
  NoRequest, NoCode,
  Stores,            \* the runtime stores to consider
  OnCodeReplay,      \* oauth.revocation.token_family.on_code_replay
  Second,            \* ticks to a second
  RequestValidity,   \* of an authorization request, in ticks
  AssertionValidity, \* of an assertion with the leeway of its verification
  CodeValidity,      \* oauth.authorization_code.validity_period
  MaxTime,           \* bound: the clock stops here
  MaxRedemptions     \* bound: token requests started

ASSUME AuthorizationCodeConstants ==
  /\ NoRequest \notin Requests
  /\ NoCode \notin Codes
  /\ Stores \subseteq {"db", "redis"}
  /\ OnCodeReplay \in BOOLEAN
  /\ {Second, RequestValidity, AssertionValidity, CodeValidity} \subseteq Nat \ {0}
  /\ {MaxTime, MaxRedemptions} \subseteq Nat

VARIABLES
  store,        \* the runtime store in use, one of Stores
  clock,
  request,      \* stored authorization requests
  assertions,   \* signed assertions the gate may submit, for any request, and again
  spent,        \* the replay entry of each jti
  code,         \* authorization codes
  marker,       \* the replay marker of each code
  callback,     \* the local state of each callback request
  redeemer,     \* the local state of each token request
  revoked,      \* codes whose token family is on the deny list
  spentInTime,  \* how often a jti was accepted before its last second
  bound,        \* the requests whose assertions were spent by a callback
  unmarked,     \* codes whose marker could not be written
  issued,       \* how often tokens were returned for a code
  replayed,     \* codes whose replay was detected or went by in time
  redemptions   \* token requests started, for the bound

flowVars == <<request, assertions, callback, spent, spentInTime, bound>>
tokenVars == <<marker, redeemer, revoked, unmarked, issued, replayed, redemptions>>
vars == <<store, clock, flowVars, code, tokenVars>>

-----------------------------------------------------------------------------
(* Data *)

\* An entry of the runtime store that may not be there.
Entry == [there: BOOLEAN, until: Nat]
NoEntry == [there |-> FALSE, until |-> 0]
Visible(e) == e.there /\ Live(store, e.until, clock)

Assertion == [jti: JTIs, req: Requests, error: BOOLEAN, until: Nat]

\* A code is "stored" until it is taken; expiry is its ExpiryTime.
Code == [state: {"none", "stored", "consumed"}, req: Requests \cup {NoRequest},
         expiry: Nat, until: Nat]
NoCodeYet == [state |-> "none", req |-> NoRequest, expiry |-> 0, until |-> 0]

Callback == [pc: {"idle", "clear", "spend", "insert"}, req: Requests \cup {NoRequest},
             given: SUBSET Assertion, expiry: Nat]
IdleCallback == [pc |-> "idle", req |-> NoRequest, given |-> {}, expiry |-> 0]

Redeemer == [pc: {"idle", "take", "mark", "lookup", "revoke", "check", "issue"},
             code: Codes \cup {NoCode}]
IdleRedeemer == [pc |-> "idle", code |-> NoCode]

TypeOK ==
  /\ store \in Stores
  /\ clock \in Nat
  /\ request \in [Requests -> Entry]
  /\ assertions \subseteq Assertion
  /\ spent \in [JTIs -> Entry]
  /\ code \in [Codes -> Code]
  /\ marker \in [Codes -> Entry]
  /\ callback \in [Callbacks -> Callback]
  /\ redeemer \in [Redeemers -> Redeemer]
  /\ spentInTime \in [JTIs -> Nat]
  /\ bound \subseteq Requests
  /\ issued \in [Codes -> Nat]
  /\ revoked \cup unmarked \cup replayed \subseteq Codes
  /\ redemptions \in Nat

Init ==
  /\ store \in Stores
  /\ clock = 0
  /\ request = [r \in Requests |-> NoEntry]
  /\ assertions = {}
  /\ spent = [j \in JTIs |-> NoEntry]
  /\ code = [k \in Codes |-> NoCodeYet]
  /\ marker = [k \in Codes |-> NoEntry]
  /\ callback = [c \in Callbacks |-> IdleCallback]
  /\ redeemer = [d \in Redeemers |-> IdleRedeemer]
  /\ revoked = {} /\ bound = {} /\ unmarked = {} /\ replayed = {}
  /\ spentInTime = [j \in JTIs |-> 0]
  /\ issued = [k \in Codes |-> 0]
  /\ redemptions = 0

\* int64(time.Until(t).Seconds()), in ticks, and time.Until(t) < time.Second.
WholeSecondsUntil(t) == ((t - clock - 1) \div Second) * Second
WithinASecond(t) == t - clock <= Second

-----------------------------------------------------------------------------
(* The authorization endpoint and the flow *)

\* AddRequest, before the flow starts.
AddRequest(r) ==
  /\ request[r] = NoEntry
  /\ request' = [request EXCEPT ![r] =
       [there |-> TRUE, until |-> StoredUntil(RequestValidity, clock)]]
  /\ UNCHANGED <<store, clock, assertions, callback, spent, spentInTime, bound, code,
                 tokenVars>>

\* The flow of a request ends and its outcome is signed under a fresh jti.  The
\* engine does not lock a flow: its last step, submitted twice, may sign twice.
\* Expiries of assertions are whole seconds.
FlowEnds(r) ==
  /\ request[r].until > 0
  /\ \E j \in JTIs \ {a.jti : a \in assertions}, e \in BOOLEAN :
       assertions' = assertions \cup
         {[jti |-> j, req |-> r, error |-> e,
           until |-> (clock \div Second) * Second + AssertionValidity]}
  /\ UNCHANGED <<store, clock, request, callback, spent, spentInTime, bound, code, tokenVars>>

-----------------------------------------------------------------------------
(* Spending an assertion: ConsumeAuthAssertion and RecordJTI *)

\* Fault: the record is looked up but not kept.
RecordJTIUnrecorded(a) ==
  /\ ~Visible(spent[a.jti])
  /\ UNCHANGED spent

\* RecordJTI accepts a.  An assertion in its last second is accepted without a
\* record; PutIfNotExists succeeds where no live entry is.
RecordJTI(a) ==
  \/ WithinASecond(a.until) /\ UNCHANGED spent
  \/ /\ ~WithinASecond(a.until)
     /\ ~Visible(spent[a.jti])
     /\ spent' = [spent EXCEPT ![a.jti] =
          [there |-> TRUE, until |-> StoredUntil(WholeSecondsUntil(a.until), clock)]]

Counts(a) ==
  spentInTime' = IF WithinASecond(a.until) THEN spentInTime
                 ELSE [spentInTime EXCEPT ![a.jti] = @ + 1]

\* The token endpoint exchanges an authentication assertion for tokens.  It spends
\* it in the same namespace as the callback.
Exchange(a) ==
  /\ ~a.error
  /\ clock < a.until
  /\ RecordJTI(a)
  /\ Counts(a)
  /\ UNCHANGED <<store, clock, request, assertions, callback, bound, code, tokenVars>>

-----------------------------------------------------------------------------
(* The callback *)

\* HandleAuthorizationCallback verifies the assertion; one that reports an error
\* must belong to the request.  loadAuthRequestContext then finds the request.
CallbackLoad(c, r, a) ==
  /\ callback[c].pc = "idle"
  /\ clock < a.until
  /\ a.error => a.req = r
  /\ Visible(request[r])
  /\ callback' = [callback EXCEPT ![c] =
       [@ EXCEPT !.pc = "clear", !.req = r, !.given = {a}]]
  /\ UNCHANGED <<store, clock, request, assertions, spent, spentInTime, bound, code, tokenVars>>

\* Fault: the assertion is not bound to the request it is submitted for.
GoesOnUnbound(c) == \E a \in callback[c].given : ~a.error

\* A success goes on when its assertion is bound to the request.
GoesOn(c) == \E a \in callback[c].given : ~a.error /\ a.req = callback[c].req

\* loadAuthRequestContext clears the request.  A failure to do so is only logged.
CallbackClear(c) ==
  /\ callback[c].pc = "clear"
  /\ \E cleared \in BOOLEAN :
       request' = IF cleared THEN [request EXCEPT ![callback[c].req].there = FALSE]
                             ELSE request
  /\ callback' = [callback EXCEPT ![c] =
       IF GoesOn(c) THEN [@ EXCEPT !.pc = "spend"] ELSE IdleCallback]
  /\ UNCHANGED <<store, clock, assertions, spent, spentInTime, bound, code, tokenVars>>

\* mintAuthorizationCode spends the assertion and makes a code, valid from now on.
CallbackSpend(c) ==
  /\ callback[c].pc = "spend"
  /\ \E a \in callback[c].given :
       /\ RecordJTI(a)
       /\ Counts(a)
       /\ bound' = bound \cup {a.req}
  /\ callback' = [callback EXCEPT ![c] =
       [@ EXCEPT !.pc = "insert", !.expiry = clock + CodeValidity]]
  /\ UNCHANGED <<store, clock, request, assertions, code, tokenVars>>

\* InsertAuthorizationCode stores it, unless it is about to expire already.
CallbackInsert(c) ==
  /\ callback[c].pc = "insert"
  /\ ~WithinASecond(callback[c].expiry)
  /\ \E k \in Codes :
       /\ code[k].state = "none"
       /\ code' = [code EXCEPT ![k] =
            [state |-> "stored", req |-> callback[c].req, expiry |-> callback[c].expiry,
             until |-> StoredUntil(WholeSecondsUntil(callback[c].expiry), clock)]]
  /\ callback' = [callback EXCEPT ![c] = IdleCallback]
  /\ UNCHANGED <<store, clock, request, assertions, spent, spentInTime, bound, tokenVars>>

\* The callback ends without a code: the assertion was used before, a check of its
\* claims or a store call fails, the code is about to expire, or the server goes down.
CallbackEnds(c) ==
  /\ callback[c].pc # "idle"
  /\ callback' = [callback EXCEPT ![c] = IdleCallback]
  /\ UNCHANGED <<store, clock, request, assertions, spent, spentInTime, bound, code, tokenVars>>

-----------------------------------------------------------------------------
(* The token endpoint: GetAuthorizationCodeDetails *)

GoTo(d, pc) == redeemer' = [redeemer EXCEPT ![d].pc = pc]

Stored(k) == code[k].state = "stored" /\ Live(store, code[k].until, clock)

\* GetAuthorizationCode, by the client the code was issued to (own) or another.
RedeemRead(d, k, own) ==
  /\ redeemer[d].pc = "idle"
  /\ redemptions < MaxRedemptions
  /\ code[k].state # "none"
  /\ redemptions' = redemptions + 1
  /\ redeemer' = [redeemer EXCEPT ![d] =
       [pc |-> IF Stored(k) /\ own THEN "take" ELSE "lookup", code |-> k]]
  /\ UNCHANGED <<store, clock, flowVars, code, marker, revoked, unmarked, issued, replayed>>

\* Fault: the code is deleted without a look at whether it was still there.
TakesUnchecked(k) == code[k].state # "none"

\* Take finds the code: it deletes and returns it in one step.
Takes(k) == Stored(k)

\* The TTL of the marker: what is left of the code, and a second at least.
MarkerTTL(k) ==
  IF WithinASecond(code[k].expiry) THEN Second ELSE WholeSecondsUntil(code[k].expiry)

\* MarkConsumedTokenFamily.  A failure is only logged.
Marks(k) ==
  \/ /\ marker' = [marker EXCEPT ![k] =
          [there |-> TRUE, until |-> StoredUntil(MarkerTTL(k), clock)]]
     /\ UNCHANGED unmarked
  \/ /\ unmarked' = unmarked \cup {k}
     /\ UNCHANGED marker

\* The code is taken.
Consume(k) == code' = [code EXCEPT ![k].state = "consumed"]

\* Fault: the code is taken outside the transaction that writes the marker.
RedeemTransactionSplit(d) ==
  LET k == redeemer[d].code IN
  /\ redeemer[d].pc = "take"
  /\ store = "db"
  /\ \/ Takes(k) /\ Consume(k) /\ GoTo(d, "mark")
     \/ ~Takes(k) /\ UNCHANGED code /\ GoTo(d, "lookup")
  /\ UNCHANGED <<store, clock, flowVars, marker, unmarked, revoked, issued, replayed,
                 redemptions>>

\* ConsumeAuthorizationCode and MarkConsumedTokenFamily in a transaction of the SQL
\* store.  A second DELETE of the row waits for the first transaction to end.
RedeemTransaction(d) ==
  LET k == redeemer[d].code IN
  /\ redeemer[d].pc = "take"
  /\ store = "db"
  /\ \/ Takes(k) /\ Consume(k) /\ Marks(k) /\ GoTo(d, "check")
     \/ ~Takes(k) /\ UNCHANGED <<code, marker, unmarked>> /\ GoTo(d, "lookup")
  /\ UNCHANGED <<store, clock, flowVars, revoked, issued, replayed, redemptions>>

\* The two calls where there is no transaction.
RedeemTake(d) ==
  LET k == redeemer[d].code IN
  /\ redeemer[d].pc = "take"
  /\ store = "redis"
  /\ \/ Takes(k) /\ Consume(k) /\ GoTo(d, "mark")
     \/ ~Takes(k) /\ UNCHANGED code /\ GoTo(d, "lookup")
  /\ UNCHANGED <<store, clock, flowVars, marker, unmarked, revoked, issued, replayed,
                 redemptions>>

RedeemMark(d) ==
  /\ redeemer[d].pc = "mark"
  /\ Marks(redeemer[d].code)
  /\ GoTo(d, "check")
  /\ UNCHANGED <<store, clock, flowVars, code, revoked, issued, replayed, redemptions>>

\* The store answers the take with an error, whether or not it, or the whole
\* transaction, took effect: this too is handled as a possible replay.
RedeemFails(d) ==
  LET k == redeemer[d].code IN
  /\ redeemer[d].pc = "take"
  /\ \/ UNCHANGED <<code, marker, unmarked>>
     \/ Takes(k) /\ store = "db" /\ Consume(k) /\ Marks(k)
     \/ Takes(k) /\ store = "redis" /\ Consume(k) /\ UNCHANGED <<marker, unmarked>>
  /\ GoTo(d, "lookup")
  /\ UNCHANGED <<store, clock, flowVars, revoked, issued, replayed, redemptions>>

-----------------------------------------------------------------------------
(* revokeTokenFamilyOnCodeReplay *)

\* A replay comes in time when the code it presents was consumed and has more than
\* a second left: markers are cut to whole seconds.
InTime(k) == code[k].state = "consumed" /\ ~WithinASecond(code[k].expiry)

\* ConsumedTokenFamily.
RedeemLookup(d) ==
  LET k == redeemer[d].code IN
  /\ redeemer[d].pc = "lookup"
  /\ \/ /\ OnCodeReplay /\ Visible(marker[k])
        /\ GoTo(d, "revoke")
        /\ UNCHANGED replayed
     \/ /\ ~(OnCodeReplay /\ Visible(marker[k]))
        /\ redeemer' = [redeemer EXCEPT ![d] = IdleRedeemer]
        /\ replayed' = IF InTime(k) THEN replayed \cup {k} ELSE replayed
  /\ UNCHANGED <<store, clock, flowVars, code, marker, revoked, unmarked, issued, redemptions>>

\* RevokeTokenFamily.
RedeemRevoke(d) ==
  /\ redeemer[d].pc = "revoke"
  /\ revoked' = revoked \cup {redeemer[d].code}
  /\ replayed' = replayed \cup {redeemer[d].code}
  /\ redeemer' = [redeemer EXCEPT ![d] = IdleRedeemer]
  /\ UNCHANGED <<store, clock, flowVars, code, marker, unmarked, issued, redemptions>>

-----------------------------------------------------------------------------
(* HandleGrant with a code that was consumed *)

\* validateAuthorizationCode and excludeRevokedScopes, which looks the token family
\* up on the deny list.
RedeemCheck(d) ==
  LET k == redeemer[d].code IN
  /\ redeemer[d].pc = "check"
  /\ clock <= code[k].expiry
  /\ k \notin revoked
  /\ GoTo(d, "issue")
  /\ UNCHANGED <<store, clock, flowVars, code, marker, revoked, unmarked, issued, replayed,
                 redemptions>>

RedeemIssue(d) ==
  /\ redeemer[d].pc = "issue"
  /\ issued' = [issued EXCEPT ![redeemer[d].code] = @ + 1]
  /\ redeemer' = [redeemer EXCEPT ![d] = IdleRedeemer]
  /\ UNCHANGED <<store, clock, flowVars, code, marker, revoked, unmarked, replayed, redemptions>>

\* The token request ends without tokens: a check or a call fails, or the server
\* goes down with it.  A code that was consumed stays so.
RedeemEnds(d) ==
  /\ redeemer[d].pc # "idle"
  /\ redeemer' = [redeemer EXCEPT ![d] = IdleRedeemer]
  /\ UNCHANGED <<store, clock, flowVars, code, marker, revoked, unmarked, issued, replayed,
                 redemptions>>

-----------------------------------------------------------------------------

Tick ==
  /\ clock < MaxTime
  /\ clock' = clock + 1
  /\ UNCHANGED <<store, flowVars, code, tokenVars>>

CallbackStep(c) ==
  \/ \E r \in Requests, a \in assertions : CallbackLoad(c, r, a)
  \/ CallbackClear(c) \/ CallbackSpend(c) \/ CallbackInsert(c) \/ CallbackEnds(c)

RedeemerStep(d) ==
  \/ \E k \in Codes, own \in BOOLEAN : RedeemRead(d, k, own)
  \/ RedeemTransaction(d) \/ RedeemTake(d) \/ RedeemMark(d) \/ RedeemFails(d)
  \/ RedeemLookup(d) \/ RedeemRevoke(d)
  \/ RedeemCheck(d) \/ RedeemIssue(d) \/ RedeemEnds(d)

Next ==
  \/ Tick
  \/ \E r \in Requests : AddRequest(r) \/ FlowEnds(r)
  \/ \E a \in assertions : Exchange(a)
  \/ \E c \in Callbacks : CallbackStep(c)
  \/ \E d \in Redeemers : RedeemerStep(d)

Spec == Init /\ [][Next]_vars

-----------------------------------------------------------------------------
(* Properties *)

\* Tokens are returned at most once for an authorization code, however many token
\* requests present it at the same time (ConsumeAuthorizationCode).
CodeRedeemedOnce == \A k \in Codes : issued[k] <= 1

\* An assertion is accepted at most once before its last second, by the callback
\* and the token endpoint together, even though two callbacks may both have loaded
\* the request (ConsumeAuthAssertion, RecordJTI).  In its last second it is not
\* recorded any more.
AssertionSpentOnce == \A j \in JTIs : spentInTime[j] <= 1

\* Every code was made from an assertion that the flow of the same request signed,
\* although any assertion can be submitted for any request (mintAuthorizationCode).
CodesBelongToFlow ==
  \A k \in Codes :
    code[k].state # "none" =>
      \E a \in assertions : ~a.error /\ a.req = code[k].req /\ a.req \in bound

\* "redeeming an authorization code a second time revokes every token issued from
\* that code": after such an attempt, made in time, the family of a code that gave
\* tokens is on the deny list.  A marker that could not be written is excused, as
\* the code declares it best effort.
ReplayRevokes ==
  \A k \in replayed \ unmarked : issued[k] > 0 => k \in revoked

\* With the SQL store, where the code and its marker change hands in one
\* transaction, every replay in time revokes (GetAuthorizationCodeDetails).
ReplayRevokesOnSQL == store = "db" /\ OnCodeReplay => ReplayRevokes
=============================================================================
