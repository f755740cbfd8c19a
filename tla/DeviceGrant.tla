---------------------------- MODULE DeviceGrant -----------------------------
(***************************************************************************)
(* The OAuth 2.0 Device Authorization Grant: the life of device            *)
(* authorization requests between the device that polls the token          *)
(* endpoint, the browsers in which users type the user code, and the       *)
(* callback that records how a browser journey ended.                      *)
(*                                                                         *)
(* Every change of a record is a read by request ID followed, in a second  *)
(* call to the runtime store, by a compare-and-swap on its State field     *)
(* that writes the WHOLE record as it was read.  Each handler is therefore *)
(* cut at its store calls and at its readings of the clock, and any number *)
(* of handlers interleave.                                                 *)
(***************************************************************************)
EXTENDS Integers, FiniteSets, RuntimeStore

CONSTANTS
  Requests,          \* request IDs, one device code and one user code each
  Apps,
  AppOf,             \* the application a request was made by
  Users, NoUser,
  Pollers,           \* token requests in flight
  Browsers,          \* browser journeys
  AppIn,             \* the application whose flow a browser runs
  Callbacks,         \* callback requests in flight
  NoRequest,
  Backend,           \* the runtime store in use
  ExpiresIn,         \* oauth.device_grant.expires_in
  Interval,          \* oauth.device_grant.interval
  SlowDownIncrement, \* DeviceAuthorizationSlowDownIncrementSeconds
  Retention,         \* DeviceAuthorizationExpiredRecordRetentionSeconds
  MaxTime,           \* bound: the clock stops here
  MaxEnds,           \* bound: outcomes signed for a request
  MaxPolls           \* bound: token requests started

ASSUME DeviceGrantConstants ==
  /\ NoUser \notin Users
  /\ NoRequest \notin Requests
  /\ AppOf \in [Requests -> Apps]
  /\ AppIn \in [Browsers -> Apps]
  /\ Backend \in Backends
  /\ ExpiresIn \in Nat \ {0}
  /\ Interval \in Nat \ {0}
  /\ SlowDownIncrement \in Nat \ {0}
  /\ Retention \in Nat \ {0}
  /\ MaxTime \in Nat
  /\ MaxEnds \in Nat
  /\ MaxPolls \in Nat

VARIABLES
  clock,
  rec,        \* the stored record of each request
  poller,     \* the local state of each token request
  browser,    \* the local state of each browser journey
  callback,   \* the local state of each callback request
  assertions, \* signed flow assertions the gate may submit, in any order and again
  approvedAt, \* when the approval of a request was written, 0 before
  claims,     \* the journeys that went on after claiming a request
  consumed,   \* how often the consuming swap succeeded
  issued,     \* how often tokens were returned
  told,       \* the refusals a device was answered with
  tokenUser,  \* the subject of the tokens returned
  polls       \* token requests started, for the bound

tokenVars == <<consumed, issued, tokenUser>>
pollVars == <<poller, told, polls>>
journeyVars == <<browser, callback, assertions, approvedAt, claims>>
vars == <<clock, rec, tokenVars, pollVars, journeyVars>>

-----------------------------------------------------------------------------
(* Data *)

States == {"PENDING", "REDEEMING", "APPROVED", "CONSUMED", "DENIED", "FAILED",
           "EXPIRED"}

\* lastPolledAt = 0 is Go's zero time.  storedUntil is the TTL of the entry.
\* State "ABSENT": no request was made under this ID yet.
Record == [state: States \cup {"ABSENT"}, user: Users \cup {NoUser},
           lastPolledAt: Nat, pollInterval: Nat, expiry: Nat, storedUntil: Nat]

NoRecord == [state |-> "ABSENT", user |-> NoUser, lastPolledAt |-> 0,
             pollInterval |-> 0, expiry |-> 0, storedUntil |-> 0]

\* The outcome of a journey that the flow engine signs into an assertion.
FlowErrors == {"none", "END_USER", "OTHER"}
Assertion == [req: Requests, aud: Apps, user: Users \cup {NoUser}, error: FlowErrors]

\* Answers that end a device's polling for good: RFC 8628 makes them final.
Refusals == {"access_denied", "expired_token"}

Poller == [pc: {"idle", "decide", "reread", "swap"}, req: Requests \cup {NoRequest},
           op: {"none", "poll", "expire", "consume"}, snap: Record, now: Nat,
           interval: Nat, user: Users \cup {NoUser}, since: Nat,
           reply: {"none", "slow_down", "authorization_pending"}]

IdlePoller == [pc |-> "idle", req |-> NoRequest, op |-> "none", snap |-> NoRecord,
               now |-> 0, interval |-> 0, user |-> NoUser, since |-> 0,
               reply |-> "none"]

Browser == [pc: {"idle", "reread", "swap", "journey"}, req: Requests \cup {NoRequest},
            snap: Record, since: Nat]

IdleBrowser == [pc |-> "idle", req |-> NoRequest, snap |-> NoRecord, since |-> 0]

Callback == [pc: {"idle", "reread", "swap"}, req: Requests \cup {NoRequest},
             user: Users \cup {NoUser}, error: FlowErrors, snap: Record, since: Nat]

IdleCallback == [pc |-> "idle", req |-> NoRequest, user |-> NoUser, error |-> "none",
                 snap |-> NoRecord, since |-> 0]

TypeOK ==
  /\ clock \in Nat
  /\ rec \in [Requests -> Record]
  /\ poller \in [Pollers -> Poller]
  /\ browser \in [Browsers -> Browser]
  /\ callback \in [Callbacks -> Callback]
  /\ assertions \subseteq Assertion
  /\ approvedAt \in [Requests -> Nat]
  /\ claims \in [Requests -> SUBSET Browsers]
  /\ consumed \in [Requests -> Nat]
  /\ issued \in [Requests -> Nat]
  /\ told \in [Requests -> SUBSET Refusals]
  /\ tokenUser \in [Requests -> Users \cup {NoUser}]
  /\ polls \in Nat

Init ==
  /\ clock = 1
  /\ rec = [r \in Requests |-> NoRecord]
  /\ poller = [p \in Pollers |-> IdlePoller]
  /\ browser = [b \in Browsers |-> IdleBrowser]
  /\ callback = [c \in Callbacks |-> IdleCallback]
  /\ assertions = {}
  /\ approvedAt = [r \in Requests |-> 0]
  /\ claims = [r \in Requests |-> {}]
  /\ consumed = [r \in Requests |-> 0]
  /\ issued = [r \in Requests |-> 0]
  /\ told = [r \in Requests |-> {}]
  /\ tokenUser = [r \in Requests |-> NoUser]
  /\ polls = 0

-----------------------------------------------------------------------------
(* The store of device authorization requests *)

\* GetByDeviceCode, GetByUserCode and GetByRequestID find the record of r.
Found(r) == rec[r].state # "ABSENT" /\ Live(Backend, rec[r].storedUntil, clock)

\* Fault: a plain update in place of the compare-and-swap.
SwapsUnguarded(r, expected, t) == Live(Backend, rec[r].storedUntil, t)

\* compareAndSwapState: the write of a record succeeds at clock reading t.
Swaps(r, expected, t) ==
  FieldMatches(Backend, rec[r].state, expected, rec[r].storedUntil, t)

\* Fault: the state is checked by the read only, not by the swap.
SwapsWithoutState(r, snap, expected, t) ==
  Live(Backend, rec[r].storedUntil, t) /\ t < snap.expiry

\* Fault: the swap forgets the expiry of the request.
SwapsWithoutExpiry(r, snap, expected, t) ==
  FieldMatches(Backend, rec[r].state, expected, rec[r].storedUntil, t)

\* compareAndSwapStateBeforeExpiry, with the expiry of the record that was read.
SwapsBeforeExpiry(r, snap, expected, t) ==
  FieldMatchesBeforeExpiry(Backend, rec[r].state, expected, rec[r].storedUntil,
                           snap.expiry, t)

\* time.Now().After(ExpiryTime): in its last second a request is not yet expired.
Expired(expiry, now) == now > expiry

-----------------------------------------------------------------------------
(* The device authorization endpoint *)

\* InitiateDeviceAuthorization and Add.  time.Until(ExpiryTime) is a little
\* less than ExpiresIn and is cut to whole seconds before Retention is added.
Initiate(r) ==
  /\ rec[r].state = "ABSENT"
  /\ rec' = [rec EXCEPT ![r] =
       [NoRecord EXCEPT !.state = "PENDING", !.pollInterval = Interval,
                        !.expiry = clock + ExpiresIn,
                        !.storedUntil = StoredUntil(ExpiresIn - 1 + Retention, clock)]]
  /\ UNCHANGED <<clock, tokenVars, pollVars, journeyVars>>

-----------------------------------------------------------------------------
(* The browser journey: verifyUserCode, then the authentication flow *)

\* GetByUserCode and the checks on what it read.  A code that fails them is
\* answered with a prompt for another code, which changes nothing.
VerifyRead(b, r) ==
  /\ browser[b].pc = "idle"
  /\ Found(r)
  /\ ~Expired(rec[r].expiry, clock)
  /\ rec[r].state = "PENDING"
  /\ AppOf[r] = AppIn[b]
  /\ browser' = [browser EXCEPT ![b] = [@ EXCEPT !.pc = "reread", !.req = r]]
  /\ UNCHANGED <<clock, rec, callback, assertions, approvedAt, claims, tokenVars, pollVars>>

\* MarkRedeeming reads the record again, by request ID.
ClaimRead(b) ==
  LET r == browser[b].req IN
  /\ browser[b].pc = "reread"
  /\ browser' = [browser EXCEPT ![b] =
       IF Found(r) /\ rec[r].state = "PENDING"
         THEN [@ EXCEPT !.pc = "swap", !.snap = rec[r], !.since = clock]
         ELSE IdleBrowser]
  /\ UNCHANGED <<clock, rec, callback, assertions, approvedAt, claims, tokenVars, pollVars>>

\* MarkRedeeming swaps.  When the answer of the store is lost (heard = FALSE) the
\* journey ends although the request may be claimed.
ClaimSwap(b) ==
  LET r == browser[b].req
      snap == browser[b].snap
  IN
  /\ browser[b].pc = "swap"
  /\ \E t \in SwapTimes(Backend, browser[b].since, clock), heard \in BOOLEAN :
       LET wins == SwapsBeforeExpiry(r, snap, "PENDING", t) IN
       /\ rec' = IF wins THEN [rec EXCEPT ![r] = [snap EXCEPT !.state = "REDEEMING"]]
                         ELSE rec
       /\ browser' = [browser EXCEPT ![b] =
            IF wins /\ heard THEN [IdleBrowser EXCEPT !.pc = "journey", !.req = r]
                             ELSE IdleBrowser]
       /\ claims' = IF wins /\ heard THEN [claims EXCEPT ![r] = @ \cup {b}] ELSE claims
  /\ UNCHANGED <<clock, callback, assertions, approvedAt, tokenVars, pollVars>>

\* The flow ends and the engine signs its outcome, bound to the claimed request.
\* Requests of one execution overlap, so it may end again, with another outcome.
Outcomes == {<<u, "none">> : u \in Users} \cup {<<NoUser, e>> : e \in {"END_USER", "OTHER"}}

JourneyEnd(b) ==
  /\ browser[b].pc = "journey"
  /\ Cardinality({a \in assertions : a.req = browser[b].req}) < MaxEnds
  /\ \E o \in Outcomes :
       LET a == [req |-> browser[b].req, aud |-> AppIn[b], user |-> o[1], error |-> o[2]] IN
       a \notin assertions /\ assertions' = assertions \cup {a}
  /\ UNCHANGED <<clock, rec, browser, callback, approvedAt, claims, tokenVars, pollVars>>

\* The journey is over: it has ended, the user walks away, or the server goes down.
JourneyAbandoned(b) ==
  /\ browser[b].pc # "idle"
  /\ browser' = [browser EXCEPT ![b] = IdleBrowser]
  /\ UNCHANGED <<clock, rec, callback, assertions, approvedAt, claims, tokenVars, pollVars>>

-----------------------------------------------------------------------------
(* The callback: HandleCallback with any assertion at hand *)

\* Fault: the assertion is verified but not bound to the request.
CallbackLoadUnbound(c, r, a) ==
  /\ callback[c].pc = "idle"
  /\ Found(r)
  /\ ~Expired(rec[r].expiry, clock)
  /\ rec[r].state = "REDEEMING"
  /\ a.aud = AppOf[r]
  /\ callback' = [callback EXCEPT ![c] =
       [IdleCallback EXCEPT !.pc = "reread", !.req = r, !.user = a.user,
                            !.error = a.error]]
  /\ UNCHANGED <<clock, rec, browser, assertions, approvedAt, claims, tokenVars, pollVars>>

\* loadRequestForCallback and the binding of the assertion to the request.
\* Whatever fails these checks is refused and changes nothing.
CallbackLoad(c, r, a) ==
  /\ callback[c].pc = "idle"
  /\ Found(r)
  /\ ~Expired(rec[r].expiry, clock)
  /\ rec[r].state = "REDEEMING"
  /\ a.aud = AppOf[r]
  /\ a.req = r
  /\ callback' = [callback EXCEPT ![c] =
       [IdleCallback EXCEPT !.pc = "reread", !.req = r, !.user = a.user,
                            !.error = a.error]]
  /\ UNCHANGED <<clock, rec, browser, assertions, approvedAt, claims, tokenVars, pollVars>>

\* MarkApproved and MarkFailed read the record again.
CallbackRead(c) ==
  LET r == callback[c].req IN
  /\ callback[c].pc = "reread"
  /\ callback' = [callback EXCEPT ![c] =
       IF Found(r) /\ rec[r].state = "REDEEMING"
         THEN [@ EXCEPT !.pc = "swap", !.snap = rec[r], !.since = clock]
         ELSE IdleCallback]
  /\ UNCHANGED <<clock, rec, browser, assertions, approvedAt, claims, tokenVars, pollVars>>

\* The record a callback writes: approval with the authenticated user, or the
\* refusal of an end user (DENIED) or of the flow (FAILED).
Decided(c) ==
  CASE callback[c].error = "none" ->
         [callback[c].snap EXCEPT !.state = "APPROVED", !.user = callback[c].user]
    [] callback[c].error = "END_USER" -> [callback[c].snap EXCEPT !.state = "DENIED"]
    [] OTHER -> [callback[c].snap EXCEPT !.state = "FAILED"]

\* Fault: the decision is written whatever state the request has by then.
DecisionSwapsAlways(c, t) == Live(Backend, rec[callback[c].req].storedUntil, t)

\* MarkApproved swaps before the expiry only; MarkFailed at any time.
DecisionSwaps(c, t) ==
  IF callback[c].error = "none"
    THEN SwapsBeforeExpiry(callback[c].req, callback[c].snap, "REDEEMING", t)
    ELSE Swaps(callback[c].req, "REDEEMING", t)

CallbackSwap(c) ==
  /\ callback[c].pc = "swap"
  /\ \E t \in SwapTimes(Backend, callback[c].since, clock) :
       IF DecisionSwaps(c, t)
         THEN /\ rec' = [rec EXCEPT ![callback[c].req] = Decided(c)]
              /\ approvedAt' = IF callback[c].error = "none"
                                 THEN [approvedAt EXCEPT ![callback[c].req] = clock]
                                 ELSE approvedAt
         ELSE UNCHANGED <<rec, approvedAt>>
  /\ callback' = [callback EXCEPT ![c] = IdleCallback]
  /\ UNCHANGED <<clock, browser, assertions, claims, tokenVars, pollVars>>

CallbackAborted(c) ==
  /\ callback[c].pc # "idle"
  /\ callback' = [callback EXCEPT ![c] = IdleCallback]
  /\ UNCHANGED <<clock, rec, browser, assertions, approvedAt, claims, tokenVars, pollVars>>

-----------------------------------------------------------------------------
(* The token endpoint: ValidateGrant and HandleGrant *)

\* The token request ends with an answer.  Only refusals are remembered.
Answer(p, a) ==
  /\ poller' = [poller EXCEPT ![p] = IdlePoller]
  /\ told' = IF a \in Refusals THEN [told EXCEPT ![poller[p].req] = @ \cup {a}]
                               ELSE told

\* GetByDeviceCode, in ValidateGrant and again in HandleGrant: the fields that
\* ValidateGrant checks never change, so the later read stands for both.
PollRead(p, r) ==
  /\ poller[p].pc = "idle"
  /\ polls < MaxPolls
  /\ rec[r].state # "ABSENT"
  /\ polls' = polls + 1
  /\ IF Found(r)
       THEN /\ poller' = [poller EXCEPT ![p] =
                   [@ EXCEPT !.pc = "decide", !.req = r, !.snap = rec[r]]]
            /\ UNCHANGED told
       ELSE Answer(p, "invalid_grant")
  /\ UNCHANGED <<clock, rec, tokenVars, journeyVars>>

\* HandleGrant past its read, where it looks at the clock: a request that is
\* too old is marked EXPIRED unless it was seen EXPIRED or CONSUMED.
PollDecideExpired(p) ==
  /\ poller[p].pc = "decide"
  /\ Expired(poller[p].snap.expiry, clock)
  /\ IF poller[p].snap.state \in {"EXPIRED", "CONSUMED"}
       THEN Answer(p, "expired_token")
       ELSE /\ poller' = [poller EXCEPT ![p] = [@ EXCEPT !.pc = "reread", !.op = "expire"]]
            /\ UNCHANGED told
  /\ UNCHANGED <<clock, rec, polls, tokenVars, journeyVars>>

TooFast(snap, now) ==
  snap.lastPolledAt # 0 /\ now - snap.lastPolledAt < snap.pollInterval

\* handlePending: the interval in force grows when the poll came too early.
NextInterval(snap, now) ==
  IF TooFast(snap, now) THEN snap.pollInterval + SlowDownIncrement
                        ELSE snap.pollInterval

PollDecidePending(p) ==
  LET snap == poller[p].snap IN
  /\ poller[p].pc = "decide"
  /\ ~Expired(snap.expiry, clock)
  /\ snap.state \in {"PENDING", "REDEEMING"}
  /\ poller' = [poller EXCEPT ![p] =
       [@ EXCEPT !.pc = "reread", !.op = "poll", !.now = clock,
                 !.interval = NextInterval(snap, clock),
                 !.reply = IF TooFast(snap, clock) THEN "slow_down"
                           ELSE "authorization_pending"]]
  /\ UNCHANGED <<clock, rec, told, polls, tokenVars, journeyVars>>

\* The request was refused or spent.
PollDecideRefused(p) ==
  /\ poller[p].pc = "decide"
  /\ ~Expired(poller[p].snap.expiry, clock)
  /\ \/ poller[p].snap.state \in {"DENIED", "FAILED"} /\ Answer(p, "access_denied")
     \/ poller[p].snap.state \in {"CONSUMED", "EXPIRED"} /\ Answer(p, "invalid_grant")
  /\ UNCHANGED <<clock, rec, polls, tokenVars, journeyVars>>

\* issueTokens builds the tokens from the record that was read.
PollDecideApproved(p) ==
  /\ poller[p].pc = "decide"
  /\ ~Expired(poller[p].snap.expiry, clock)
  /\ poller[p].snap.state = "APPROVED"
  /\ poller' = [poller EXCEPT ![p] =
       [@ EXCEPT !.pc = "reread", !.op = "consume", !.user = poller[p].snap.user]]
  /\ UNCHANGED <<clock, rec, told, polls, tokenVars, journeyVars>>

\* issueTokens gives up before it consumes: the grant was revoked, the cached
\* attributes are gone or a token cannot be built.  The request stays approved.
IssueRefused(p) ==
  /\ poller[p].pc = "reread"
  /\ poller[p].op = "consume"
  /\ \E a \in {"invalid_grant", "server_error"} : Answer(p, a)
  /\ UNCHANGED <<clock, rec, polls, tokenVars, journeyVars>>

\* UpdatePolling, UpdateState and MarkConsumed read the record by request ID.
PollReread(p) ==
  LET r == poller[p].req IN
  /\ poller[p].pc = "reread"
  /\ \/ /\ Found(r)
        /\ poller[p].op = "consume" => rec[r].state = "APPROVED"
        /\ poller' = [poller EXCEPT ![p] =
             [@ EXCEPT !.pc = "swap", !.snap = rec[r], !.since = clock]]
        /\ UNCHANGED told
     \/ /\ ~Found(r)
        /\ Answer(p, CASE poller[p].op = "poll" -> "server_error"
                       [] poller[p].op = "expire" -> "expired_token"
                       [] OTHER -> "invalid_grant")
     \/ /\ Found(r)
        /\ poller[p].op = "consume" /\ rec[r].state # "APPROVED"
        /\ Answer(p, "invalid_grant")
  /\ UNCHANGED <<clock, rec, polls, tokenVars, journeyVars>>

\* UpdatePolling writes whether or not the state it read is still the stored one,
\* and ignores that the swap failed.
PolledRecord(p) ==
  [poller[p].snap EXCEPT !.lastPolledAt = poller[p].now,
                         !.pollInterval = poller[p].interval]

PollingSwap(p) ==
  LET r == poller[p].req IN
  /\ poller[p].pc = "swap"
  /\ poller[p].op = "poll"
  /\ \E t \in SwapTimes(Backend, poller[p].since, clock) :
       rec' = IF Swaps(r, poller[p].snap.state, t) THEN [rec EXCEPT ![r] = PolledRecord(p)]
                                                   ELSE rec
  /\ Answer(p, poller[p].reply)
  /\ UNCHANGED <<clock, polls, tokenVars, journeyVars>>

\* UpdateState to EXPIRED, from whatever state was read; a failure is logged.
ExpireSwap(p) ==
  LET r == poller[p].req IN
  /\ poller[p].pc = "swap"
  /\ poller[p].op = "expire"
  /\ \E t \in SwapTimes(Backend, poller[p].since, clock) :
       rec' = IF Swaps(r, poller[p].snap.state, t)
                THEN [rec EXCEPT ![r] = [poller[p].snap EXCEPT !.state = "EXPIRED"]]
                ELSE rec
  /\ Answer(p, "expired_token")
  /\ UNCHANGED <<clock, polls, tokenVars, journeyVars>>

\* MarkConsumed swaps; only the winner returns its tokens.
ConsumeSwap(p) ==
  LET r == poller[p].req
      snap == poller[p].snap
  IN
  /\ poller[p].pc = "swap"
  /\ poller[p].op = "consume"
  /\ \E t \in SwapTimes(Backend, poller[p].since, clock) :
       \/ /\ SwapsBeforeExpiry(r, snap, "APPROVED", t)
          /\ rec' = [rec EXCEPT ![r] = [snap EXCEPT !.state = "CONSUMED"]]
          /\ consumed' = [consumed EXCEPT ![r] = @ + 1]
          /\ \/ /\ issued' = [issued EXCEPT ![r] = @ + 1]
                /\ tokenUser' = [tokenUser EXCEPT ![r] = poller[p].user]
                /\ Answer(p, "tokens")
             \/ UNCHANGED <<issued, tokenUser>> /\ Answer(p, "server_error")
       \/ /\ ~SwapsBeforeExpiry(r, snap, "APPROVED", t)
          /\ Answer(p, "invalid_grant")
          /\ UNCHANGED <<rec, consumed, issued, tokenUser>>
  /\ UNCHANGED <<clock, polls, journeyVars>>

\* The request is cancelled, a store call fails or the server goes down.
PollAborted(p) ==
  /\ poller[p].pc # "idle"
  /\ Answer(p, IF poller[p].op = "expire" THEN "expired_token" ELSE "server_error")
  /\ UNCHANGED <<clock, rec, polls, tokenVars, journeyVars>>

-----------------------------------------------------------------------------

Tick ==
  /\ clock < MaxTime
  /\ clock' = clock + 1
  /\ UNCHANGED <<rec, tokenVars, pollVars, journeyVars>>

BrowserStep(b) ==
  \/ \E r \in Requests : VerifyRead(b, r)
  \/ ClaimRead(b) \/ ClaimSwap(b) \/ JourneyEnd(b) \/ JourneyAbandoned(b)

CallbackStep(c) ==
  \/ \E r \in Requests, a \in assertions : CallbackLoad(c, r, a)
  \/ CallbackRead(c) \/ CallbackSwap(c) \/ CallbackAborted(c)

PollerStep(p) ==
  \/ \E r \in Requests : PollRead(p, r)
  \/ PollDecideExpired(p) \/ PollDecidePending(p)
  \/ PollDecideRefused(p) \/ PollDecideApproved(p)
  \/ IssueRefused(p) \/ PollReread(p)
  \/ PollingSwap(p) \/ ExpireSwap(p) \/ ConsumeSwap(p) \/ PollAborted(p)

Next ==
  \/ Tick
  \/ \E r \in Requests : Initiate(r)
  \/ \E b \in Browsers : BrowserStep(b)
  \/ \E c \in Callbacks : CallbackStep(c)
  \/ \E p \in Pollers : PollerStep(p)

Spec == Init /\ [][Next]_vars

-----------------------------------------------------------------------------
(* Properties *)

\* Tokens are returned at most once for a device code, however many token
\* requests poll with it at the same time (HandleGrant, MarkConsumed).
TokensAtMostOnce == \A r \in Requests : issued[r] <= 1

\* At most one browser journey goes on with a user code, however many users
\* type it at the same time (verifyUserCode, MarkRedeeming).
OneJourneyPerRequest ==
  \A r \in Requests : \A b1, b2 \in claims[r] : b1 = b2

\* The subject of the tokens is a user who finished, with success, a journey
\* that claimed this very request in a flow of the requesting application
\* (verifyUserCode, HandleCallback, issueTokens).
TokensBelongToJourney ==
  \A r \in Requests :
    issued[r] > 0 =>
      /\ \E a \in assertions : a.req = r /\ a.error = "none" /\ a.user = tokenUser[r]
      /\ \E b \in claims[r] : AppIn[b] = AppOf[r]

\* Tokens are returned only for an approval that was written before the request
\* expired, even when the database decides a swap with a clock reading that was
\* taken before the statement ran (MarkApproved, MarkConsumed).
LateApprovalNeverRedeemed ==
  \A r \in Requests : issued[r] > 0 => approvedAt[r] < rec[r].expiry

\* No write, in particular none that carries a record read earlier, undoes a
\* decision: an approval is kept with its user until it is consumed or expires,
\* and a request that was refused or consumed is never open or approved again
\* (compareAndSwapState, UpdatePolling, UpdateState).
DecisionsSurvive ==
  [][\A r \in Requests :
       /\ rec[r].state = "APPROVED" =>
            /\ rec'[r].state \in {"APPROVED", "CONSUMED", "EXPIRED"}
            /\ rec'[r].user = rec[r].user
       /\ rec[r].state \in {"DENIED", "FAILED", "CONSUMED", "EXPIRED"} =>
            rec'[r].state \in {rec[r].state, "EXPIRED"}]_vars

\* The device grant keeps the promise of a one-time grant.
GrantStatus(r) ==
  CASE consumed[r] > 0 -> "redeemed"
    [] consumed[r] = 0 /\ rec[r].state = "ABSENT" -> "absent"
    [] consumed[r] = 0 /\ rec[r].state \in {"PENDING", "REDEEMING"} -> "open"
    [] consumed[r] = 0 /\ rec[r].state = "APPROVED" -> "granted"
    [] OTHER -> "closed"

Promise == INSTANCE OneTimeGrant WITH
  status <- [r \in Requests |-> GrantStatus(r)],
  grantee <- [r \in Requests |-> rec[r].user],
  redeemed <- issued

\* Every step of the protocol is a step of OneTimeGrant or leaves it unchanged:
\* one user grants an open request, a granted one is redeemed at most once, and
\* a closed one stays closed.
ImplementsOneTimeGrant == Promise!Spec

\* A device that was refused (access_denied, expired_token) never gets tokens:
\* both are final for the client, which stops polling (HandleGrant).  With the
\* database a swap decided by an older clock reading may still win after another
\* poll was told that the request expired, so this is checked on the other backends.
NoTokensAfterRefusal ==
  [][\A r \in Requests : issued'[r] > issued[r] => told[r] = {}]_vars
=============================================================================
