----------------------------- MODULE CIBAGrant ------------------------------
(***************************************************************************)
(* Client-Initiated Backchannel Authentication in poll mode: the life of   *)
(* an authentication request between the client that polls the token       *)
(* endpoint and the callbacks that carry the outcome of the user's flow.   *)
(*                                                                         *)
(* As in DeviceGrant a change of a record is a read followed by a write of *)
(* the whole record that was read.  Here some of the writes are guarded by *)
(* a compare-and-swap on the State field and others, those of UpdateState, *)
(* are plain updates, and no write looks at the expiry of the request.     *)
(*                                                                         *)
(* authorization_pending and slow_down are not told apart, and the time of *)
(* the last poll is left out of the record: neither leads to another step. *)
(***************************************************************************)
EXTENDS Integers, RuntimeStore

CONSTANTS
  Requests,        \* auth_req_ids
  WithDetails,     \* the requests that ask for authorization details
  Users, NoUser,
  Pollers,         \* token requests in flight
  Callbacks,       \* callback requests in flight
  NoRequest,
  Backend,         \* the runtime store in use
  Expiries,        \* the lifetimes a client may ask for (requested_expiry)
  ReportErrors,    \* oauth.send_server_errors_to_client
  MaxTime,         \* bound: the clock stops here
  MaxPolls         \* bound: token requests started

ASSUME CIBAGrantConstants ==
  /\ NoUser \notin Users
  /\ NoRequest \notin Requests
  /\ WithDetails \subseteq Requests
  /\ Backend \in Backends
  /\ Expiries \subseteq Nat \ {0}
  /\ ReportErrors \in BOOLEAN
  /\ MaxTime \in Nat
  /\ MaxPolls \in Nat

VARIABLES
  clock,
  initiation,      \* how far the backchannel authentication request has come
  rec,             \* the stored record of each request
  callback,        \* the local state of each callback request
  assertions,      \* signed flow assertions the gate may submit, and submit again
  poller,          \* the local state of each token request
  told,            \* the refusals a client was answered with
  polls,           \* token requests started, for the bound
  grantee,         \* the user a request was authenticated by
  authenticatedAt, \* when that was written, 0 before
  consumed,        \* how often the consuming swap succeeded
  issued,          \* how often tokens were returned
  tokenUser        \* the subject of the tokens returned

flowVars == <<callback, assertions, grantee, authenticatedAt>>
pollVars == <<poller, told, polls, consumed, issued, tokenUser>>
vars == <<clock, initiation, rec, flowVars, pollVars>>

-----------------------------------------------------------------------------
(* Data *)

States == {"PENDING", "AUTHENTICATED", "CONSUMED", "DENIED", "FAILED", "EXPIRED"}

\* State "ABSENT": nothing is stored under this ID yet.
Record == [state: States \cup {"ABSENT"}, user: Users \cup {NoUser}, expiry: Nat,
           storedUntil: Nat]

NoRecord == [state |-> "ABSENT", user |-> NoUser, expiry |-> 0, storedUntil |-> 0]

\* decided: the flow recorded a decision on the authorization details.
FlowErrors == {"none", "END_USER", "OTHER"}
Assertion == [req: Requests, user: Users \cup {NoUser}, error: FlowErrors,
              decided: BOOLEAN]

\* Answers after which a client gives up.  "failed" is the server_error with which
\* a FAILED request is answered, which no later poll can improve on.
Refusals == {"access_denied", "expired_token", "failed"}

\* target: the state a callback wants to write; guarded: through a swap.
Callback == [pc: {"idle", "reread", "write"}, req: Requests \cup {NoRequest},
             user: Users \cup {NoUser}, target: States \cup {"ABSENT"},
             guarded: BOOLEAN, snap: Record, since: Nat]

IdleCallback == [pc |-> "idle", req |-> NoRequest, user |-> NoUser,
                 target |-> "ABSENT", guarded |-> TRUE, snap |-> NoRecord, since |-> 0]

Poller == [pc: {"idle", "decide", "reread", "write"}, req: Requests \cup {NoRequest},
           op: {"none", "poll", "expire", "consume"}, user: Users \cup {NoUser},
           snap: Record, since: Nat]

IdlePoller == [pc |-> "idle", req |-> NoRequest, op |-> "none", user |-> NoUser,
               snap |-> NoRecord, since |-> 0]

TypeOK ==
  /\ clock \in Nat
  /\ initiation \in [Requests -> {"none", "flow", "done"}]
  /\ rec \in [Requests -> Record]
  /\ callback \in [Callbacks -> Callback]
  /\ assertions \subseteq Assertion
  /\ poller \in [Pollers -> Poller]
  /\ told \in [Requests -> SUBSET Refusals]
  /\ polls \in Nat
  /\ grantee \in [Requests -> Users \cup {NoUser}]
  /\ authenticatedAt \in [Requests -> Nat]
  /\ consumed \in [Requests -> Nat]
  /\ issued \in [Requests -> Nat]
  /\ tokenUser \in [Requests -> Users \cup {NoUser}]

Init ==
  /\ clock = 1
  /\ initiation = [r \in Requests |-> "none"]
  /\ rec = [r \in Requests |-> NoRecord]
  /\ callback = [c \in Callbacks |-> IdleCallback]
  /\ assertions = {}
  /\ poller = [p \in Pollers |-> IdlePoller]
  /\ told = [r \in Requests |-> {}]
  /\ polls = 0
  /\ grantee = [r \in Requests |-> NoUser]
  /\ authenticatedAt = [r \in Requests |-> 0]
  /\ consumed = [r \in Requests |-> 0]
  /\ issued = [r \in Requests |-> 0]
  /\ tokenUser = [r \in Requests |-> NoUser]

-----------------------------------------------------------------------------
(* The store of authentication requests *)

Found(r) == rec[r].state # "ABSENT" /\ Live(Backend, rec[r].storedUntil, clock)

\* Fault: a plain update in place of the compare-and-swap.
SwapsUnguarded(r, expected, t) == Live(Backend, rec[r].storedUntil, t)

\* CompareFieldAndSwap on the State field succeeds at clock reading t.
Swaps(r, expected, t) ==
  FieldMatches(Backend, rec[r].state, expected, rec[r].storedUntil, t)

\* save: Update asks for nothing but a live entry.
Saves(r, t) == Live(Backend, rec[r].storedUntil, t)

Expired(expiry, now) == now > expiry

-----------------------------------------------------------------------------
(* The backchannel authentication endpoint *)

\* InitiateBackchannelAuth starts the flow, which notifies the user, ...
StartFlow(r) ==
  /\ initiation[r] = "none"
  /\ initiation' = [initiation EXCEPT ![r] = "flow"]
  /\ UNCHANGED <<clock, rec, flowVars, pollVars>>

\* Fault: the record is kept for a while after the request expired.
TTLWithRetention(expiresIn) == expiresIn + 1

\* Add cuts the time until the expiry, already a little less than expiresIn, to
\* whole seconds.
TTL(expiresIn) == expiresIn - 1

\* ... and stores the request when the first step of the flow is over.
StoreRequest(r, expiresIn) ==
  /\ initiation[r] = "flow"
  /\ initiation' = [initiation EXCEPT ![r] = "done"]
  /\ rec' = [rec EXCEPT ![r] =
       [NoRecord EXCEPT !.state = "PENDING", !.expiry = clock + expiresIn,
                        !.storedUntil = StoredUntil(TTL(expiresIn), clock)]]
  /\ UNCHANGED <<clock, flowVars, pollVars>>

\* The flow ended in an error, the store failed or the server went down.
InitiationFails(r) ==
  /\ initiation[r] = "flow"
  /\ initiation' = [initiation EXCEPT ![r] = "done"]
  /\ UNCHANGED <<clock, rec, flowVars, pollVars>>

-----------------------------------------------------------------------------
(* The user's flow and its callback *)

\* The flow engine signs an outcome.  It does not lock a flow, so two submissions
\* of a last step may each get one.
Outcomes(r) ==
  {[req |-> r, user |-> u, error |-> "none", decided |-> d] : u \in Users, d \in BOOLEAN}
  \cup {[req |-> r, user |-> NoUser, error |-> e, decided |-> FALSE] :
          e \in {"END_USER", "OTHER"}}

FlowEnds(r) ==
  /\ initiation[r] # "none"
  /\ \E a \in Outcomes(r) \ assertions : assertions' = assertions \cup {a}
  /\ UNCHANGED <<clock, initiation, rec, callback, grantee, authenticatedAt, pollVars>>

\* loadPendingRequestForCallback up to the lookup of the client.
Loads(c, r) ==
  /\ callback[c].pc = "idle"
  /\ Found(r)
  /\ rec[r].state = "PENDING"
  /\ ~Expired(rec[r].expiry, clock)

Continue(c, r, user, target, guarded) ==
  /\ callback' = [callback EXCEPT ![c] =
       [IdleCallback EXCEPT !.pc = "reread", !.req = r, !.user = user,
                            !.target = target, !.guarded = guarded]]
  /\ UNCHANGED <<clock, initiation, rec, assertions, grantee, authenticatedAt, pollVars>>

\* Fault: the success callback does not ask for a decision on the details.
TargetWithoutDecision(r, a) ==
  CASE a.error = "none" -> "AUTHENTICATED"
    [] a.error = "END_USER" -> "DENIED"
    [] OTHER -> "FAILED"

\* The state that handleSuccessCallback or handleFailedCallback asks for.
Target(r, a) ==
  CASE a.error = "none" /\ (r \in WithDetails => a.decided) -> "AUTHENTICATED"
    [] a.error = "none" /\ r \in WithDetails /\ ~a.decided -> "DENIED"
    [] a.error = "END_USER" -> "DENIED"
    [] OTHER -> "FAILED"

\* HandleCallback when the client is found, or was deleted in the meantime.  The
\* flow signs its outcome for the application of its own request, so once the
\* assertion is bound to r its audience is the expected one.
CallbackLoad(c, r, a) ==
  /\ Loads(c, r)
  /\ a.req = r
  /\ Target(r, a) = "FAILED" => ReportErrors
  /\ Continue(c, r, a.user, Target(r, a), TRUE)

\* failUncheckedRequest: the client, or whether it is held, cannot be looked up.
\* A client that is held is refused, which changes nothing.
CallbackUnchecked(c, r, a) ==
  /\ Loads(c, r)
  /\ ReportErrors
  /\ a.req = r
  /\ Continue(c, r, NoUser, "FAILED", FALSE)

\* MarkAuthenticated and MarkFailed read the record again and want it pending;
\* UpdateState takes it as it is.
CallbackRead(c) ==
  LET r == callback[c].req IN
  /\ callback[c].pc = "reread"
  /\ callback' = [callback EXCEPT ![c] =
       IF Found(r) /\ (callback[c].guarded => rec[r].state = "PENDING")
         THEN [@ EXCEPT !.pc = "write", !.snap = rec[r], !.since = clock]
         ELSE IdleCallback]
  /\ UNCHANGED <<clock, initiation, rec, assertions, grantee, authenticatedAt, pollVars>>

CallbackWrites(c, t) ==
  IF callback[c].guarded THEN Swaps(callback[c].req, "PENDING", t)
                         ELSE Saves(callback[c].req, t)

Decided(c) ==
  IF callback[c].target = "AUTHENTICATED"
    THEN [callback[c].snap EXCEPT !.state = "AUTHENTICATED", !.user = callback[c].user]
    ELSE [callback[c].snap EXCEPT !.state = callback[c].target]

CallbackWrite(c) ==
  LET r == callback[c].req IN
  /\ callback[c].pc = "write"
  /\ \E t \in SwapTimes(Backend, callback[c].since, clock) :
       IF CallbackWrites(c, t)
         THEN /\ rec' = [rec EXCEPT ![r] = Decided(c)]
              /\ IF callback[c].target = "AUTHENTICATED"
                   THEN /\ grantee' = [grantee EXCEPT ![r] = callback[c].user]
                        /\ authenticatedAt' = [authenticatedAt EXCEPT ![r] = clock]
                   ELSE UNCHANGED <<grantee, authenticatedAt>>
         ELSE UNCHANGED <<rec, grantee, authenticatedAt>>
  /\ callback' = [callback EXCEPT ![c] = IdleCallback]
  /\ UNCHANGED <<clock, initiation, assertions, pollVars>>

CallbackAborted(c) ==
  /\ callback[c].pc # "idle"
  /\ callback' = [callback EXCEPT ![c] = IdleCallback]
  /\ UNCHANGED <<clock, initiation, rec, assertions, grantee, authenticatedAt, pollVars>>

-----------------------------------------------------------------------------
(* The token endpoint: ValidateGrant and HandleGrant *)

Answer(p, a) ==
  /\ poller' = [poller EXCEPT ![p] = IdlePoller]
  /\ told' = IF a \in Refusals THEN [told EXCEPT ![poller[p].req] = @ \cup {a}]
                               ELSE told

\* GetByAuthReqID, in ValidateGrant and again in HandleGrant: the fields that
\* ValidateGrant checks never change, so the later read stands for both.
PollRead(p, r) ==
  /\ poller[p].pc = "idle"
  /\ polls < MaxPolls
  /\ rec[r].state # "ABSENT"
  /\ polls' = polls + 1
  /\ IF Found(r)
       THEN /\ poller' = [poller EXCEPT ![p] =
                   [@ EXCEPT !.pc = "decide", !.req = r, !.snap = rec[r]]]
            /\ UNCHANGED told
       ELSE Answer(p, "invalid_grant")
  /\ UNCHANGED <<clock, initiation, rec, flowVars, consumed, issued, tokenUser>>

PollGoesOn(p, op) ==
  /\ poller' = [poller EXCEPT ![p] =
       [@ EXCEPT !.pc = "reread", !.op = op,
                 !.user = IF op = "consume" THEN poller[p].snap.user ELSE NoUser]]
  /\ UNCHANGED told

\* Fault: the state is looked at before the expiry.
PollDecideStateFirst(p) ==
  LET state == poller[p].snap.state IN
  /\ poller[p].pc = "decide"
  /\ \/ state = "PENDING" /\ PollGoesOn(p, "poll")
     \/ state = "AUTHENTICATED" /\ PollGoesOn(p, "consume")
     \/ state = "DENIED" /\ Answer(p, "access_denied")
     \/ state = "FAILED" /\ Answer(p, "failed")
     \/ state \in {"CONSUMED", "EXPIRED"} /\ Answer(p, "invalid_grant")
  /\ UNCHANGED <<clock, initiation, rec, polls, flowVars, consumed, issued, tokenUser>>

\* HandleGrant past its read, where it looks at the clock: expiry comes first.
\* issueTokens builds the tokens from the record that was read.
PollDecide(p) ==
  LET state == poller[p].snap.state
      late == Expired(poller[p].snap.expiry, clock)
  IN
  /\ poller[p].pc = "decide"
  /\ \/ late /\ state \in {"EXPIRED", "CONSUMED"} /\ Answer(p, "expired_token")
     \/ late /\ state \notin {"EXPIRED", "CONSUMED"} /\ PollGoesOn(p, "expire")
     \/ ~late /\ state = "PENDING" /\ PollGoesOn(p, "poll")
     \/ ~late /\ state = "AUTHENTICATED" /\ PollGoesOn(p, "consume")
     \/ ~late /\ state = "DENIED" /\ Answer(p, "access_denied")
     \/ ~late /\ state = "FAILED" /\ Answer(p, "failed")
     \/ ~late /\ state \in {"CONSUMED", "EXPIRED"} /\ Answer(p, "invalid_grant")
  /\ UNCHANGED <<clock, initiation, rec, polls, flowVars, consumed, issued, tokenUser>>

\* issueTokens gives up before it consumes; the request stays authenticated.
IssueRefused(p) ==
  /\ poller[p].pc = "reread"
  /\ poller[p].op = "consume"
  /\ Answer(p, "server_error")
  /\ UNCHANGED <<clock, initiation, rec, polls, flowVars, consumed, issued, tokenUser>>

\* The answer when UpdateLastPolled, UpdateState or MarkConsumed wrote nothing.
\* What the first two report is only logged.
Otherwise(op) ==
  CASE op = "poll" -> "pending"
    [] op = "expire" -> "expired_token"
    [] op = "consume" -> "invalid_grant"

\* The state in which an operation goes on after its read; UpdateState always does.
Wants(op, state) ==
  CASE op = "poll" -> state = "PENDING"
    [] op = "expire" -> TRUE
    [] op = "consume" -> state = "AUTHENTICATED"

PollReread(p) ==
  LET r == poller[p].req
      goesOn == Found(r) /\ Wants(poller[p].op, rec[r].state)
  IN
  /\ poller[p].pc = "reread"
  /\ \/ /\ goesOn
        /\ poller' = [poller EXCEPT ![p] =
             [@ EXCEPT !.pc = "write", !.snap = rec[r], !.since = clock]]
        /\ UNCHANGED told
     \/ ~goesOn /\ Answer(p, Otherwise(poller[p].op))
  /\ UNCHANGED <<clock, initiation, rec, polls, flowVars, consumed, issued, tokenUser>>

\* Fault: the time of the poll is saved with a plain update.
PollWriteUnguarded(p) ==
  LET r == poller[p].req IN
  /\ poller[p].pc = "write"
  /\ poller[p].op = "poll"
  /\ \E t \in SwapTimes(Backend, poller[p].since, clock) :
       rec' = IF Saves(r, t) THEN [rec EXCEPT ![r] = poller[p].snap] ELSE rec
  /\ Answer(p, "pending")
  /\ UNCHANGED <<clock, initiation, polls, flowVars, consumed, issued, tokenUser>>

\* UpdateLastPolled writes the record it read back, with a new time of the poll.
PollWrite(p) ==
  LET r == poller[p].req IN
  /\ poller[p].pc = "write"
  /\ poller[p].op = "poll"
  /\ \E t \in SwapTimes(Backend, poller[p].since, clock) :
       rec' = IF Swaps(r, "PENDING", t) THEN [rec EXCEPT ![r] = poller[p].snap] ELSE rec
  /\ Answer(p, "pending")
  /\ UNCHANGED <<clock, initiation, polls, flowVars, consumed, issued, tokenUser>>

\* UpdateState saves the record it read with the state EXPIRED.
ExpireWrite(p) ==
  LET r == poller[p].req IN
  /\ poller[p].pc = "write"
  /\ poller[p].op = "expire"
  /\ \E t \in SwapTimes(Backend, poller[p].since, clock) :
       rec' = IF Saves(r, t)
                THEN [rec EXCEPT ![r] = [poller[p].snap EXCEPT !.state = "EXPIRED"]]
                ELSE rec
  /\ Answer(p, "expired_token")
  /\ UNCHANGED <<clock, initiation, polls, flowVars, consumed, issued, tokenUser>>

\* MarkConsumed swaps; only the winner returns its tokens.  The answer of the
\* store may be lost after it took effect.
ConsumeWrite(p) ==
  LET r == poller[p].req IN
  /\ poller[p].pc = "write"
  /\ poller[p].op = "consume"
  /\ \E t \in SwapTimes(Backend, poller[p].since, clock) :
       \/ /\ Swaps(r, "AUTHENTICATED", t)
          /\ rec' = [rec EXCEPT ![r] = [poller[p].snap EXCEPT !.state = "CONSUMED"]]
          /\ consumed' = [consumed EXCEPT ![r] = @ + 1]
          /\ \/ /\ issued' = [issued EXCEPT ![r] = @ + 1]
                /\ tokenUser' = [tokenUser EXCEPT ![r] = poller[p].user]
                /\ Answer(p, "tokens")
             \/ UNCHANGED <<issued, tokenUser>> /\ Answer(p, "server_error")
       \/ /\ ~Swaps(r, "AUTHENTICATED", t)
          /\ Answer(p, "invalid_grant")
          /\ UNCHANGED <<rec, consumed, issued, tokenUser>>
  /\ UNCHANGED <<clock, initiation, polls, flowVars>>

\* A store call of the token request fails, or the server goes down with it.
PollAborted(p) ==
  /\ poller[p].pc # "idle"
  /\ Answer(p, IF poller[p].op = "expire" THEN "expired_token" ELSE "server_error")
  /\ UNCHANGED <<clock, initiation, rec, polls, flowVars, consumed, issued, tokenUser>>

-----------------------------------------------------------------------------

Tick ==
  /\ clock < MaxTime
  /\ clock' = clock + 1
  /\ UNCHANGED <<initiation, rec, flowVars, pollVars>>

InitiationStep(r) ==
  \/ StartFlow(r) \/ InitiationFails(r) \/ FlowEnds(r)
  \/ \E e \in Expiries : StoreRequest(r, e)

CallbackStep(c) ==
  \/ \E a \in assertions, r \in Requests :
       CallbackLoad(c, r, a) \/ CallbackUnchecked(c, r, a)
  \/ CallbackRead(c) \/ CallbackWrite(c) \/ CallbackAborted(c)

PollerStep(p) ==
  \/ \E r \in Requests : PollRead(p, r)
  \/ PollDecide(p) \/ IssueRefused(p) \/ PollReread(p)
  \/ PollWrite(p) \/ ExpireWrite(p) \/ ConsumeWrite(p) \/ PollAborted(p)

Next ==
  \/ Tick
  \/ \E r \in Requests : InitiationStep(r)
  \/ \E c \in Callbacks : CallbackStep(c)
  \/ \E p \in Pollers : PollerStep(p)

Spec == Init /\ [][Next]_vars

-----------------------------------------------------------------------------
(* Properties *)

\* The subject of the tokens is the user who authenticated this very request, in
\* a flow that decided on the authorization details the request asked for
\* (handleSuccessCallback, issueTokens).
TokensBelongToGrant ==
  \A r \in Requests :
    issued[r] > 0 =>
      /\ tokenUser[r] = grantee[r]
      /\ \E a \in assertions :
           /\ a.req = r /\ a.error = "none" /\ a.user = tokenUser[r]
           /\ r \in WithDetails => a.decided

\* MarkAuthenticated does not look at the expiry and may record an authentication
\* after it, but such an authentication is never redeemed (HandleGrant).
LateAuthenticationNeverRedeemed ==
  \A r \in Requests : issued[r] > 0 => authenticatedAt[r] <= rec[r].expiry

\* MarkConsumed does not look at the expiry either.  Tokens still never leave
\* after the request expired, because a record that has a TTL is gone by then
\* (Add, MarkConsumed).  One stored without a TTL has no such protection, and the
\* table may decide the swap with a clock reading from before the expiry.
NoTokensAfterExpiry ==
  [][\A r \in Requests :
       issued'[r] > issued[r] /\ rec[r].storedUntil # Never => clock <= rec[r].expiry]_vars

\* A client that was told of a denial or a failure never gets tokens afterwards,
\* although a poll in flight may have seen the request authenticated (HandleGrant).
NoTokensAfterRefusal ==
  [][\A r \in Requests :
       issued'[r] > issued[r] => told[r] \cap {"access_denied", "failed"} = {}]_vars

GrantStatus(r) ==
  CASE consumed[r] > 0 -> "redeemed"
    [] consumed[r] = 0 /\ rec[r].state = "ABSENT" -> "absent"
    [] consumed[r] = 0 /\ rec[r].state = "PENDING" -> "open"
    [] consumed[r] = 0 /\ rec[r].state = "AUTHENTICATED" -> "granted"
    [] OTHER -> "closed"

Promise == INSTANCE OneTimeGrant WITH
  status <- [r \in Requests |-> GrantStatus(r)],
  redeemed <- issued

\* CIBA keeps the promise of a one-time grant, although UpdateState may put FAILED
\* or EXPIRED over any state: what is decided is never open again, and what is
\* closed is never redeemed (MarkAuthenticated, MarkConsumed, UpdateLastPolled).
ImplementsOneTimeGrant == Promise!Spec
=============================================================================
