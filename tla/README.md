# ThunderID: TLA+ models of the token-issuing core

This directory holds TLA+ specifications of the parts of ThunderID that decide
who gets tokens, how often, and whether a revoked token is still accepted:
the grants, the deny lists and their copies, refresh rotation, single sign-on
sessions, and the changes of an application that take its tokens with them. They
are kept beside the Go code under `backend/internal/`; `PROJECT.json` maps every
definition to the lines it models.

## 1. The system

ThunderID is an identity server: a Go backend with SQL databases and an optional
Redis, several server processes side by side, no locks between them. What two
requests do to each other is decided by the operations of the store they share.

| Component | State | Operations | What makes it correct |
|---|---|---|---|
| Runtime store (`runtimestore/`) | entries with a TTL, in SQL, a map, or Redis | Put, Get, Update, Take, CompareFieldAndSwap, ...BeforeExpiry, PutIfNotExists, ExtendTTL | an expired entry is gone; a swap is one step |
| Device grant (`oauth2/deviceauth`, `granthandlers/device_code.go`) | one record per request, with state, user, poll interval, expiry | initiate, claim by user code, callback, poll, redeem | one journey, one issuance, to the user of that journey, not after a refusal or the expiry |
| CIBA grant (`oauth2/ciba`, `granthandlers/ciba.go`) | one record per auth_req_id | initiate, callback, poll, redeem | the same, with writes that are not all guarded |
| Revocation enforcement (`oauth2/revocation/enforcement_service.go`, `circuit_breaker.go`) | breaker state, failure count, time it opened | EnsureNotRevoked: allow, two lookups, record outcome | fail closed; never refuse for good |
| Deny lists (`oauth2/revocation/service.go`, `store.go`) | rows by jti and by criterion, with reason, cutoff, expiry | RevokeToken, RevokeTokenFamily, RevokeCriteriaBatch | a row outlives what it bars and is never weakened |
| Resource server cache (`system/revocationcache`) | a snapshot of the deny lists | refresh, lookup | a refresh never loses a row |
| Authorization code grant (`oauth2/authz`, `granthandlers/authorization_code.go`) | pending requests, codes, family markers, used assertions | authorize, callback, redeem, replay | a code is used once and a replay revokes the tokens of its first use |
| Refresh tokens (`granthandlers/refresh_token.go`) | token families | rotate | a rotated token is recognised when it comes again, and ends the family |
| Pushed requests, DPoP (`oauth2/par`, `oauth2/dpop`) | one-time request URIs, seen jti values | push, take, check | single use |
| Applications (`application`, `inboundclient`, `flow/executor`) | an entity with its secret, an inbound client with its token configuration, in two databases | create, update, regenerate the secret, delete, with a revocation before and after the write | a change takes exactly the tokens it must |
| Attribute cache (`attributecache`) | user attributes of a login, with a TTL | create, load, extend | an entry outlives the tokens that refer to it |
| Flow engine (`flow/flowexec`) | a context per execution: the current node, the levels of the flows that called, the hash of the challenge token | initiate, execute, pause, call, return, save | a flow that ends returns to its caller as it was; an execution that ended stays ended; every request is answered |
| SSO sessions and logout (`flow/session`, `oauth2/logout`) | sessions, checkpoints, participants with their token families | check, save, load, refresh, sign-out, end by subject, detach | one user per session; sign-out revokes what was issued under it |

How they interact: the grants keep their records in the runtime store and start
executions of the flow engine, whose result comes back as a signed assertion in
a callback that a browser (the "gate") submits. Redeeming a grant consults the
attribute cache and the deny lists. Every presented token passes
`EnsureNotRevoked`. No message bus lies between them: what one sees of another
is a stored record, at some later time.

What is hard here:

* every change of a grant record is a read followed, in another store call, by a
  write of the whole record as read, so any handler may overwrite another's
  change unless its write is guarded;
* the three store backends differ in when an entry expires, and the SQL backend
  decides a conditional write with a clock reading that may be older than the
  instant the statement runs;
* time is read several times in one handler, so a request may expire between two
  of its steps;
* the answer of a store call may be lost after the call took effect;
* a change of an application, a rotation or a sign-out is a sequence of calls to
  different databases, and what it read first may be stale when it writes;
* a revocation must outlive every token it bars, though tokens are issued, rows
  are written again, swept and copied to resource servers at any time;
* the breaker sees outcomes of calls it admitted in an earlier state.

`PROJECT.json` lists these as hazards, each at the line where it bites.

## 2. Modules

| Module | Models |
|---|---|
| `RuntimeStore` | visibility of entries and success of conditional writes on each backend |
| `OneTimeGrant` | abstract: what a decoupled grant promises |
| `DeviceGrant` | the device authorization grant; EXTENDS `RuntimeStore`, implements `OneTimeGrant` |
| `DeviceGrantProofs` | theorems about `DeviceGrant` |
| `CIBAGrant` | the CIBA grant; EXTENDS `RuntimeStore`, implements `OneTimeGrant` |
| `Enforcement` | EnsureNotRevoked and its circuit breaker |
| `CIBAEnforcementProofs` | theorems about `CIBAGrant` and about `Enforcement`, two components that share no state; the definitions both have carry the prefix `Enforcement` in the second |
| `AuthorizationCode` | the authorization code grant from the stored request to the revocation on replay; EXTENDS `RuntimeStore` |
| `AuthorizationCodeProofs` | theorems about `AuthorizationCode` |
| `DenyList` | a row of the deny lists: what is written, what a second write makes of it, what it rejects, when it lapses |
| `RevocationCache` | the revocation service, the lookup of the authorization server, and the snapshot of a resource server; EXTENDS `DenyList` |
| `RevocationCacheProofs` | theorems about `DenyList` and `RevocationCache` |
| `ApplicationChangeProofs` | theorems about `ApplicationChange` |
| `ApplicationChange` | an application's life and the revocations around its changes; EXTENDS `DenyList` |
| `RefreshRotation` | the refresh grant with rotation and replay detection, and the attribute cache entry; EXTENDS `DenyList` |
| `RefreshRotationProofs` | theorems about `RefreshRotation` |
| `SSOSession` | single sign-on sessions, their participants and their end |
| `SSOSessionProofs` | theorems about `SSOSession` |
| `FlowExecution` | one execution of a flow: its context between requests, its nodes, and the flows it calls |
| `FlowExecutionProofs` | theorems about `FlowExecution` |
| `MC...` | instances for TLC |

### RuntimeStore

Constant-level operators only. `Live` says when an entry is visible: the table
asks for `EXPIRY_TIME > now`, the map and Redis serve an entry in the instant of
its expiry. `StoredUntil` stores for good when the TTL is not positive.
`SwapTimes` gives the clock readings a conditional write can be decided with.
`FieldMatches` and `FieldMatchesBeforeExpiry` are the two compare-and-swap
operations. Times are whole seconds: TTLs are cut to seconds and the tables
compare at that grain.

### DeviceGrant

`rec[r]` is the stored record of request `r`. A handler is cut into steps at its
store calls and clock readings; its local variables live in `poller[p]`,
`browser[b]` or `callback[c]`.

| Actions | Code |
|---|---|
| `Initiate` | `InitiateDeviceAuthorization`, `Add` |
| `VerifyRead`, `ClaimRead`, `ClaimSwap` | `verifyUserCode`, `MarkRedeeming` |
| `JourneyEnd`, `JourneyAbandoned` | the authentication flow; its assertion is bound to the claimed request. Submissions of one step can overlap, so a flow may sign more than once, with different outcomes (`MaxEnds`) |
| `CallbackLoad`, `CallbackRead`, `CallbackSwap` | `HandleCallback`, `MarkApproved`, `MarkFailed` |
| `PollRead`, `PollDecide*`, `IssueRefused` | `ValidateGrant`, `HandleGrant`, `handlePending`, `issueTokens` |
| `PollReread` with `PollingSwap`, `ExpireSwap`, `ConsumeSwap` | `UpdatePolling`, `UpdateState`, `MarkConsumed` |
| `...Aborted` | a cancelled request, a failed store call, a crash of the server |

Assertions stay in a set and may be submitted in any order and again. `claims`,
`approvedAt`, `consumed`, `issued`, `told`, `tokenUser` and `polls` are history:
no guard reads them except the bound on `polls`. The answer of the store can be
lost after a swap (`heard = FALSE` in `ClaimSwap`, the second disjunct of
`ConsumeSwap`).

Left out: the reservation of the three keys in `Add` with its rollback and five
attempts, PKCE-like parameters, scopes and claims, and the default that
`handlePending` puts in place of a stored interval of zero, which no configured
interval produces.

### CIBAGrant

The same shape with `initiation[r]` for the flow that starts before the request
is stored. `MarkAuthenticated`, `MarkFailed`, `MarkConsumed` and
`UpdateLastPolled` swap; `UpdateState`, used by `failUncheckedRequest` and for
EXPIRED, is a read and a plain save (`guarded = FALSE`, `Saves`). No write looks
at the expiry. `Expiries` is the set of lifetimes a client may ask for: 1 stores
the record without a TTL, because the time left is cut to 0 seconds.

The time of the last poll is left out (it only chooses between
`authorization_pending` and `slow_down`), and so is parameter validation.

### Enforcement

`state`, `fails` and `openFor` are the breaker. `Begin`, `LookupJTI`,
`LookupCriteria` and `LookupFails` are the steps of one `EnsureNotRevoked`, each
containing the call to the breaker it makes under its mutex. `fails` stops at
the threshold and `openFor` at the open duration, since the code only compares
them with those. The deny lists are two growing sets; that a revocation is not
lost again is what `RevocationCache` is about.

### AuthorizationCode

`request[r]` is a stored authorization request, `spent[j]` the replay entry of an
assertion's jti, `code[k]` an authorization code with its `ExpiryTime` and the
expiry of its entry, `marker[k]` its "consumed token family" entry.

| Actions | Code |
|---|---|
| `AddRequest` | `authRequestStore.AddRequest` |
| `FlowEnds` | the flow engine signs an assertion, a success or an error |
| `Exchange` | the token endpoint spends an assertion (`consumeAuthAssertion`) |
| `CallbackLoad`, `CallbackClear` | `HandleAuthorizationCallback`, `loadAuthRequestContext`: the request is read, then deleted in another call |
| `CallbackSpend`, `CallbackInsert`, `CallbackEnds` | `mintAuthorizationCode`, `InsertAuthorizationCode` and their errors |
| `RedeemRead` | `GetAuthorizationCode`, by the code's own client or another |
| `RedeemTransaction` | `ConsumeAuthorizationCode` and `MarkConsumedTokenFamily` in one SQL transaction |
| `RedeemTake`, `RedeemMark` | the same two calls on Redis, where the transactioner does nothing |
| `RedeemFails` | the store reports an error, whether or not the take took effect |
| `RedeemLookup`, `RedeemRevoke` | `revokeTokenFamilyOnCodeReplay` |
| `RedeemCheck`, `RedeemIssue`, `RedeemEnds` | `HandleGrant` after the code was consumed |

`store` is chosen by `Init` and never changes. Time is counted in ticks, `Second`
of them to a second, because the code cuts TTLs to whole seconds and compares
durations with one second: a replay entry may end up to a second before what it
guards, and an assertion in its last second is accepted without one. The
properties say "before the last second" for this reason. A success assertion of
another request is found not to belong to it only after the request was loaded
and deleted, which `CallbackClear` keeps. `spentInTime`, `bound`, `unmarked`,
`issued` and `replayed` are history.

Left out: validation of the authorization request and of the token request's
PKCE verifier, redirect URI and client (they end a handler, as `CallbackEnds` and
`RedeemEnds` may), `prompt=none`, and the contents of tokens.

### DenyList and RevocationCache

A row is terminal or a boundary, with a cutoff and an expiry; `NoRow` stands for
no row. `Upsert` is the `ON CONFLICT` clause of the criteria, `InsertOnce` that of
the list by jti, `Matches` the lookup. `PastExpiry` is what the validation of a
token's times does with the leeway.

| Actions | Code |
|---|---|
| `Issue` | any grant; nothing keeps it from issuing while a revocation is under way |
| `RevokeToken`, `Cascade`, `CascadeFails` | `RevokeToken`: the row by jti, then in a second call the family |
| `RevokeTokenFamily`, `RevokeCriteriaBatch` | the same; the cutoff of a batch was fixed when its plan was made |
| `CleanUp` | `cleanup_expired_runtime_persistent_data` |
| `SnapshotStarts`, `SnapshotReads`, `Replace`, `SnapshotFails` | `Start`, `Snapshot` query by query, `refresh`, `replace` |
| `Restart` | `initializeWithSource` in a new process |

`revoked`, `atStart` and `installed` are history. A resource server keeps no
cutoff for jtis and families (`ResourceServerRejects`), as `matchesEntry` does not
need one there. A criterion has one `TTL`, the least its producers ask for.

### ApplicationChange

`entity` and `client` are the two records of an application, `row` the criterion
`app.key` of its client id. A change is a sequence of steps of one administrator
(`admins[a].pc`), each of which may fail (`Fails`); token requests are two steps,
because the client is loaded and authenticated before the token is built.

| Actions | Code |
|---|---|
| `StartCreate`, `CreateEntity`, `CreateInboundClient` | `createApplication` with its compensation |
| `StartUpdate`, `StartRegenerate`, `StartDelete` | `updateApplication`, the Console's flow, `deleteApplication` |
| `Plan`, `RevokeTokens`, `AdvanceCutoff` | `ApplicationActionValidator`, `criteriaRevocationExecutor` in its two modes |
| `UpdateInboundClient`, `UpdateSecret`, `DeleteInboundClient`, `DeleteEntity` | the writes of the change |

An application has one secret and one validity: the longest that its
configuration gives any token, which is all `ArtifactLifetime` keeps. Sharing
policies, dependents and localized variants are left out; their deletion can fail,
as any step can.

### RefreshRotation

`tokens` are the refresh tokens of one login in the order they were made.
`ClientRequests` are the client's, one after the other with its newest token;
`CopyRequests` come from whoever has a copy and overlap as they like. A request
is cut at its store calls: `Present`, `LookUpJTI`, `RevokeFamily` or
`LookUpCriteria`, `VerifyCredentials`, `LoadAttributes`, `Build`,
`Sign`, `RevokePrevious`, `ExtendCacheTTL`, `Respond`. `Fails` stops it anywhere,
after the call took effect or before. The revocation of the family on a replay is
best-effort: `RevokeFamilyFails` ends with the same answer as `RevokeFamily`, which
the outcome `unrevoked` tells apart for the properties. A rotated token is given
what `BuildRefreshToken` reads as left of the one presented, counted from the later
moment at which `GenerateJWT` reads the clock; the time between `Build` and `Sign`
thus prolongs the grant. `config` is one of three: rotation, renewal without
revocation, and reuse of the token presented. Left out: the cap that the governance
of an entity may put on a token (`admitAndCap`), which only shortens it, and the
activity of the session, which `SSOSession` has (`RecordActivity`).

### SSOSession

A join is one submission that reaches the session nodes of an execution; the
session it would mint, its handle and its token family have its name. `cookie` is
what the browser has.

| Actions | Code |
|---|---|
| `CheckSession` | the SSO-Check node: `Resolve`, `FindCheckpoint` |
| `Authenticate` | the nodes between |
| `FindTarget`, `InsertSession`, `RereadSession`, `TouchSession`, `SaveCheckpoint` | `SaveCheckpoint` with `targetSession` and `establishSession` |
| `SlideSession`, `RecordParticipant` | `LoadCheckpoint` |
| `IssueGrant`, `RecordActivity` | the cookie and the tokens; a refresh of the tokens |
| `FindSession`, `ListParticipants`, `Terminate` | `Terminate` |
| `RevokeSubject`, `ListSessions`, `TerminateBySubject` | the revocation executor, then `TerminateBySubject` |
| `ListParticipations`, `DetachApplication` | `DetachApplication` |
| `CleanUp` | the sweep of sessions past their absolute deadline |

Transactions run at read committed, the default of PostgreSQL: the participants
that a sign-out lists are those committed when it reads, and what joins between
its read and its delete is deleted unrevoked. Every model submission makes the
SSO check for itself, which allows more interleavings than an engine that
remembers the outcome of the check. A session has one checkpoint. Organization
units and flow versions only decide whether a session can be reused, which
`CheckSession` leaves open. `Init` is the state after a login, so that the bounds
go to what comes then.

### FlowExecution

The flow definitions are constants: the kind of each node, its graph and its edges.
`stored` is the context in the runtime store; each of `Requests` is one Execute call
with its own copy. A context is the current level and the stack of its callers.

| Actions | Code |
|---|---|
| `InitiateFlow`, `StartNew`, `Continue` | `InitiateFlow`; `InitiateAndExecute` or `execute` without an execution id; `execute` with one, up to the engine |
| `PreRequest` | `setCurrentExecutionNode` and the challenge token interceptor |
| `executeNodePackage` | one turn of the loop of `Execute`: the visit, the condition, the interceptors and the node, and what its response does to the context |
| `Save`, `SaveFails` | the end of `execute`: the context is stored, updated or removed; the store fails before or after it did so |
| `Expire` | the TTL of the entry; an update does not extend it |

A turn of the loop is one step because it works on the request's copy; what two
requests share is touched by `Continue`, `Save` and `Expire` only. What an executor, a
prompt or the CAPTCHA decides is a choice. Runtime data are the set of levels that
wrote into them. Node ids are distinct over all graphs; in the code only within one,
and every lookup is made in the graph of the current level. `disturbed` marks the
behaviours that `ClientCanContinue` is not about.

## 3. Runs

| Run | Instance | Shows |
|---|---|---|
| `device_race` | 1 request, 2 pollers, 2 browsers, 2 callbacks, 2 users, 2 outcomes of a journey, map | `TokensAtMostOnce`, `OneJourneyPerRequest`, `DecisionsSurvive`, `NoTokensAfterRefusal` |
| `device_two_requests` | 2 requests, 2 applications, 2 browsers, 1 poller, 1 callback, SQL | `TokensBelongToJourney`, `LateApprovalNeverRedeemed`, refinement of `OneTimeGrant` |
| `ciba_race` | 1 request with details, lifetimes 1 and 2, 2 pollers, 2 callbacks, map | `TokensBelongToGrant`, `LateAuthenticationNeverRedeemed`, `NoTokensAfterExpiry`, `NoTokensAfterRefusal`, refinement of `OneTimeGrant` |
| `enforcement` | 3 checks, 3 tokens, threshold 2 | `RevokedNeverAccepted`, `HalfOpenHasTrial`, `TrippedAtThreshold`, `Recovers` |
| `code_replay` | 2 requests, 1 jti, 1 code, 2 callbacks, 2 token requests, SQL and Redis, 2 ticks to a second | `CodeRedeemedOnce`, `AssertionSpentOnce`, `CodesBelongToFlow`, `ReplayRevokesOnSQL` |
| `revocation_cache` | 1 token with its jti, its family and its client, 2 writes, 1 fault | `RevokedStaysRevoked`, `SnapshotIsComplete`, `CacheNeverForgets`, `RevocationPropagates` |
| `application_change` | 2 administrators with 2 changes, 2 token requests, 2 secrets, validities 1 and 3 | `ChangeTakesTokens`, `LaterTokensValid` |
| `refresh_rotation` | 2 requests of the client, 1 with a copy, all configurations, 1 fault, validity 2, leeway 1, 5 seconds | `SpentIsReplay`, `ReplayEndsGrant`, `HonestClientServed`, `CacheOutlivesTokens` |
| `sso_sessions` | a login that is over, 2 submissions of another execution, 2 users, 2 of a sign-out, a subject's revocation and a detachment | `SignOutTakesGrants`, `NotifiedOnce`, `SessionHasOneSubject`, `CookieHasCheckpoint`, `AuthTimeNeverGoesBack` |
| `flow_execution` | 2 requests at once, 3 in all, two flows with 10 nodes that call each other 2 deep, 1 visit per request | `CallsMatch`, `LevelsIsolated`, `EndedStaysEnded`, `ClientCanContinue`, `RequestsEnd` |
| `application_validity` | 1 administrator, 2 changes | refutes `ChangeTakesAllTokens` |
| `sso_subject` | 2 submissions, nothing ends | refutes `CheckpointOfSubject` |

`CHECK_DEADLOCK FALSE` is set where bounds (`MaxTime`, `MaxPolls`, `MaxChanges`
and the like) end every behaviour, and the real system also rests when nobody
sends a request.

**Bounds.** `MaxTime` lets the clock pass the expiry and, on the map, the
retention after it, so each handler can be cut by the expiry at every step.
`MaxPolls = 2` is two token requests, enough for every pairwise race; all races
named by the properties are between two actors on one record, and the theorems
below remove the bound for the most important ones. In `code_replay` lifetimes of
two seconds and a clock that stops within the last one cover spending, redeeming
and replaying before, at and after the instant at which a cut TTL ends; one jti
and one code are enough for every race between two actors on either. Pollers, callbacks and
users are interchangeable and reduced by symmetry, and so are browsers, except
where they run different applications. In `device_race` `MaxEnds = 2` lets a journey
sign an approval and a failure, or approvals of two users, and the two callbacks
race with them; in `device_two_requests` one outcome per journey is enough, since
its properties are about which journey an outcome is of. Runs with liveness use no symmetry.
In `revocation_cache` the lifetimes are such that a row lapses, is swept and is
written again within the clock, and the six queries leave room for a write, a
sweep and an issuance between any two. In `application_change` two changes are
enough for an update before a deletion, a retry, two that overlap, and a new
application under an old client id. In `refresh_rotation` the clock passes the
expiry and its leeway, and a second or more may pass between the two clock readings
of a rotation; the family's lifetime is the validity, the least that
`ReplayEndsGrant` asks for, and the buffer covers the leeway and one such second. In
`sso_sessions` `MaxEnds = 2` lets any two of the three kinds of end overlap, and the
clock passes the deadlines. In `flow_execution` a limit of one visit per request is
reached by a task that forwards to the prompt before it, three requests are enough to pause on the second level of calls and to come
back, and the recursion meets the limit on depth. `FlowsValid` in the MC module has TLC
check that the two flows are ones the validator accepts: edges of a task for failure
and missing input lead to prompts. The theorems do not need this.

**Fairness** is assumed in three modules. In `FairSpec` of `Enforcement` the clock
goes on (`EnforcementTick`), every lookup ends (a database call returns an answer or an
error, and the caller's context ends it otherwise), and requests that carry a
token with something to look up keep arriving; `Recovers` speaks of behaviours in
which lookups fail only finitely often. In `Spec` of `RevocationCache` the loop of
the resource server goes on: its ticker fires (`SnapshotStarts`), a query answers
or fails (`SnapshotReads`), a complete snapshot is put in place (`Replace`).
In `Spec` of `FlowExecution` a request that has begun
goes on, since the engine is a loop in the goroutine of the request; no client has to
send one. In `RevocationCache` `MaxFaults` makes failures finite, so `RevocationPropagates` says that a
revocation arrives once reads succeed again. Neither the clock nor any producer is
obliged to act.

### What the refuted properties say

* `ChangeTakesAllTokens`: the row of a revocation is sized from the configuration
  the client has when the change is planned. A token issued before an update
  lowered the validity outlives the row and is accepted again.
  `ChangeTakesTokens`, which holds, is about the tokens the row was sized for.
* `CheckpointOfSubject`: `establishSession` returns whichever session won the race
  for the execution without comparing its subject, so a submission that
  authenticated another user saves its checkpoint there and the cookie of the
  winner leads to that user. It takes two submissions of one execution with
  different users; `SessionHasOneSubject` shows that nothing else does it.

### Behaviours the models contain that no run states

These are visible in the modules or follow from what they leave out; they are
minor, specific to a backend, or contained by a property that holds:

* `handlePending` computes the new poll interval from one read and `UpdatePolling`
  writes it over another: of two concurrent early polls one increment is lost.
* a FAILED device request is answered `access_denied`, where the specification of
  the grant says `server_error`.
* `failUncheckedRequest` writes FAILED over a CIBA request that another callback
  has authenticated since it was loaded.
* a CIBA record is stored for one second less than the request lives, so the poll
  of an expired `auth_req_id` finds nothing and gets `invalid_grant` rather than
  `expired_token`.
* `recordSuccess` of an overtaken check closes the half-open circuit while the
  trial is in flight.
* on Redis a second redemption between the taking of a code and the writing of its
  marker finds neither: it is refused, but the tokens of the first stay valid.
* the lookup and the spending of a refresh token are two calls and the second
  succeeds whether or not the token was spent, so two refreshes that overlap are
  both served, where `refresh-token.mdx` says that only the first will succeed.
  Presented again, the token is a replay and ends the grant (`SpentIsReplay`,
  `ReplayEndsGrant`), the tokens of both included.
* the revocation of the family on a replay may fail and is not tried again: the
  replayed token is refused, the other tokens of the family go on
  (`RevokeFamilyFails`). The premise of `ReplayEndsGrant` is a revocation that
  succeeded; `SpentIsReplay` covers both.
* a rotated token may expire some seconds after the one it replaces, where the
  comment in `BuildRefreshToken` says that refreshing extends "never the grant's
  lifetime"; `capAtLifespan` in the same file holds a second back for this reason.
  The row of a revoked family is sized for a whole validity from the replay, so it
  covers every token signed before; one that a request under way signs after the
  replay can outlive it by the seconds that its signing took, which is why
  `RejectedUntil` tells the two apart. The cache entry is extended to the expiry of
  the token presented, so the buffer has to absorb them (`BufferSuffices`).
* a client whose answer is lost after its rotation was recorded has only a spent
  token, and its retry is a replay. `HonestClientServed` has this one excuse for a
  client that is alone (`AnswerLost`): a call that fails before the rotation is
  recorded leaves it with a token that works.
* a lookup that fails because its caller went away counts towards the threshold of
  the circuit like one that the database failed.
* a family that joins a session between the read and the delete of a sign-out is
  not revoked by it.
* tokens issued with the new secret between the two revocations of a rotation of
  that secret are taken by the second one; `LaterTokensValid` is about tokens issued
  after the change is over.
* a display-only prompt whose next node is END completes the whole execution, also
  in a called flow, where `advanced-configurations.mdx` says that the caller
  resumes when a callee reaches END (`handleDisplayOnlyPromptResponse`).
* a request that is refused for its challenge token, or fails in a node, writes its
  copy of the context back. Overlapping with an accepted one it can undo the step
  and its token, which is why `ClientCanContinue` is about clients that send one
  request at a time. The token of a request that failed stays in the context, so
  that the next request passes without one (`loadPrevContext`).
* the policy of the current node is asked before its executor has been constructed,
  so a node that skips the validation of the token skips it only on a server that
  has run it before (`warm` in `shouldSkipValidation`).
* a saved frame comes back from the store without its additional data and its SSO
  flow version (`deserializeFrameStack`); neither is part of the model.

None of the first six lets a token out twice or to someone else: `device_race`,
`ciba_race` and `code_replay` check this with the same unguarded writes and
unprotected gaps in the model.

## 4. Theorems

All are proved for every value of the constants that satisfies the named
assumptions (`DeviceGrantConstants`, `CIBAGrantConstants`, `EnforcementConstants`,
`AuthorizationCodeConstants`, `DenyListConstants`, `RevocationCacheConstants`,
`ApplicationChangeConstants`, `RefreshRotationConstants`, `SSOSessionConstants`,
`FlowExecutionConstants`): any number of requests, users and handlers in
flight, each backend, any lifetimes.

* `DeviceGrantProofs!TypeCorrect`: `[]TypeOK`, together with `Bound`: a handler
  that is under way has a request. `Bound` is needed because `rec[poller[p].req]`
  means something only then.
* `DeviceGrantProofs!TokensOnce`: `[]TokensAtMostOnce`. Not inductive alone.
  The strengthening says where a record can still be: no write, whatever record it
  carries, takes a request out of CONSUMED to a state from which it can be
  redeemed (`Onward`), an approval that is consumed counts once, and
  `issued <= consumed`.
* `DeviceGrantProofs!OneJourney`: `[]OneJourneyPerRequest`, by the same argument
  one state earlier: a claim moves a request out of PENDING and no write brings
  it back.
* `DeviceGrantProofs!DecisionsKept`: the action property `DecisionsSurvive`. The
  handlers write whole records that they read earlier. `SnapInv` says that every
  record held by a poller, a browser or a callback is one that the stored record
  can have come from (`Follows`): its state is the same or an earlier one, and if
  it is the same, so are the expiry and the user. A swap compares the state, so
  what it writes over is what was read.
* `DeviceGrantProofs!TokensOfJourney`: `[]TokensBelongToJourney` from `JourneyInv`,
  which carries the evidence along: a browser on a journey has claimed the request,
  an assertion was made at the end of such a journey, a callback that swaps has one
  of its request, and an approved or consumed request has one of its user.
* `DeviceGrantProofs!LateApprovals`: `[]LateApprovalNeverRedeemed` from `TimeInv`.
  The approval itself may be written late, with an old reading of the clock. A
  token request read the approved record before it took its own reading, so that
  this reading is not older than the approval, and the swap compares it with the
  expiry.
* `DeviceGrantProofs!RefusalsFinal`: the action property `NoTokensAfterRefusal`, for
  the stores other than the database (`Backend # "db"`), from `RefusalInv`: a request whose device
  was refused is denied, failed or expired, or past its expiry. With the database a
  swap decided with an older reading can still win, which is why neither the run
  nor the theorem claims it there. That can happen only after `expired_token`:
  `DenialsFinal` proves on every store that `access_denied` is final.
* `DeviceGrantProofs!DeviceGrantKeepsPromise`: `ImplementsOneTimeGrant`, the
  refinement. Each step is an `Open`, `Grant`, `Redeem` or `Close` of
  `OneTimeGrant` or leaves its variables alone; the swaps are where `SnapInv` is needed again, and
  `OnceInv` for the redemption.
* `CIBAEnforcementProofs` on `CIBAGrant`: `CIBATypes`, with `Bound` as above, and six
  theorems from one inductive invariant, `CIBAInv`. UpdateState saves a whole record
  that was read earlier over whatever is stored, so the argument of `DeviceGrant`,
  that a write finds what was read, is not available. What replaces it is that
  nothing leads back to PENDING or AUTHENTICATED, the states that a swap asks for
  (`After`): a plain update can spoil a request and cannot revive one, and a swap that
  succeeds finds a record with the user that was read (`SnapInv`, `Follows`).
  * `TokensOfGrantee` (`[]TokensBelongToGrant`): a callback that wants AUTHENTICATED
    carries an outcome of the request with its user and, where details were asked
    for, a decision; an authenticated request and every token returned has one
    (`Consented`).
  * `LateAuthentications` (`[]LateAuthenticationNeverRedeemed`): HandleGrant compares the
    clock with the expiry after it has read the request authenticated, so that the
    clock is not older than the authentication; and a request that left PENDING is
    not authenticated again (`GrantStays`).
  * `NoTokensOnceExpired` (the action property `NoTokensAfterExpiry`), for the stores
    other than the table (`Backend # "db"`): a record with a TTL is stored no longer
    than its request lives, and the map and Redis decide the swap with the time at
    which they make it. The table compares with a reading taken by the server before
    the statement ran: TLC finds tokens that leave after the expiry with
    `Backend = "db"`. What holds there too is `IssuersReadInTime`: the handler that
    returns the tokens made its last read of the record no later than the expiry
    (`ReadBefore` adds that no handler read the clock in the future).
  * `RefusalsStand` (the action property `NoTokensAfterRefusal`), on each store: a request
    whose client was told of a denial or a failure is denied, failed or expired for
    good.
  * `CIBAKeepsPromise` (`ImplementsOneTimeGrant`), the refinement: each step is an
    `Open`, `Grant`, `Redeem` or `Close` of `OneTimeGrant` or leaves its variables
    alone. A plain update over a redeemed request is one of the latter, because the
    mapping takes the redemption from `consumed` and not from the state.
* `CIBAEnforcementProofs` on `Enforcement`: `EnforcementTypes`, `NeverAccepted`,
  `TrialInFlight`, `Tripped`, from the inductive invariant `EnforcementInv`, the
  conjunction of `EnforcementTypeOK`,
  `ChecksSound` (what a check in flight remembers of its token still holds: a
  token revoked at its beginning is still on the deny lists and will be found by
  a lookup not yet made), `HalfOpenHasTrial` and `TrippedAtThreshold`. The last
  two are inductive only together with the types.
* `AuthorizationCodeProofs`: `TypesHold`, with `Bound` as above, and four
  theorems, each from an invariant that is inductive relative to the types.
  * `CodeOnce` (`[]CodeRedeemedOnce`) from `CodesInv`: a token request past the
    take is the only one with its code, the code is consumed and gave no tokens.
  * `AssertionOnce` (`[]AssertionSpentOnce`) from `SpentInv`: the replay entry of a
    jti that was accepted in time ends at most a second before the assertion. This
    rests on `CutToSeconds`, which says how much cutting to whole seconds loses.
  * `CodesOfTheirFlow` (`[]CodesBelongToFlow`) from `FlowInv`: what a callback
    holds past the check of the binding.
  * `ReplayRevokesWithSQL` (`[]ReplayRevokesOnSQL`) from `MarkInv`: on SQL no token
    request is between take and mark, and the marker of a consumed code ends at
    most a second before the code would have expired.

* `RevocationCacheProofs`, for any tokens, criteria and interleaving. The three
  theorems about behaviours assume `LifetimesCover`, which is what the producers
  owe: a criterion is written with a lifetime, its own or the configured one, that
  covers every token carrying it. `application_validity` shows that it is needed.
  * `UpsertNeverWeakens`: a second write of a row rejects all that the first did,
    for at least as long.
  * `RevocationLasts` (`[]RevokedStaysRevoked`). "Rejected now" is not inductive: a
    row that rejects a token may lapse before it. The invariant `DenyInv` says that
    each revoked token has expired or has a row that rejects it and lasts as long
    as it (`Holds`). Writes keep this because rows only grow in the order
    `Covers`; the sweep because a lapsed row can only hold expired tokens.
  * `SnapshotsAreComplete` (`[]SnapshotIsComplete`) from `CacheInv`: during a read
    each token revoked at its start has expired, is held by a row already read into
    the snapshot, or is held by a row of a dimension still to be read (`Pending`).
    Each query turns the third case into the second.
  * `CacheKeepsRevocations` (the action property `CacheNeverForgets`) from
    `CopiesInv`. A row that was written before a token was issued may reject the
    token and lapse before it does, and a copy of such a row in the cache would
    forget the token. `Lasting` says that this does not happen to a revoked one:
    each row or copy that rejects it lasts as long as it. For this `Backed` is
    needed: what a copy has and has not lapsed, the deny lists still have, so that
    a token which a write makes rejected was rejected by no copy before.
    `ReadCovers` says that what has been read of the next snapshot covers the cache,
    row by row, although the query uses the clock of the start.
* `ApplicationChangeProofs`, for any number of changes, token requests, validities
  and crashes.
  * `ChangesTakeTokens` (`[]ChangeTakesTokens`) from `RevocationInv`. The property
    speaks of finished changes only; the invariant says of every plan that, from its
    first revocation on, the row covers its cutoff and lasts as long as the tokens
    of its lifetime (`PlansHold`), and of every finished one the same (`PromisesHold`).
    With `IssuedInPast` no token can slip in before a cutoff already written.
  * `LaterTokensStayValid` (`[]LaterTokensValid`) from `QuietInv`: no cutoff is ahead
    of the clock, and once all changes are over none is later than the end of the
    last one.
* `FlowExecutionProofs`, for any flow definitions (graphs, nodes, edges, calls), any
  number of overlapping requests and any limits. The first two follow from `Sound`:
  every context, stored or in the hands of a request, has sound levels (`Levels`),
  and a request that runs has a node.
  * `CallsAlwaysMatch` (`[]CallsMatch`).
  * `LevelsStayIsolated` (`[]LevelsIsolated`). `Isolated` is not inductive: it speaks
    of the current level, and `popFrame` makes a caller the current one, with the
    boundary that was saved for it. `CallersBounded` says of each saved frame what
    `Isolated` says of the current level. One lemma per operation on a context
    (`PushLevels`, `PopLevels`, ...) shows that it keeps `Levels`.
  * `ExecutionsStayEnded` (`[]EndedStaysEnded`) from `EndedInv`. `Update` replaces
    only what is there; the one write that does not look is that of the request that
    begins the execution. `EndedInv` says that this request is alone until then:
    nothing is stored, nothing has ended, and no other request is under way.
  * `ClientsCanContinue` (`[]ClientCanContinue`) from `TokenInv`: as long as the client
    sends one request at a time, the stored context and the copy of the request
    expect the token of the last answer, until the request pauses with a new one.
* `RefreshRotationProofs`, for any number of requests of the client and of whoever has
  a copy, in each configuration, whatever time signing takes. `TypeCorrect` proves
  `TypeOK` with `LoginInv`: a token of a login expires no earlier than the first and
  no later than a validity after it was signed, and the row of a spent one lasts as
  long as it, which the other theorems need.
  * `ReplayRecognised` (`[]SpentIsReplay`) from `SpentInv`: the row of a token that was
    spent when it was presented is still there, and the request is on the way to the
    replay branch, came out of it, with or without a revocation of the family, or
    failed itself.
  * `ReplayIsFinal` (`[]ReplayEndsGrant`) from `ReplayInv`: the row of the family is
    terminal and lasts a lifetime from its own cutoff on. Where that is at least the
    validity of refresh tokens (the condition in the property), it outlasts each token
    signed up to the cutoff, and the first token of the login for those made later.
  * `AttributesStay` (`[]CacheOutlivesTokens`) from `CacheInv`. Each refresh sets the
    lifetime anew and may overtake another. The entry covers the login's end, the
    access tokens returned so far, and those of a request that has only to answer;
    that a later call never sets less rests on `builtAt <= now`.
  * `HonestClient` (`[]HonestClientServed`) from `OneAtATime` and `ClientInv`: as long
    as nothing disturbs the client (`Undisturbed`), its newest token is unspent, or is
    being replaced by the one request under way (`Served`), until a call fails after
    the row of the token was written; then no request of the client gets past the
    deny list any more (`Lost`). `ServedStep`, `FreshStep`, `FaultStep` and `LostStep`
    are the four kinds of step.
* `SSOSessionProofs`, for any number of submissions, executions, users, sign-outs,
  revocations of subjects and detachments. `TypeCorrect` proves `TypeOK`, with what a
  submission or an end holds at each of its steps (`JoinInv`, `EndInv`).
  * `EndToldOnce` (`[]NotifiedOnce`): a session that is there has not been told of
    and does not come back, since its id is minted by one submission in a step it
    takes once (`MintInv`); nothing is saved into one before (`TargetInv`).
  * `AuthTimeStays` (the action property `AuthTimeNeverGoesBack`) from the same.
  * `CookieCheckpointed` (`[]CookieHasCheckpoint`) from `CookieInv`: a session that a
    reuse has found, or that tokens are about to name, has its checkpoint or is gone;
    a checkpoint stays as long as its session (`CheckpointStays`).
  * `OneSubject` (`[]SessionHasOneSubject`) from `SaverInv`: who is about to save is
    the user of the session or submits to the execution that minted it.
  * `SignOutComplete` (`[]SignOutTakesGrants`) from `FamilyInv` and `SignOutInv`: a
    family has its row in the session that its tokens name until it is revoked,
    superseded or lost, and a sign-out removes rows only in the step that ends it.

Only model-checked: `Recovers`, `RevocationPropagates` and `RequestsEnd`, which are
liveness under fairness, out of the prover's reach. Every invariant, every action
property and both refinements that a run checks are theorems, with the hypotheses
named above: two are for the stores other than the table (`RefusalsFinal`,
`NoTokensOnceExpired`), and those of `RevocationCache` ask for `LifetimesCover`. The type invariants
are not properties of a run: `TypeCorrect`, `CIBATypes`, `EnforcementTypes` and
`TypesHold` prove them, and the invariants of the other proof modules contain theirs.

## 5. Plan

1. `RuntimeStore`, `DeviceGrant`, `CIBAGrant`, `Enforcement`, `AuthorizationCode`
   (done): the grants, and the check behind every token.
2. `DenyList`, `RevocationCache`, `ApplicationChange`, `RefreshRotation`,
   `SSOSession` (done): how tokens end.
3. `FlowExecution` (done): the execution of the flows that lead to a grant.
4. Proofs (done): every safety property of the runs.
5. Models next: `Add` of the device grant with its three keys, shown to implement
   the one step `Initiate`; single use of pushed requests and of DPoP proofs; delivery of
   back-channel logout.

## 6. Not modelled

Token contents (claims, signatures, scopes), parameter validation and other
checks without state; pushed requests and DPoP, whose single use rests on one
`Take` or one `PutIfNotExists` of the runtime store; the inputs, the user and the
organization unit that a flow execution carries, and changes of a flow's definition
while it runs; the delivery of back-channel logout; the management domains other than
applications (users, groups, roles, identity providers, sharing and so on), which
are CRUD over SQL; declarative resources, import and export; the frontend, the
SDKs and samples. These make up most of the repository's lines, and little of what
can go wrong between two requests.
