--------------------------- MODULE RefreshRotation --------------------------
(***************************************************************************)
(* The refresh grant over the tokens of one login.  A refresh token is     *)
(* looked up in the deny lists, the credentials of its user and client are *)
(* compared with its age, its attributes are loaded, and new tokens are    *)
(* built; with rotation the token presented is then put on the deny list,  *)
(* and one found there by its own jti is a replay that revokes the family. *)
(* Each of these is a call of its own, and requests overlap.               *)
(*                                                                         *)
(* The client refreshes one after the other, each time with the newest     *)
(* token it has.  Someone else, a second process of the client or whoever  *)
(* the token leaked to, may come by a copy of it at any time and refreshes *)
(* with what it has as it likes.  One tick of the clock is a second.       *)
(***************************************************************************)
EXTENDS DenyList, Sequences

CONSTANTS
  Configs,           \* those of the configurations below that are possible
  RefreshValidity,   \* how long the first refresh token is valid
  AccessValidity,    \* how long an access token is valid
  Buffer,            \* AttributeCacheTTLBufferSeconds
  ClientRequests,    \* refresh requests of the client
  CopyRequests,     \* refresh requests with a copy
  MaxTime,           \* bound on the clock
  MaxFaults          \* bound on failed calls and lost answers

\* rotate: renew_on_grant with revoke_previous_on_renew, its default.  renew: the
\* latter is off.  reuse: both are off and the token presented is returned.
Configurations == {"rotate", "renew", "reuse"}
Requests == ClientRequests \cup CopyRequests

ASSUME RefreshRotationConstants ==
  /\ Configs \subseteq Configurations
  /\ ClientRequests \cap CopyRequests = {}
  /\ RefreshValidity \in Nat \ {0}
  /\ AccessValidity \in Nat \ {0}
  /\ Buffer \in Nat
  /\ MaxTime \in Nat
  /\ MaxFaults \in Nat

VARIABLES
  now,
  config,
  tokens,        \* the refresh tokens of the login, in the order they were made
  revokedToken,  \* their rows in REVOKED_TOKEN
  family,        \* the row token_family of the login
  changedAt,     \* the credential marker of the user or the client
  cacheExpiry,   \* when the entry of the attribute cache expires
  requests,
  clientToken,   \* the newest token the client has
  copied,        \* the tokens someone else has
  faults,        \* counted for MaxFaults
  accessExpiry   \* history: the last expiry of an access token returned

storeVars == <<tokens, revokedToken, family, changedAt, cacheExpiry>>
holderVars == <<clientToken, copied, accessExpiry>>
vars == <<now, config, storeVars, requests, holderVars, faults>>

-----------------------------------------------------------------------------

Token == [iat: Nat, exp: Nat]

\* token: the one presented.  builtAt: when the access token to be returned was built,
\* and made: the refresh token beside it.  spent: history, the rotation of the token had
\* been recorded when it was presented.  Outcome unrevoked: answered like a replay, the
\* family not revoked.
Request ==
  [pc: {"new", "jti", "replay", "criteria", "credentials", "attributes", "build",
        "sign", "revoke", "extend", "respond", "done"},
   token: Nat, made: Nat, builtAt: Nat, spent: BOOLEAN,
   outcome: {"none", "tokens", "refused", "replay", "unrevoked", "error"}]

TypeOK ==
  /\ now \in Nat
  /\ config \in Configs
  /\ tokens \in Seq(Token)
  /\ revokedToken \in [1..Len(tokens) -> Row]
  /\ family \in Row
  /\ changedAt \in Nat
  /\ cacheExpiry \in Nat
  /\ requests \in [Requests -> Request]
  /\ clientToken \in 1..Len(tokens)
  /\ copied \subseteq 1..Len(tokens)
  /\ faults \in Nat
  /\ accessExpiry \in Nat

\* The login has just been answered with its first tokens.
Init ==
  /\ now = 1
  /\ config \in Configs
  /\ tokens = <<[iat |-> 1, exp |-> 1 + RefreshValidity]>>
  /\ revokedToken = <<NoRow>>
  /\ family = NoRow
  /\ changedAt = 0
  /\ cacheExpiry = 1 + Later(AccessValidity, RefreshValidity) + Buffer
  /\ requests = [r \in Requests |->
       [pc |-> "new", token |-> 0, made |-> 0, builtAt |-> 0,
        spent |-> FALSE, outcome |-> "none"]]
  /\ clientToken = 1
  /\ copied = {}
  /\ faults = 0
  /\ accessExpiry = 1 + AccessValidity

Presented(r) == tokens[requests[r].token]
Expired(t) == PastExpiry(tokens[t].exp, now)
Spent(t) == Matches(revokedToken[t], tokens[t].iat, now)
FamilyRevoked == Matches(family, 0, now)

Goes(r, pc) == requests' = [requests EXCEPT ![r].pc = pc]
Ends(r, outcome) == requests' = [requests EXCEPT ![r].pc = "done", ![r].outcome = outcome]

-----------------------------------------------------------------------------
(* The request *)

\* ValidateRefreshToken checks the signature and the times, then the deny lists.
Present(r, t) ==
  /\ requests[r].pc = "new"
  /\ ~Expired(t)
  /\ requests' = [requests EXCEPT ![r].pc = "jti", ![r].token = t, ![r].spent = Spent(t)]
  /\ UNCHANGED <<now, config, storeVars, holderVars, faults>>

PresentByClient(r) ==
  /\ \A q \in ClientRequests : requests[q].pc \in {"new", "done"}
  /\ Present(r, clientToken)

PresentCopy(r) == \E t \in copied : Present(r, t)

\* ErrTokenIDRevoked is told from every other refusal.
LookUpJTIAsCriterion(r) ==
  /\ requests[r].pc = "jti"
  /\ IF Spent(requests[r].token) THEN Ends(r, "refused") ELSE Goes(r, "criteria")
  /\ UNCHANGED <<now, config, storeVars, holderVars, faults>>
LookUpJTI(r) ==
  /\ requests[r].pc = "jti"
  /\ Goes(r, IF Spent(requests[r].token) THEN "replay" ELSE "criteria")
  /\ UNCHANGED <<now, config, storeVars, holderVars, faults>>

\* revokeTokenFamilyOnReplay, which is on by default, then invalid_grant.
RevokeFamilyForAccess(r) ==
  /\ requests[r].pc = "replay"
  /\ family' = Upsert(family, TokenRow(now, now + AccessValidity))
  /\ Ends(r, "replay")
  /\ UNCHANGED <<now, config, tokens, revokedToken, changedAt, cacheExpiry, holderVars, faults>>
RevokeFamily(r) ==
  /\ requests[r].pc = "replay"
  /\ family' = Upsert(family, TerminalRow(now, 0))
  /\ Ends(r, "replay")
  /\ UNCHANGED <<now, config, tokens, revokedToken, changedAt, cacheExpiry, holderVars, faults>>

\* It is best-effort: when the revocation fails the answer is the same.
RevokeFamilyFails(r) ==
  /\ requests[r].pc = "replay"
  /\ faults < MaxFaults
  /\ faults' = faults + 1
  /\ Ends(r, "unrevoked")
  /\ UNCHANGED <<now, config, storeVars, holderVars>>

LookUpCriteria(r) ==
  /\ requests[r].pc = "criteria"
  /\ IF FamilyRevoked THEN Ends(r, "refused") ELSE Goes(r, "credentials")
  /\ UNCHANGED <<now, config, storeVars, holderVars, faults>>

\* verifyCredentialsUnchanged: a change in the second of the token counts.
VerifyCredentials(r) ==
  /\ requests[r].pc = "credentials"
  /\ IF Presented(r).iat <= changedAt THEN Ends(r, "refused") ELSE Goes(r, "attributes")
  /\ UNCHANGED <<now, config, storeVars, holderVars, faults>>

LoadAttributes(r) ==
  /\ requests[r].pc = "attributes"
  /\ IF now < cacheExpiry THEN Goes(r, "build") ELSE Ends(r, "error")
  /\ UNCHANGED <<now, config, storeVars, holderVars, faults>>

\* BuildAccessToken, and BuildRefreshToken up to the reading of the clock that gives
\* the new token what is left of the one it replaces.  In the leeway nothing is left.
Build(r) ==
  /\ requests[r].pc = "build"
  /\ \/ /\ config # "reuse" /\ now < Presented(r).exp
        /\ requests' = [requests EXCEPT ![r].pc = "sign", ![r].builtAt = now]
     \/ /\ config # "reuse" /\ now >= Presented(r).exp
        /\ Ends(r, "error")
     \/ /\ config = "reuse"
        /\ requests' = [requests EXCEPT ![r].pc = "extend", ![r].builtAt = now,
                                         ![r].made = requests[r].token]
  /\ UNCHANGED <<now, config, storeVars, holderVars, faults>>

\* The seconds left of the token presented when the clock was read for it.
ValidityPeriod(r) == Presented(r).exp - requests[r].builtAt

\* GenerateJWT reads the clock again: the seconds that passed since prolong the grant.
Sign(r) ==
  /\ requests[r].pc = "sign"
  /\ tokens' = Append(tokens, [iat |-> now, exp |-> now + ValidityPeriod(r)])
  /\ revokedToken' = Append(revokedToken, NoRow)
  /\ requests' = [requests EXCEPT ![r].pc = IF config = "rotate" THEN "revoke" ELSE "extend",
                                  ![r].made = Len(tokens) + 1]
  /\ UNCHANGED <<now, config, family, changedAt, cacheExpiry, holderVars, faults>>

\* RevokeRefreshToken: the insert succeeds whether or not the row is there.
RevokeMade(r) ==
  /\ requests[r].pc = "revoke"
  /\ revokedToken' = [revokedToken EXCEPT ![requests[r].made] =
                        InsertOnce(@, TokenRow(now, Presented(r).exp))]
  /\ Goes(r, "extend")
  /\ UNCHANGED <<now, config, tokens, family, changedAt, cacheExpiry, holderVars, faults>>
RevokePrevious(r) ==
  /\ requests[r].pc = "revoke"
  /\ revokedToken' = [revokedToken EXCEPT ![requests[r].token] =
                        InsertOnce(@, TokenRow(now, Presented(r).exp))]
  /\ Goes(r, "extend")
  /\ UNCHANGED <<now, config, tokens, family, changedAt, cacheExpiry, holderVars, faults>>

\* extendCacheTTL sets the expiry, and fails if the entry is gone.
DesiredExpiryUnbuffered(r) == Later(Presented(r).exp, now + AccessValidity)
DesiredExpiry(r) == Later(Presented(r).exp, now + AccessValidity) + Buffer

ExtendCacheTTL(r) ==
  /\ requests[r].pc = "extend"
  /\ \/ /\ now < cacheExpiry
        /\ cacheExpiry' = DesiredExpiry(r)
        /\ Goes(r, "respond")
     \/ /\ now >= cacheExpiry
        /\ cacheExpiry' = cacheExpiry
        /\ Ends(r, "error")
  /\ UNCHANGED <<now, config, tokens, revokedToken, family, changedAt, holderVars, faults>>

Respond(r) ==
  /\ requests[r].pc = "respond"
  /\ Ends(r, "tokens")
  /\ IF r \in ClientRequests
     THEN clientToken' = requests[r].made /\ copied' = copied
     ELSE copied' = copied \cup {requests[r].made} /\ clientToken' = clientToken
  /\ accessExpiry' = Later(accessExpiry, requests[r].builtAt + AccessValidity)
  /\ UNCHANGED <<now, config, storeVars, faults>>

\* A call fails, its answer is lost after it took effect, the process stops, or the
\* response does not arrive.
Fails(r) ==
  /\ requests[r].pc \notin {"new", "done"}
  /\ faults < MaxFaults
  /\ faults' = faults + 1
  /\ Ends(r, "error")
  /\ UNCHANGED <<now, config, storeVars, holderVars>>

-----------------------------------------------------------------------------

\* Someone else comes by the newest token of the client.
CopyToken ==
  /\ copied' = copied \cup {clientToken}
  /\ UNCHANGED <<now, config, storeVars, requests, clientToken, accessExpiry, faults>>

\* The password or the client secret is replaced.
ChangeCredential ==
  /\ changedAt = 0
  /\ changedAt' = now
  /\ UNCHANGED <<now, config, tokens, revokedToken, family, cacheExpiry, requests, holderVars, faults>>

Tick ==
  /\ now < MaxTime
  /\ now' = now + 1
  /\ UNCHANGED <<config, storeVars, requests, holderVars, faults>>

Next ==
  \/ \E r \in ClientRequests : PresentByClient(r)
  \/ \E r \in CopyRequests : PresentCopy(r)
  \/ \E r \in Requests :
       \/ LookUpJTI(r) \/ RevokeFamily(r) \/ RevokeFamilyFails(r) \/ LookUpCriteria(r)
       \/ VerifyCredentials(r) \/ LoadAttributes(r) \/ Build(r) \/ Sign(r)
       \/ RevokePrevious(r) \/ ExtendCacheTTL(r) \/ Respond(r)
       \/ Fails(r)
  \/ CopyToken
  \/ ChangeCredential
  \/ Tick

Spec == Init /\ [][Next]_vars

-----------------------------------------------------------------------------
(* Properties *)

(***************************************************************************)
(* A token that was rotated out and is presented again before it expires   *)
(* is recognised as a replay: it is not accepted, and not refused for some *)
(* other reason either, unless the request itself fails.  The row of its   *)
(* jti must outlive it.                                                    *)
(***************************************************************************)
SpentIsReplay ==
  \A r \in Requests :
    requests[r].spent /\ requests[r].pc = "done" =>
      \/ requests[r].outcome \in {"replay", "unrevoked"}
      \/ requests[r].outcome = "error" /\ faults > 0
      \/ Expired(requests[r].token)

(***************************************************************************)
(* A replay whose revocation does not fail ends the grant: the family row  *)
(* rejects every refresh token made until then as long as it is valid, and *)
(* those that requests under way make later until the login was to expire. *)
(* It takes a configured lifetime that covers the token's own.             *)
(***************************************************************************)
RejectedUntil(t) ==
  IF tokens[t].iat <= family.revokedAt THEN tokens[t].exp ELSE tokens[1].exp

ReplayEndsGrant ==
  RefreshValidity <= Lifetime /\ (\E r \in Requests : requests[r].outcome = "replay") =>
    \A t \in DOMAIN tokens : FamilyRevoked \/ PastExpiry(RejectedUntil(t), now)

(***************************************************************************)
(* A client that refreshes one after the other with its newest token is    *)
(* served, and its refresh never taken for a replay, unless credentials    *)
(* changed, the login has expired or a token was copied.  A call that      *)
(* fails before the rotation is recorded costs it that request only: it    *)
(* retries with the token it has.  Only an answer that is lost after the   *)
(* rotation was recorded leaves it with a spent token.                     *)
(***************************************************************************)
AnswerLost ==
  \E q \in ClientRequests :
    /\ requests[q].outcome = "error" /\ requests[q].token = clientToken
    /\ revokedToken[clientToken] # NoRow

HonestClientServed ==
  \A r \in ClientRequests :
    requests[r].pc = "done" =>
      \/ requests[r].outcome = "tokens"
      \/ requests[r].outcome = "error" /\ faults > 0
      \/ changedAt # 0 \/ now >= tokens[1].exp \/ copied # {} \/ AnswerLost

(***************************************************************************)
(* As long as a token that was returned is accepted, its user attributes   *)
(* are in the attribute cache.  The refresh that extends the entry sets    *)
(* its lifetime anew, and must not cut it short for the other tokens.  The *)
(* buffer has to cover the leeway and what rotations added to the login.   *)
(***************************************************************************)
BufferSuffices ==
  Leeway <= Buffer /\ \A t \in DOMAIN tokens : tokens[t].exp + Leeway <= tokens[1].exp + Buffer

CacheOutlivesTokens ==
  BufferSuffices =>
    \/ now < cacheExpiry
    \/ /\ PastExpiry(accessExpiry, now)
       /\ \A t \in copied \cup {clientToken} : Expired(t)
=============================================================================
