----------------------- MODULE RefreshRotationProofs ------------------------
(***************************************************************************)
(* Proofs about RefreshRotation: the types, that a spent token is a replay *)
(* when it comes back and that a replay ends the grant, that an honest     *)
(* client is served, and that the attribute cache outlives the tokens, for *)
(* any number of requests of the client and of whoever has a copy, at any  *)
(* lifetimes, leeway and buffer and in every configuration.                *)
(***************************************************************************)
EXTENDS RefreshRotation, SequenceTheorems, TLAPS

Pcs == {"new", "jti", "replay", "criteria", "credentials", "attributes", "build",
        "sign", "revoke", "extend", "respond", "done"}
Outcomes == {"none", "tokens", "refused", "replay", "unrevoked", "error"}
Building == {"revoke", "extend", "respond"}

\* When the first refresh token of the login expires.
End == 1 + RefreshValidity

-----------------------------------------------------------------------------
(* The tokens and their rows *)

\* A rotated token never expires before the one it replaces, and the seconds its signing
\* takes never give it more than a whole validity.
TokenInv(t) ==
  /\ 1 <= tokens[t].iat /\ tokens[t].iat <= now
  /\ End <= tokens[t].exp /\ tokens[t].exp <= tokens[t].iat + RefreshValidity
  /\ revokedToken[t] = NoRow \/
       (revokedToken[t].terminal /\ revokedToken[t].expiry = tokens[t].exp + Leeway)

RequestInv(r) ==
  /\ requests[r].pc # "new" => requests[r].token \in 1..Len(tokens)
  /\ requests[r].pc \in Building => requests[r].made \in 1..Len(tokens)
  /\ requests[r].pc = "sign" =>
       Presented(r).iat <= requests[r].builtAt /\ requests[r].builtAt <= now

LoginInv ==
  /\ now >= 1 /\ tokens[1].exp = End
  /\ \A t \in 1..Len(tokens) : TokenInv(t)
  /\ \A r \in Requests : RequestInv(r)

SpentInv(r) ==
  requests[r].spent =>
    /\ requests[r].pc # "new"
    /\ revokedToken[requests[r].token] # NoRow
    /\ \/ requests[r].pc \in {"jti", "replay"}
       \/ /\ requests[r].pc = "done"
          /\ \/ requests[r].outcome \in {"replay", "unrevoked"}
             \/ requests[r].outcome = "error" /\ faults > 0
       \/ Expired(requests[r].token)

FamilyEnded ==
  /\ family.terminal /\ family.revokedAt >= 1
  /\ family.expiry >= family.revokedAt + Lifetime + Leeway

ReplayInv(r) == requests[r].outcome = "replay" => FamilyEnded

CacheInv ==
  /\ cacheExpiry >= End + Buffer
  /\ cacheExpiry >= accessExpiry + Buffer
  /\ accessExpiry <= now + AccessValidity
  /\ \A r \in Requests :
       /\ requests[r].pc \in Building => requests[r].builtAt <= now
       /\ requests[r].pc = "respond" =>
            cacheExpiry >= requests[r].builtAt + AccessValidity + Buffer

Undisturbed == changedAt = 0 /\ now < End /\ copied = {}
Active(r) == requests[r].pc \notin {"new", "done"}

\* The request r of a client that nobody disturbs.
ServedInv(r) ==
  /\ requests[r].pc # "replay"
  /\ requests[r].pc = "done" =>
       requests[r].outcome = "tokens" \/ (requests[r].outcome = "error" /\ faults > 0)
  /\ Active(r) => requests[r].token = clientToken
  /\ requests[r].pc \in Building => revokedToken[requests[r].made] = NoRow
  /\ requests[r].pc = "revoke" => requests[r].made # requests[r].token

OneAtATime ==
  \A q, r \in ClientRequests : Active(q) /\ Active(r) => q = r

NoCopies == \A r \in CopyRequests : requests[r].pc = "new"

\* Either the newest token of the client is good, or being rotated ...
Served ==
  /\ family = NoRow
  /\ NoCopies
  /\ \A r \in ClientRequests : ServedInv(r)
  /\ \/ revokedToken[clientToken] = NoRow
     \/ \E r \in ClientRequests : requests[r].pc \in {"extend", "respond"}

\* ... or it is spent and the answer to that was lost: no request gets past the deny list.
LostRequest(r) ==
  /\ requests[r].pc \in {"new", "jti", "replay", "done"}
  /\ Active(r) => requests[r].token = clientToken

Lost ==
  /\ NoCopies
  /\ revokedToken[clientToken] # NoRow
  /\ \A r \in ClientRequests : LostRequest(r)
  /\ \E q \in ClientRequests :
       requests[q].pc = "done" /\ requests[q].outcome = "error" /\ requests[q].token = clientToken

ClientInv == Undisturbed => Served \/ Lost

-----------------------------------------------------------------------------
(* How a step moves the requests *)

Others(r) == \A q \in Requests \ {r} : requests'[q] = requests[q]

Kept(r) ==
  /\ requests'[r].token = requests[r].token /\ requests'[r].made = requests[r].made
  /\ requests'[r].builtAt = requests[r].builtAt /\ requests'[r].spent = requests[r].spent

LEMMA GoesFacts ==
  ASSUME TypeOK, NEW r \in Requests, NEW pc \in Pcs, Goes(r, pc)
  PROVE  /\ requests' \in [Requests -> Request] /\ Others(r) /\ Kept(r)
         /\ requests'[r].pc = pc /\ requests'[r].outcome = requests[r].outcome
<1>1. requests \in [Requests -> Request] /\ requests[r] \in Request
  BY DEF TypeOK
<1>2. requests' = [requests EXCEPT ![r] = [requests[r] EXCEPT !.pc = pc]]
  BY DEF Goes
<1>3. [requests[r] EXCEPT !.pc = pc] \in Request
  BY <1>1 DEF Request, Pcs
<1>4. requests'[r] = [requests[r] EXCEPT !.pc = pc]
  BY <1>1, <1>2
<1> QED
  BY <1>1, <1>2, <1>3, <1>4 DEF Others, Kept, Request

LEMMA EndsFacts ==
  ASSUME TypeOK, NEW r \in Requests, NEW outcome \in Outcomes, Ends(r, outcome)
  PROVE  /\ requests' \in [Requests -> Request] /\ Others(r) /\ Kept(r)
         /\ requests'[r].pc = "done" /\ requests'[r].outcome = outcome
<1>1. requests \in [Requests -> Request] /\ requests[r] \in Request
  BY DEF TypeOK
<1>2. requests' = [requests EXCEPT ![r] =
                     [requests[r] EXCEPT !.pc = "done", !.outcome = outcome]]
  BY <1>1 DEF Ends
<1>3. [requests[r] EXCEPT !.pc = "done", !.outcome = outcome] \in Request
  BY <1>1 DEF Request, Outcomes
<1>4. requests'[r] = [requests[r] EXCEPT !.pc = "done", !.outcome = outcome]
  BY <1>1, <1>2
<1> QED
  BY <1>1, <1>2, <1>3, <1>4 DEF Others, Kept, Request

LEMMA PresentFacts ==
  ASSUME TypeOK, NEW r \in Requests, NEW t \in 1..Len(tokens), Present(r, t)
  PROVE  /\ requests' \in [Requests -> Request] /\ Others(r)
         /\ requests[r].pc = "new" /\ requests'[r].pc = "jti"
         /\ requests'[r].token = t /\ requests'[r].spent = Spent(t)
         /\ requests'[r].outcome = requests[r].outcome /\ ~Expired(t)
         /\ UNCHANGED <<now, config, storeVars, holderVars, faults>>
<1>1. requests \in [Requests -> Request] /\ requests[r] \in Request /\ t \in Nat
  BY DEF TypeOK
<1> DEFINE new == [requests[r] EXCEPT !.pc = "jti", !.token = t, !.spent = Spent(t)]
<1>2. requests' = [requests EXCEPT ![r] = new]
  BY <1>1 DEF Present
<1>3. Spent(t) \in BOOLEAN
  <2>1. revokedToken[t] \in Row
    BY DEF TypeOK
  <2> QED BY <2>1 DEF Spent, Matches, Row
<1>4. new \in Request
  BY <1>1, <1>3 DEF Request
<1>5. requests'[r] = new
  BY <1>1, <1>2
<1>6. /\ new.pc = "jti" /\ new.token = t /\ new.spent = Spent(t)
      /\ new.outcome = requests[r].outcome
  BY <1>1 DEF Request
<1> HIDE DEF new
<1> QED
  BY <1>1, <1>2, <1>4, <1>5, <1>6 DEF Others, Present

LEMMA BuildFacts ==
  ASSUME TypeOK, NEW r \in Requests, Build(r)
  PROVE  /\ requests' \in [Requests -> Request] /\ Others(r) /\ requests[r].pc = "build"
         /\ requests'[r].token = requests[r].token /\ requests'[r].spent = requests[r].spent
         /\ \/ /\ requests'[r].pc = "sign" /\ requests'[r].builtAt = now
               /\ requests'[r].outcome = requests[r].outcome
            \/ /\ requests'[r].pc = "extend" /\ requests'[r].builtAt = now
               /\ requests'[r].made = requests[r].token
               /\ requests'[r].outcome = requests[r].outcome
            \/ /\ requests'[r].pc = "done" /\ requests'[r].outcome = "error"
               /\ now >= Presented(r).exp
         /\ UNCHANGED <<now, config, tokens, revokedToken, family, changedAt, cacheExpiry,
                        clientToken, copied, accessExpiry, faults>>
<1>1. requests \in [Requests -> Request] /\ requests[r] \in Request /\ now \in Nat
  BY DEF TypeOK
<1>2. /\ requests[r].pc = "build"
      /\ UNCHANGED <<now, config, tokens, revokedToken, family, changedAt, cacheExpiry,
                     clientToken, copied, accessExpiry, faults>>
  BY DEF Build, storeVars, holderVars
<1>3. CASE requests' = [requests EXCEPT ![r].pc = "sign", ![r].builtAt = now]
  <2> DEFINE new == [requests[r] EXCEPT !.pc = "sign", !.builtAt = now]
  <2>1. requests' = [requests EXCEPT ![r] = new]
    BY <1>1, <1>3
  <2>2. /\ new \in Request /\ new.pc = "sign" /\ new.builtAt = now
        /\ new.token = requests[r].token /\ new.spent = requests[r].spent
        /\ new.outcome = requests[r].outcome
    BY <1>1 DEF Request
  <2> HIDE DEF new
  <2> QED BY <1>1, <1>2, <2>1, <2>2 DEF Others
<1>4. CASE requests' = [requests EXCEPT ![r].pc = "extend", ![r].builtAt = now,
                                        ![r].made = requests[r].token]
  <2> DEFINE new == [requests[r] EXCEPT !.pc = "extend", !.builtAt = now,
                                        !.made = requests[r].token]
  <2>1. requests' = [requests EXCEPT ![r] = new]
    BY <1>1, <1>4
  <2>2. /\ new \in Request /\ new.pc = "extend" /\ new.builtAt = now
        /\ new.made = requests[r].token
        /\ new.token = requests[r].token /\ new.spent = requests[r].spent
        /\ new.outcome = requests[r].outcome
    BY <1>1 DEF Request
  <2> HIDE DEF new
  <2> QED BY <1>1, <1>2, <2>1, <2>2 DEF Others
<1>5. CASE Ends(r, "error") /\ now >= Presented(r).exp
  BY <1>2, <1>5, EndsFacts DEF Outcomes, Kept
<1> QED
  BY <1>3, <1>4, <1>5 DEF Build

LEMMA SignFacts ==
  ASSUME TypeOK, NEW r \in Requests, Sign(r)
  PROVE  /\ requests' \in [Requests -> Request] /\ Others(r) /\ requests[r].pc = "sign"
         /\ requests'[r].pc \in {"revoke", "extend"} /\ requests'[r].made = Len(tokens) + 1
         /\ requests'[r].token = requests[r].token /\ requests'[r].spent = requests[r].spent
         /\ requests'[r].builtAt = requests[r].builtAt
         /\ requests'[r].outcome = requests[r].outcome
         /\ UNCHANGED <<now, config, family, changedAt, cacheExpiry, clientToken, copied,
                        accessExpiry, faults>>
<1>1. requests \in [Requests -> Request] /\ requests[r] \in Request /\ Len(tokens) \in Nat
  BY LenProperties DEF TypeOK
<1>2. PICK pc \in {"revoke", "extend"} :
        requests' = [requests EXCEPT ![r].pc = pc, ![r].made = Len(tokens) + 1]
  BY DEF Sign
<1>a. PICK made \in Nat : made = Len(tokens) + 1
  BY <1>1
<1> DEFINE new == [requests[r] EXCEPT !.pc = pc, !.made = made]
<1>3. requests' = [requests EXCEPT ![r] = new]
  BY <1>1, <1>2, <1>a
<1>4. /\ new \in Request /\ new.pc = pc /\ new.made = made
      /\ new.token = requests[r].token /\ new.spent = requests[r].spent
      /\ new.builtAt = requests[r].builtAt /\ new.outcome = requests[r].outcome
  BY <1>1 DEF Request
<1> HIDE DEF new
<1> QED
  BY <1>1, <1>3, <1>4, <1>a DEF Others, Sign, holderVars

\* The two steps that make tokens.
Making(r) == Build(r) \/ Sign(r)

LEMMA MakingFacts ==
  ASSUME TypeOK, NEW r \in Requests, Making(r)
  PROVE  /\ Others(r) /\ Active(r) /\ requests[r].pc \in {"build", "sign"}
         /\ requests'[r].token = requests[r].token /\ requests'[r].spent = requests[r].spent
         /\ \/ /\ requests'[r].pc \in {"sign", "revoke", "extend"}
               /\ requests'[r].outcome = requests[r].outcome
            \/ requests'[r].pc = "done" /\ requests'[r].outcome = "error"
         /\ UNCHANGED <<now, family, changedAt, cacheExpiry, clientToken, copied,
                        accessExpiry, faults>>
BY BuildFacts, SignFacts DEF Making, Active

\* Steps of a request that was presented, but for the one that makes tokens.
Work(r) ==
  \/ LookUpJTI(r) \/ RevokeFamily(r) \/ LookUpCriteria(r) \/ VerifyCredentials(r)
  \/ LoadAttributes(r) \/ RevokePrevious(r) \/ ExtendCacheTTL(r) \/ Respond(r)
  \/ RevokeFamilyFails(r) \/ Fails(r)

LEMMA WorkFacts ==
  ASSUME TypeOK, NEW r \in Requests, Work(r)
  PROVE  /\ requests' \in [Requests -> Request] /\ Others(r) /\ Kept(r)
         /\ Active(r) /\ requests'[r].pc # "new"
         /\ requests'[r].pc \in Building => requests[r].pc \in Building
         /\ requests'[r].pc # "sign"
         /\ UNCHANGED <<config, tokens>>
<1>0. UNCHANGED <<config, tokens>>
  BY DEF Work, LookUpJTI, RevokeFamily, LookUpCriteria, VerifyCredentials, LoadAttributes,
         RevokePrevious, ExtendCacheTTL, Respond, RevokeFamilyFails, Fails, storeVars
<1>1. CASE \E pc \in {"replay", "criteria", "credentials", "attributes", "build"} :
             Goes(r, pc) /\ Active(r)
  BY <1>0, <1>1, GoesFacts DEF Pcs, Building
<1>2. CASE \E pc \in {"extend", "respond"} : Goes(r, pc) /\ requests[r].pc \in {"revoke", "extend"}
  BY <1>0, <1>2, GoesFacts DEF Pcs, Building, Active
<1>3. CASE \E outcome \in Outcomes : Ends(r, outcome) /\ Active(r)
  BY <1>0, <1>3, EndsFacts DEF Building
<1>4. CASE LookUpJTI(r) \/ LookUpCriteria(r) \/ VerifyCredentials(r) \/ LoadAttributes(r)
  BY <1>1, <1>3, <1>4 DEF LookUpJTI, LookUpCriteria, VerifyCredentials, LoadAttributes,
     Active, Outcomes
<1>5. CASE RevokeFamily(r) \/ Respond(r) \/ RevokeFamilyFails(r) \/ Fails(r)
  BY <1>3, <1>5 DEF RevokeFamily, Respond, RevokeFamilyFails, Fails, Active, Outcomes
<1>6. CASE RevokePrevious(r) \/ ExtendCacheTTL(r)
  BY <1>2, <1>3, <1>6 DEF RevokePrevious, ExtendCacheTTL, Active, Outcomes
<1> QED
  BY <1>4, <1>5, <1>6 DEF Work

Aside == CopyToken \/ ChangeCredential \/ Tick \/ UNCHANGED vars

LEMMA AsideFacts ==
  ASSUME Aside
  PROVE  UNCHANGED <<config, tokens, revokedToken, family, cacheExpiry, requests, clientToken,
                     accessExpiry, faults>>
BY DEF Aside, CopyToken, ChangeCredential, Tick, vars, storeVars, holderVars

LEMMA StepCases ==
  ASSUME [Next]_vars
  PROVE  \/ \E r \in ClientRequests : PresentByClient(r)
         \/ \E r \in CopyRequests : PresentCopy(r)
         \/ \E r \in Requests : Work(r) \/ Making(r)
         \/ Aside
BY DEF Next, Work, Making, Aside

-----------------------------------------------------------------------------
(* Types, and what every token and request of the login is like *)

LEMMA LenTokens == TypeOK => Len(tokens) \in Nat /\ \A t \in 1..Len(tokens) : tokens[t] \in Token
BY LenProperties DEF TypeOK

\* A new token is added to the ones there are.
LEMMA SignTokens ==
  ASSUME TypeOK, LoginInv, NEW r \in Requests, Sign(r)
  PROVE  /\ tokens' \in Seq(Token) /\ Len(tokens') = Len(tokens) + 1
         /\ revokedToken' \in [1..Len(tokens') -> Row]
         /\ \A t \in 1..Len(tokens) : tokens'[t] = tokens[t] /\ revokedToken'[t] = revokedToken[t]
         /\ tokens'[Len(tokens')].iat = now
         /\ End <= tokens'[Len(tokens')].exp /\ tokens'[Len(tokens')].exp <= now + RefreshValidity
         /\ revokedToken'[Len(tokens')] = NoRow
         /\ requests[r].token \in 1..Len(tokens)
<1> DEFINE exp == now + ValidityPeriod(r)
           new == [iat |-> now, exp |-> exp]
<1>1. /\ requests[r].token \in 1..Len(tokens) /\ TokenInv(requests[r].token)
      /\ Presented(r).iat <= requests[r].builtAt /\ requests[r].builtAt <= now
  BY DEF LoginInv, RequestInv, Sign
<1>2. Len(tokens) \in Nat /\ tokens[requests[r].token] \in Token
  BY <1>1, LenTokens
<1>3. exp \in Nat /\ End <= exp /\ exp <= now + RefreshValidity
  <2>1. /\ now \in Nat /\ requests[r].builtAt \in Nat /\ RefreshValidity \in Nat
        /\ Presented(r).exp \in Nat /\ Presented(r).iat \in Nat /\ End \in Nat
    <3>1. requests[r].builtAt \in Nat
      BY DEF TypeOK, Request
    <3>2. Presented(r) \in Token
      BY <1>2 DEF Presented
    <3>3. now \in Nat /\ RefreshValidity \in Nat /\ End \in Nat
      BY RefreshRotationConstants DEF TypeOK, End
    <3> QED BY <3>1, <3>2, <3>3 DEF Token
  <2>2. End <= Presented(r).exp /\ Presented(r).exp <= Presented(r).iat + RefreshValidity
    BY <1>1 DEF TokenInv, Presented
  <2> QED BY <1>1, <2>1, <2>2 DEF ValidityPeriod
<1>a. new \in Token /\ new.iat = now /\ new.exp = exp
  BY <1>3 DEF Token, TypeOK
<1>b. tokens' = Append(tokens, new)
  BY DEF Sign
<1> HIDE DEF new, exp
<1>4. NoRow \in Row
  BY DEF NoRow, Row
<1>5. /\ tokens' \in Seq(Token) /\ Len(tokens') = Len(tokens) + 1
      /\ \A t \in 1..Len(tokens) : tokens'[t] = tokens[t]
      /\ tokens'[Len(tokens) + 1] = new
  BY <1>a, <1>b, AppendProperties DEF TypeOK
<1>6. /\ revokedToken' \in [1..(Len(tokens) + 1) -> Row]
      /\ \A t \in 1..Len(tokens) : revokedToken'[t] = revokedToken[t]
      /\ revokedToken'[Len(tokens) + 1] = NoRow
  <2>1. revokedToken \in [1..Len(tokens) -> Row]
    BY DEF TypeOK
  <2>2. revokedToken' = Append(revokedToken, NoRow)
    BY DEF Sign
  <2>3. revokedToken \in Seq(Row) /\ Len(revokedToken) = Len(tokens)
    BY <1>2, <2>1
  <2>4. /\ revokedToken' \in Seq(Row) /\ Len(revokedToken') = Len(tokens) + 1
        /\ \A t \in 1..Len(tokens) : revokedToken'[t] = revokedToken[t]
        /\ revokedToken'[Len(tokens) + 1] = NoRow
    BY <1>4, <2>2, <2>3, AppendProperties
  <2> QED BY <2>4, LenProperties
<1> QED
  BY <1>1, <1>3, <1>a, <1>5, <1>6

LEMMA RowsTyped ==
  ASSUME TypeOK, NEW exp \in Nat, NEW ttl \in Nat, NEW old \in Row
  PROVE  /\ TokenRow(now, exp) \in Row /\ TerminalRow(now, ttl) \in Row
         /\ Upsert(old, TerminalRow(now, ttl)) \in Row
         /\ InsertOnce(old, TokenRow(now, exp)) \in Row
<1>1. now \in Nat /\ Lifetime \in Nat /\ Leeway \in Nat
  BY DenyListConstants DEF TypeOK
<1>2. TokenRow(now, exp) \in Row
  BY <1>1 DEF TokenRow, Row
<1>3. TerminalRow(now, ttl) \in Row
  BY <1>1 DEF TerminalRow, CriterionExpiry, Later, Row
<1>4. ASSUME NEW new \in Row PROVE Upsert(old, new) \in Row
  BY DEF Upsert, Later, Row
<1> QED
  BY <1>2, <1>3, <1>4 DEF InsertOnce

LEMMA RevokeFacts ==
  ASSUME TypeOK, LoginInv, NEW r \in Requests, RevokePrevious(r)
  PROVE  /\ requests[r].token \in 1..Len(tokens)
         /\ revokedToken' \in [1..Len(tokens) -> Row]
         /\ \A t \in 1..Len(tokens) :
              \/ revokedToken'[t] = revokedToken[t]
              \/ /\ t = requests[r].token /\ revokedToken[t] = NoRow
                 /\ revokedToken'[t] = TokenRow(now, tokens[t].exp)
<1> DEFINE p == requests[r].token
           row == TokenRow(now, tokens[p].exp)
<1>1. p \in 1..Len(tokens)
  BY DEF LoginInv, RequestInv, RevokePrevious
<1>2. revokedToken \in [1..Len(tokens) -> Row] /\ tokens[p].exp \in Nat
  BY <1>1, LenTokens DEF TypeOK, Token
<1>3. revokedToken' = [revokedToken EXCEPT ![p] = InsertOnce(revokedToken[p], row)]
  BY <1>1 DEF RevokePrevious, Presented
<1>4. InsertOnce(revokedToken[p], row) \in Row
  BY <1>1, <1>2, RowsTyped
<1>5. \/ InsertOnce(revokedToken[p], row) = revokedToken[p]
      \/ revokedToken[p] = NoRow /\ InsertOnce(revokedToken[p], row) = row
  BY DEF InsertOnce
<1> HIDE DEF p
<1>6. \A t \in 1..Len(tokens) :
        revokedToken'[t] = IF t = p THEN InsertOnce(revokedToken[p], row) ELSE revokedToken[t]
  BY <1>1, <1>2, <1>3
<1>7. revokedToken' \in [1..Len(tokens) -> Row]
  BY <1>1, <1>2, <1>3, <1>4
<1> QED
  BY <1>1, <1>5, <1>6, <1>7 DEF p

LEMMA InitTypes == Init => TypeOK /\ LoginInv
<1> SUFFICES ASSUME Init PROVE TypeOK /\ LoginInv
  OBVIOUS
<1>1. NoRow \in Row /\ [iat |-> 1, exp |-> End] \in Token
  BY RefreshRotationConstants DEF NoRow, Row, Token, End
<1>2. /\ tokens \in Seq(Token) /\ Len(tokens) = 1 /\ tokens[1].exp = End /\ tokens[1].iat = 1
      /\ revokedToken \in [1..1 -> Row] /\ revokedToken[1] = NoRow
  BY <1>1 DEF Init, End
<1>3. requests \in [Requests -> Request] /\ \A r \in Requests : requests[r].pc = "new"
  BY DEF Init, Request
<1>4. cacheExpiry \in Nat /\ accessExpiry \in Nat /\ now = 1
  BY RefreshRotationConstants DEF Init, Later
<1>5. TypeOK
  BY <1>1, <1>2, <1>3, <1>4 DEF Init, TypeOK
<1>6. LoginInv
  BY <1>2, <1>3, <1>4, RefreshRotationConstants DEF LoginInv, TokenInv, RequestInv, Building, End
<1> QED
  BY <1>5, <1>6

\* What a step keeps of the tokens when it writes no row, and of the requests when r
\* alone moved and no token was lost.
LEMMA TokensKept ==
  ASSUME LoginInv, UNCHANGED <<now, tokens, revokedToken>>
  PROVE  /\ now' >= 1 /\ tokens'[1].exp = End
         /\ \A t \in 1..Len(tokens') : TokenInv(t)'
BY DEF LoginInv, TokenInv

LEMMA RequestInvKept ==
  ASSUME LoginInv, NEW r \in Requests, Others(r), RequestInv(r)', now' = now,
         \A t \in 1..Len(tokens) : t \in 1..Len(tokens') /\ tokens'[t] = tokens[t]
  PROVE  \A q \in Requests : RequestInv(q)'
<1> SUFFICES ASSUME NEW q \in Requests, q # r PROVE RequestInv(q)'
  OBVIOUS
<1>1. requests'[q] = requests[q] /\ RequestInv(q)
  BY DEF LoginInv, Others
<1> QED
  BY <1>1 DEF RequestInv, Presented, Building

LEMMA PresentTypes ==
  ASSUME TypeOK, LoginInv, NEW r \in Requests, NEW t \in 1..Len(tokens), Present(r, t)
  PROVE  TypeOK' /\ LoginInv'
<1>1. /\ requests' \in [Requests -> Request] /\ Others(r)
      /\ requests'[r].pc = "jti" /\ requests'[r].token = t
      /\ UNCHANGED <<now, config, tokens, revokedToken, family, changedAt, cacheExpiry,
                     clientToken, copied, accessExpiry, faults>>
  BY PresentFacts DEF storeVars, holderVars
<1>2. TypeOK'
  BY <1>1 DEF TypeOK
<1>3. RequestInv(r)'
  BY <1>1 DEF RequestInv, Building
<1>4. \A q \in Requests : RequestInv(q)'
  BY <1>1, <1>3, RequestInvKept
<1> QED
  BY <1>1, <1>2, <1>4, TokensKept DEF LoginInv

LEMMA WorkTypes ==
  ASSUME TypeOK, LoginInv, NEW r \in Requests, Work(r)
  PROVE  TypeOK' /\ LoginInv'
<1>1. /\ requests' \in [Requests -> Request] /\ Others(r) /\ Kept(r)
      /\ Active(r) /\ requests'[r].pc # "new"
      /\ requests'[r].pc \in Building => requests[r].pc \in Building
      /\ requests'[r].pc # "sign" /\ UNCHANGED <<config, tokens>>
  BY WorkFacts
<1>2. RequestInv(r)'
  BY <1>1 DEF RequestInv, Active, Kept, LoginInv
<1>4. now' = now
  BY DEF Work, LookUpJTI, RevokeFamily, LookUpCriteria, VerifyCredentials, LoadAttributes,
         RevokePrevious, ExtendCacheTTL, Respond, RevokeFamilyFails, Fails
<1>3. \A q \in Requests : RequestInv(q)'
  BY <1>1, <1>2, <1>4, RequestInvKept
<1>5. ASSUME UNCHANGED <<revokedToken, family, changedAt, cacheExpiry, clientToken, copied,
                         accessExpiry>>,
             faults' \in Nat
      PROVE  TypeOK' /\ LoginInv'
  <2>1. TypeOK'
    BY <1>1, <1>4, <1>5 DEF TypeOK
  <2> QED BY <1>1, <1>3, <1>4, <1>5, <2>1, TokensKept DEF LoginInv
<1>6. CASE LookUpJTI(r) \/ LookUpCriteria(r) \/ VerifyCredentials(r) \/ LoadAttributes(r)
  BY <1>5, <1>6 DEF LookUpJTI, LookUpCriteria, VerifyCredentials, LoadAttributes, storeVars,
     holderVars, TypeOK
<1>7. CASE RevokeFamilyFails(r) \/ Fails(r)
  <2>1. faults' \in Nat
    BY <1>7 DEF RevokeFamilyFails, Fails, TypeOK
  <2> QED BY <1>5, <1>7, <2>1 DEF RevokeFamilyFails, Fails, storeVars, holderVars
<1>8. CASE RevokeFamily(r)
  <2>1. family' \in Row
    BY <1>8, RowsTyped DEF RevokeFamily, TypeOK
  <2>2. UNCHANGED <<revokedToken, changedAt, cacheExpiry, clientToken, copied, accessExpiry, faults>>
    BY <1>8 DEF RevokeFamily, holderVars
  <2>3. TypeOK'
    BY <1>1, <1>4, <2>1, <2>2 DEF TypeOK
  <2> QED BY <1>1, <1>3, <1>4, <2>2, <2>3, TokensKept DEF LoginInv
<1>9. CASE RevokePrevious(r)
  <2>1. UNCHANGED <<family, changedAt, cacheExpiry, clientToken, copied, accessExpiry, faults>>
    BY <1>9 DEF RevokePrevious, holderVars
  <2>2. /\ revokedToken' \in [1..Len(tokens) -> Row]
        /\ \A t \in 1..Len(tokens) : \/ revokedToken'[t] = revokedToken[t]
                                     \/ revokedToken'[t] = TokenRow(now, tokens[t].exp)
    BY <1>9, RevokeFacts
  <2>3. TypeOK'
    BY <1>1, <1>4, <2>1, <2>2 DEF TypeOK
  <2>4. ASSUME NEW e PROVE TokenRow(now, e).terminal /\ TokenRow(now, e).expiry = e + Leeway
    BY DEF TokenRow
  <2>5. ASSUME NEW t \in 1..Len(tokens) PROVE TokenInv(t)'
    BY <1>1, <1>4, <2>2, <2>4 DEF LoginInv, TokenInv
  <2> QED BY <1>1, <1>3, <1>4, <2>3, <2>5 DEF LoginInv
<1>10. CASE ExtendCacheTTL(r)
  <2>1. UNCHANGED <<revokedToken, family, changedAt, clientToken, copied, accessExpiry, faults>>
    BY <1>10 DEF ExtendCacheTTL, holderVars
  <2>2. Presented(r).exp \in Nat
    BY <1>10, LenTokens DEF LoginInv, RequestInv, Token, Presented, ExtendCacheTTL
  <2>3. cacheExpiry' \in Nat
    BY <1>10, <2>2, RefreshRotationConstants DEF ExtendCacheTTL, DesiredExpiry, Later, TypeOK
  <2>4. TypeOK'
    BY <1>1, <1>4, <2>1, <2>3 DEF TypeOK
  <2> QED BY <1>1, <1>3, <1>4, <2>1, <2>4, TokensKept DEF LoginInv
<1>11. CASE Respond(r)
  <2>1. UNCHANGED <<revokedToken, family, changedAt, cacheExpiry, faults>>
    BY <1>11 DEF Respond, storeVars
  <2>2. requests[r].made \in 1..Len(tokens)
    BY <1>11 DEF Respond, LoginInv, RequestInv, Building
  <2>3. clientToken' \in 1..Len(tokens) /\ copied' \subseteq 1..Len(tokens)
    BY <1>11, <2>2 DEF Respond, TypeOK
  <2>4. accessExpiry' \in Nat
    <3>1. requests[r].builtAt \in Nat /\ accessExpiry \in Nat
      BY DEF TypeOK, Request
    <3> QED BY <1>11, <3>1, RefreshRotationConstants DEF Respond, Later
  <2>5. TypeOK'
    BY <1>1, <1>4, <2>1, <2>3, <2>4 DEF TypeOK
  <2> QED BY <1>1, <1>3, <1>4, <2>1, <2>5, TokensKept DEF LoginInv
<1> QED
  BY <1>6, <1>7, <1>8, <1>9, <1>10, <1>11 DEF Work

LEMMA BuildTypes ==
  ASSUME TypeOK, LoginInv, NEW r \in Requests, Build(r)
  PROVE  TypeOK' /\ LoginInv'
<1>1. /\ requests' \in [Requests -> Request] /\ Others(r)
      /\ requests'[r].token = requests[r].token
      /\ UNCHANGED <<now, config, tokens, revokedToken, family, changedAt, cacheExpiry,
                     clientToken, copied, accessExpiry, faults>>
  BY BuildFacts
<1>2. TypeOK'
  BY <1>1 DEF TypeOK
<1>3. requests[r].token \in 1..Len(tokens) /\ now \in Nat
  BY DEF LoginInv, RequestInv, Build, TypeOK
<1>4. RequestInv(r)'
  <2>1. Presented(r).iat <= now /\ Presented(r)' = Presented(r)
    BY <1>1, <1>3 DEF LoginInv, TokenInv, Presented
  <2>2. CASE requests'[r].pc = "sign" /\ requests'[r].builtAt = now
    BY <1>1, <1>3, <2>1, <2>2 DEF RequestInv, Building
  <2>3. CASE requests'[r].pc = "extend" /\ requests'[r].made = requests[r].token
    BY <1>1, <1>3, <2>3 DEF RequestInv
  <2>4. CASE requests'[r].pc = "done"
    BY <1>1, <1>3, <2>4 DEF RequestInv, Building
  <2> QED BY <2>2, <2>3, <2>4, BuildFacts
<1>5. \A q \in Requests : RequestInv(q)'
  BY <1>1, <1>4, RequestInvKept
<1> QED
  BY <1>1, <1>2, <1>5, TokensKept DEF LoginInv

LEMMA SignTypes ==
  ASSUME TypeOK, LoginInv, NEW r \in Requests, Sign(r)
  PROVE  TypeOK' /\ LoginInv'
<1>1. /\ requests' \in [Requests -> Request] /\ Others(r)
      /\ requests'[r].pc \in {"revoke", "extend"} /\ requests'[r].made = Len(tokens) + 1
      /\ requests'[r].token = requests[r].token
      /\ UNCHANGED <<now, config, family, changedAt, cacheExpiry, clientToken, copied,
                     accessExpiry, faults>>
  BY SignFacts
<1>2. /\ tokens' \in Seq(Token) /\ Len(tokens') = Len(tokens) + 1
      /\ revokedToken' \in [1..Len(tokens') -> Row]
      /\ \A t \in 1..Len(tokens) : tokens'[t] = tokens[t] /\ revokedToken'[t] = revokedToken[t]
      /\ tokens'[Len(tokens')].iat = now
      /\ End <= tokens'[Len(tokens')].exp /\ tokens'[Len(tokens')].exp <= now + RefreshValidity
      /\ revokedToken'[Len(tokens')] = NoRow
      /\ requests[r].token \in 1..Len(tokens)
  BY SignTokens
<1>3. Len(tokens) \in Nat /\ clientToken \in 1..Len(tokens) /\ now \in Nat /\ now >= 1
  BY LenTokens DEF TypeOK, LoginInv
<1>4. /\ \A t \in 1..Len(tokens) : t \in 1..Len(tokens')
      /\ Len(tokens) + 1 \in 1..Len(tokens') /\ 1 \in 1..Len(tokens)
  BY <1>2, <1>3
<1>5. clientToken' \in 1..Len(tokens') /\ copied' \subseteq 1..Len(tokens')
  BY <1>1, <1>4 DEF TypeOK
<1>6. TypeOK'
  BY <1>1, <1>2, <1>5 DEF TypeOK
<1>7. RequestInv(r)'
  BY <1>1, <1>2, <1>4 DEF RequestInv
<1>8. \A q \in Requests : RequestInv(q)'
  BY <1>1, <1>2, <1>4, <1>7, RequestInvKept
<1>9. ASSUME NEW t \in 1..Len(tokens') PROVE TokenInv(t)'
  <2>1. CASE t \in 1..Len(tokens)
    BY <1>1, <1>2, <2>1 DEF LoginInv, TokenInv
  <2>2. CASE t = Len(tokens')
    BY <1>1, <1>2, <1>3, <2>2 DEF TokenInv
  <2> QED BY <1>2, <1>3, <2>1, <2>2
<1> QED
  BY <1>1, <1>2, <1>3, <1>4, <1>6, <1>8, <1>9 DEF LoginInv

LEMMA AsideTypes ==
  ASSUME TypeOK, LoginInv, Aside
  PROVE  TypeOK' /\ LoginInv'
<1>1. UNCHANGED <<config, tokens, revokedToken, family, cacheExpiry, requests, clientToken,
                  accessExpiry, faults>>
  BY AsideFacts
<1>2. /\ now' \in Nat /\ now' >= now /\ changedAt' \in Nat
      /\ copied' \subseteq 1..Len(tokens)
  <2>1. CASE Tick
    BY <2>1 DEF Tick, storeVars, holderVars, TypeOK
  <2>2. CASE CopyToken
    BY <2>2 DEF CopyToken, storeVars, TypeOK
  <2>3. CASE ChangeCredential
    BY <2>3 DEF ChangeCredential, holderVars, TypeOK
  <2>4. CASE UNCHANGED vars
    BY <2>4 DEF vars, storeVars, holderVars, TypeOK
  <2> QED BY <2>1, <2>2, <2>3, <2>4 DEF Aside
<1>3. TypeOK'
  BY <1>1, <1>2 DEF TypeOK
<1>4. now' >= 1 /\ now \in Nat
  BY <1>2 DEF LoginInv, TypeOK
<1>5. ASSUME NEW t \in 1..Len(tokens') PROVE TokenInv(t)'
  <2>1. t \in 1..Len(tokens) /\ tokens[t].iat \in Nat
    BY <1>1, LenTokens DEF Token
  <2> QED BY <1>1, <1>2, <1>4, <2>1 DEF LoginInv, TokenInv
<1>6. ASSUME NEW r \in Requests PROVE RequestInv(r)'
  <2>1. requests[r].builtAt \in Nat /\ RequestInv(r)
    BY DEF TypeOK, Request, LoginInv
  <2> QED BY <1>1, <1>2, <1>4, <2>1 DEF RequestInv, Presented
<1> QED
  BY <1>1, <1>3, <1>4, <1>5, <1>6 DEF LoginInv

LEMMA TypeStep == TypeOK /\ LoginInv /\ [Next]_vars => TypeOK' /\ LoginInv'
<1> SUFFICES ASSUME TypeOK, LoginInv, [Next]_vars
             PROVE  TypeOK' /\ LoginInv'
  OBVIOUS
<1>1. ASSUME NEW r \in ClientRequests, PresentByClient(r) PROVE TypeOK' /\ LoginInv'
  BY <1>1, PresentTypes DEF PresentByClient, TypeOK, Requests
<1>2. ASSUME NEW r \in CopyRequests, PresentCopy(r) PROVE TypeOK' /\ LoginInv'
  BY <1>2, PresentTypes DEF PresentCopy, TypeOK, Requests
<1> QED
  BY <1>1, <1>2, WorkTypes, BuildTypes, SignTypes, AsideTypes, StepCases DEF Making

\* The type invariant of RefreshRotation; beside it no refresh token of the login, however
\* often it was rotated, expires before the first or later than a validity after it was
\* made, and a row by jti lasts as long as the token it is about (BuildRefreshToken,
\* RevokeRefreshToken).
THEOREM TypeCorrect == Spec => [](TypeOK /\ LoginInv)
BY InitTypes, TypeStep, PTL DEF Spec

-----------------------------------------------------------------------------
(* What no step undoes *)

\* A request changes by its own steps only.
LEMMA PartyStep ==
  ASSUME TypeOK, [Next]_vars, NEW r \in Requests
  PROVE  \/ requests'[r] = requests[r]
         \/ r \in ClientRequests /\ PresentByClient(r)
         \/ r \in CopyRequests /\ PresentCopy(r)
         \/ Work(r) \/ Making(r)
<1>1. ASSUME NEW q \in Requests, q # r, Others(q) PROVE requests'[r] = requests[r]
  BY <1>1 DEF Others
<1>2. ASSUME NEW q \in Requests, NEW t \in 1..Len(tokens), Present(q, t) PROVE Others(q)
  BY <1>2, PresentFacts
<1>3. ASSUME NEW q \in Requests, Work(q) PROVE requests'[r] = requests[r] \/ Work(r)
  BY <1>1, <1>3, WorkFacts
<1>4. ASSUME NEW q \in Requests, Making(q) PROVE requests'[r] = requests[r] \/ Making(r)
  BY <1>1, <1>4, MakingFacts
<1>5. CASE Aside
  BY <1>5, AsideFacts
<1>6. ASSUME NEW q \in ClientRequests, PresentByClient(q)
      PROVE  requests'[r] = requests[r] \/ r = q
  BY <1>1, <1>2, <1>6 DEF PresentByClient, TypeOK, Requests
<1>7. ASSUME NEW q \in CopyRequests, PresentCopy(q)
      PROVE  requests'[r] = requests[r] \/ r = q
  BY <1>1, <1>2, <1>7 DEF PresentCopy, TypeOK, Requests
<1> QED
  BY <1>3, <1>4, <1>5, <1>6, <1>7, StepCases

LEMMA OwnStep ==
  ASSUME TypeOK, [Next]_vars, NEW r \in Requests
  PROVE  \/ requests'[r] = requests[r]
         \/ \E t \in 1..Len(tokens) : Present(r, t)
         \/ Work(r) \/ Making(r)
BY PartyStep DEF PresentByClient, PresentCopy, TypeOK

LEMMA TimePasses ==
  ASSUME TypeOK, [Next]_vars
  PROVE  now' >= now /\ faults' >= faults
<1>1. now \in Nat /\ faults \in Nat
  BY DEF TypeOK
<1>2. CASE UNCHANGED <<now, faults>>
  BY <1>1, <1>2
<1>3. ASSUME NEW r, NEW t, Present(r, t) PROVE UNCHANGED <<now, faults>>
  BY <1>3 DEF Present
<1>4. ASSUME NEW r, Work(r) PROVE now' >= now /\ faults' >= faults
  <2>1. CASE RevokeFamilyFails(r) \/ Fails(r)
    BY <1>1, <2>1 DEF RevokeFamilyFails, Fails
  <2> QED BY <1>2, <1>4, <2>1 DEF Work, LookUpJTI, RevokeFamily, LookUpCriteria,
             VerifyCredentials, LoadAttributes, RevokePrevious, ExtendCacheTTL, Respond
<1>5. ASSUME NEW r, Making(r) PROVE UNCHANGED <<now, faults>>
  BY <1>5 DEF Making, Build, Sign
<1>6. CASE Aside
  BY <1>1, <1>6 DEF Aside, Tick, CopyToken, ChangeCredential, vars
<1> QED
  BY <1>2, <1>3, <1>4, <1>5, <1>6, StepCases DEF PresentByClient, PresentCopy

\* Tokens are added, and a row by jti is written once.
LEMMA RowsStay ==
  ASSUME TypeOK, LoginInv, [Next]_vars, NEW t \in 1..Len(tokens)
  PROVE  /\ t \in 1..Len(tokens')
         /\ tokens'[t] = tokens[t]
         /\ \/ revokedToken'[t] = revokedToken[t]
            \/ /\ revokedToken[t] = NoRow
               /\ \E r \in Requests : RevokePrevious(r) /\ t = requests[r].token
<1>1. CASE UNCHANGED <<tokens, revokedToken>>
  BY <1>1
<1>2. ASSUME NEW r, NEW u, Present(r, u) PROVE UNCHANGED <<tokens, revokedToken>>
  BY <1>2 DEF Present, storeVars
<1>3. ASSUME NEW r \in Requests, RevokePrevious(r)
      PROVE  tokens' = tokens /\ \/ revokedToken'[t] = revokedToken[t]
                                 \/ revokedToken[t] = NoRow /\ t = requests[r].token
  <2>1. tokens' = tokens
    BY <1>3 DEF RevokePrevious
  <2> QED BY <1>3, <2>1, RevokeFacts
<1>4. ASSUME NEW r \in Requests, Work(r), ~RevokePrevious(r)
      PROVE  UNCHANGED <<tokens, revokedToken>>
  BY <1>4 DEF Work, LookUpJTI, RevokeFamily, LookUpCriteria, VerifyCredentials,
     LoadAttributes, ExtendCacheTTL, Respond, RevokeFamilyFails, Fails, storeVars
<1>5. ASSUME NEW r \in Requests, Making(r)
      PROVE  /\ t \in 1..Len(tokens') /\ tokens'[t] = tokens[t]
             /\ revokedToken'[t] = revokedToken[t]
  <2>1. CASE Sign(r)
    <3>1. Len(tokens') = Len(tokens) + 1 /\ Len(tokens) \in Nat
      BY <2>1, SignTokens, LenTokens
    <3>2. tokens'[t] = tokens[t] /\ revokedToken'[t] = revokedToken[t]
      BY <2>1, SignTokens
    <3> QED BY <3>1, <3>2
  <2> QED BY <1>5, <2>1, BuildFacts DEF Making
<1>6. CASE Aside
  BY <1>1, <1>6, AsideFacts
<1> QED
  BY <1>1, <1>2, <1>3, <1>4, <1>5, <1>6, StepCases DEF PresentByClient, PresentCopy

LEMMA ExpiredStays ==
  ASSUME TypeOK, TypeOK', LoginInv, [Next]_vars, NEW t \in 1..Len(tokens), Expired(t)
  PROVE  Expired(t)'
<1>1. now' >= now /\ now \in Nat /\ now' \in Nat
  BY TimePasses DEF TypeOK
<1>2. tokens'[t] = tokens[t] /\ tokens[t].exp \in Nat
  BY RowsStay, LenTokens DEF Token
<1>3. Leeway \in Nat
  BY DenyListConstants
<1> QED
  BY <1>1, <1>2, <1>3 DEF Expired, PastExpiry

\* The row of a token that was rotated out is found until the token has expired.
LEMMA SpentUntilExpired ==
  ASSUME TypeOK, LoginInv, NEW t \in 1..Len(tokens)
  PROVE  Spent(t) <=> revokedToken[t] # NoRow /\ ~Expired(t)
<1>1. TokenInv(t) /\ now \in Nat /\ tokens[t].exp \in Nat /\ Leeway \in Nat
  BY DenyListConstants, LenTokens DEF LoginInv, TypeOK, Token
<1>2. CASE revokedToken[t] = NoRow
  BY <1>1, <1>2 DEF Spent, Matches, NoRow
<1>3. CASE revokedToken[t] # NoRow
  BY <1>1, <1>3 DEF Spent, Matches, TokenInv, Expired, PastExpiry
<1> QED
  BY <1>2, <1>3

-----------------------------------------------------------------------------
(* A spent token is a replay *)

LEMMA SpentStep ==
  ASSUME TypeOK, TypeOK', LoginInv, [Next]_vars, NEW r \in Requests, SpentInv(r)
  PROVE  SpentInv(r)'
<1> DEFINE t == requests[r].token
<1>1. ASSUME requests[r].spent, requests'[r].token = t, requests'[r].pc # "new",
             \/ requests'[r].pc \in {"jti", "replay"}
             \/ requests'[r].pc = "done" /\ requests'[r].outcome \in {"replay", "unrevoked"}
             \/ /\ requests'[r].pc = "done" /\ requests'[r].outcome = "error"
                /\ faults' > 0 \/ faults > 0
             \/ Expired(t)
      PROVE  SpentInv(r)'
  <2>1. t \in 1..Len(tokens) /\ revokedToken[t] # NoRow
    BY <1>1 DEF SpentInv, LoginInv, RequestInv
  <2>2. revokedToken'[t] # NoRow
    BY <2>1, RowsStay
  <2>3. Expired(t) => now' >= tokens'[t].exp + Leeway
    BY <2>1, ExpiredStays DEF Expired, PastExpiry
  <2>4. faults > 0 => faults' > 0
    BY TimePasses DEF TypeOK
  <2> HIDE DEF t
  <2> QED BY <1>1, <2>2, <2>3, <2>4 DEF SpentInv, Expired, PastExpiry
<1>2. CASE requests'[r] = requests[r]
  <2>1. CASE requests[r].spent
    BY <1>1, <1>2, <2>1 DEF SpentInv
  <2> QED BY <1>2, <2>1 DEF SpentInv
<1>3. ASSUME NEW u \in 1..Len(tokens), Present(r, u) PROVE SpentInv(r)'
  <2>1. /\ requests'[r].pc = "jti" /\ requests'[r].token = u /\ requests'[r].spent = Spent(u)
        /\ UNCHANGED revokedToken
    BY <1>3, PresentFacts DEF storeVars
  <2>2. Spent(u) => revokedToken[u] # NoRow
    BY SpentUntilExpired
  <2> QED BY <2>1, <2>2 DEF SpentInv
<1>4. ASSUME requests[r].spent, ~SpentInv(r)', Work(r) PROVE FALSE
  <2>0. /\ requests'[r].token = t /\ requests'[r].pc # "new" /\ requests'[r].spent
        /\ t \in 1..Len(tokens) /\ revokedToken[t] # NoRow
    BY <1>4, WorkFacts DEF Kept, SpentInv, LoginInv, RequestInv
  <2>1. CASE LookUpJTI(r)
    <3>1. CASE Spent(t)
      <4>1. requests'[r].pc = "replay"
        BY <2>1, <3>1, GoesFacts DEF LookUpJTI, Pcs
      <4> QED BY <1>1, <1>4, <2>0, <4>1
    <3>2. CASE Expired(t)
      BY <1>1, <1>4, <2>0, <3>2
    <3> QED BY <2>0, <3>1, <3>2, SpentUntilExpired
  <2>2. CASE RevokeFamily(r) \/ RevokeFamilyFails(r)
    <3>1. requests'[r].pc = "done" /\ requests'[r].outcome \in {"replay", "unrevoked"}
      BY <2>2, EndsFacts DEF RevokeFamily, RevokeFamilyFails, Outcomes
    <3> QED BY <1>1, <1>4, <2>0, <3>1
  <2>3. CASE Fails(r)
    <3>1. faults' > 0 /\ requests'[r].pc = "done" /\ requests'[r].outcome = "error"
      BY <2>3, EndsFacts DEF Fails, TypeOK, Outcomes
    <3> QED BY <1>1, <1>4, <2>0, <3>1
  <2>4. requests[r].pc \notin {"jti", "replay", "done"} => Expired(t)
    BY <1>4 DEF SpentInv
  <2>5. CASE requests[r].pc \notin {"jti", "replay", "done"}
    BY <1>1, <1>4, <2>0, <2>4, <2>5
  <2> QED BY <1>4, <2>1, <2>2, <2>3, <2>5 DEF Work, LookUpCriteria, VerifyCredentials,
             LoadAttributes, RevokePrevious, ExtendCacheTTL, Respond
<1>5. ASSUME ~requests[r].spent, Work(r) PROVE SpentInv(r)'
  BY <1>5, WorkFacts DEF Kept, SpentInv
<1>6. CASE Making(r)
  <2>2. requests'[r].spent = requests[r].spent /\ requests'[r].token = t /\ requests'[r].pc # "new"
    BY <1>6, MakingFacts
  <2>3. requests[r].spent => Expired(t)
    BY <1>6, MakingFacts DEF SpentInv
  <2>4. CASE requests[r].spent
    BY <1>1, <2>2, <2>3, <2>4
  <2>5. CASE ~requests[r].spent
    BY <2>2, <2>5 DEF SpentInv
  <2> QED BY <2>4, <2>5
<1> QED
  BY <1>2, <1>3, <1>4, <1>5, <1>6, OwnStep

\* A refresh token that was rotated out and comes back before it expires is told from
\* every other refusal, at any interleaving of the requests that hold it.
THEOREM ReplayRecognised == Spec => []SpentIsReplay
<1> DEFINE Inv == \A r \in Requests : SpentInv(r)
<1>1. Init => Inv
  BY DEF Init, SpentInv
<1>2. TypeOK /\ TypeOK' /\ LoginInv /\ [Next]_vars /\ Inv => Inv'
  BY SpentStep
<1>3. Inv => SpentIsReplay
  BY DEF SpentInv, SpentIsReplay
<1> HIDE DEF Inv
<1> QED
  BY <1>1, <1>2, <1>3, TypeCorrect, PTL DEF Spec

-----------------------------------------------------------------------------
(* A replay ends the grant *)

FamilyInv == family = NoRow \/ FamilyEnded

LEMMA RevokeFamilyEnds ==
  ASSUME TypeOK, LoginInv, FamilyInv, NEW r \in Requests, RevokeFamily(r)
  PROVE  FamilyEnded'
<1>1. now \in Nat /\ now >= 1 /\ Lifetime \in Nat /\ Leeway \in Nat /\ family \in Row
  BY DenyListConstants DEF TypeOK, LoginInv
<1> DEFINE new == TerminalRow(now, 0)
<1>2. /\ new.terminal /\ new.revokedAt = now /\ new.expiry \in Nat
      /\ new.expiry >= now + Lifetime + Leeway
  BY <1>1 DEF TerminalRow, CriterionExpiry, Later
<1>3. family' = Upsert(family, new)
  BY DEF RevokeFamily
<1> HIDE DEF new
<1>4. /\ family'.terminal
      /\ family'.revokedAt = IF family.terminal \/ family.revokedAt > new.revokedAt
                             THEN family.revokedAt ELSE new.revokedAt
      /\ family'.expiry = Later(family.expiry, new.expiry)
  BY <1>2, <1>3 DEF Upsert
<1>5. family.expiry \in Nat /\ family.revokedAt \in Nat
  BY <1>1 DEF Row
<1>6. CASE family = NoRow
  <2>1. family'.revokedAt = now /\ family'.expiry >= now + Lifetime + Leeway
    BY <1>1, <1>2, <1>4, <1>5, <1>6 DEF NoRow, Later
  <2> QED BY <1>1, <1>4, <2>1 DEF FamilyEnded
<1>7. CASE FamilyEnded
  <2>1. family'.revokedAt = family.revokedAt /\ family'.expiry >= family.expiry
    BY <1>2, <1>4, <1>5, <1>7 DEF Later, FamilyEnded
  <2>2. family'.expiry \in Nat
    BY <1>2, <1>4, <1>5 DEF Later
  <2>3. family.revokedAt >= 1 /\ family.expiry >= family.revokedAt + Lifetime + Leeway
    BY <1>7 DEF FamilyEnded
  <2>4. PICK later \in Nat : later = family'.expiry
    BY <2>2
  <2>5. later >= family.revokedAt + Lifetime + Leeway
    BY <1>1, <1>5, <2>1, <2>3, <2>4
  <2> QED BY <1>4, <2>1, <2>3, <2>4, <2>5 DEF FamilyEnded
<1> QED
  BY <1>6, <1>7 DEF FamilyInv

LEMMA FamilyCases ==
  ASSUME [Next]_vars
  PROVE  family' = family \/ \E r \in Requests : RevokeFamily(r)
<1>1. ASSUME NEW r, NEW t, Present(r, t) PROVE family' = family
  BY <1>1 DEF Present, storeVars
<1>2. ASSUME NEW r \in Requests, Work(r) PROVE family' = family \/ RevokeFamily(r)
  BY <1>2 DEF Work, LookUpJTI, LookUpCriteria, VerifyCredentials, LoadAttributes,
     RevokePrevious, ExtendCacheTTL, Respond, RevokeFamilyFails, Fails, storeVars
<1>3. ASSUME NEW r, Making(r) PROVE family' = family
  BY <1>3 DEF Making, Build, Sign, storeVars
<1> QED
  BY <1>1, <1>2, <1>3, AsideFacts, StepCases DEF PresentByClient, PresentCopy

LEMMA ReplayStep ==
  ASSUME TypeOK, LoginInv, FamilyInv, [Next]_vars, NEW r \in Requests, ReplayInv(r)
  PROVE  ReplayInv(r)'
<1>1. CASE FamilyEnded
  <2>1. FamilyEnded'
    BY <1>1, FamilyCases, RevokeFamilyEnds DEF FamilyEnded
  <2> QED BY <2>1 DEF ReplayInv
<1>2. CASE RevokeFamily(r)
  BY <1>2, RevokeFamilyEnds DEF ReplayInv
<1>3. ASSUME ~FamilyEnded, ~RevokeFamily(r) PROVE requests'[r].outcome # "replay"
  <2>0. requests[r].outcome # "replay"
    BY <1>3 DEF ReplayInv
  <2>1. ASSUME NEW t \in 1..Len(tokens), Present(r, t) PROVE requests'[r].outcome # "replay"
    BY <2>0, <2>1, PresentFacts
  <2>2. CASE \E pc \in Pcs : Goes(r, pc)
    BY <2>0, <2>2, GoesFacts
  <2>3. CASE \E outcome \in Outcomes \ {"replay"} : Ends(r, outcome)
    BY <2>3, EndsFacts
  <2>4. CASE LookUpJTI(r) \/ LookUpCriteria(r) \/ VerifyCredentials(r) \/ LoadAttributes(r)
    BY <2>2, <2>3, <2>4 DEF LookUpJTI, LookUpCriteria, VerifyCredentials, LoadAttributes,
       Pcs, Outcomes
  <2>5. CASE RevokePrevious(r) \/ ExtendCacheTTL(r) \/ Respond(r) \/ RevokeFamilyFails(r) \/ Fails(r)
    BY <2>2, <2>3, <2>5 DEF RevokePrevious, ExtendCacheTTL, Respond, RevokeFamilyFails, Fails,
       Pcs, Outcomes
  <2>6. CASE Making(r)
    BY <2>0, <2>6, MakingFacts
  <2>7. CASE requests'[r] = requests[r]
    BY <2>0, <2>7
  <2> QED BY <1>3, <2>1, <2>4, <2>5, <2>6, <2>7, OwnStep DEF Work
<1> QED
  BY <1>1, <1>2, <1>3 DEF ReplayInv

\* A replay whose revocation does not fail ends the grant: for every refresh token made
\* until then as long as it is valid, and for those that requests under way make after it
\* until the login was to expire.
THEOREM ReplayIsFinal == Spec => []ReplayEndsGrant
<1> DEFINE Inv == FamilyInv /\ \A r \in Requests : ReplayInv(r)
<1>1. Init => Inv
  BY DEF Init, ReplayInv, FamilyInv
<1>2. TypeOK /\ LoginInv /\ [Next]_vars /\ Inv => Inv'
  <2> SUFFICES ASSUME TypeOK, LoginInv, [Next]_vars, Inv PROVE Inv'
    OBVIOUS
  <2>1. FamilyInv'
    <3>1. CASE family' = family
      BY <3>1 DEF FamilyInv, FamilyEnded
    <3> QED BY <3>1, FamilyCases, RevokeFamilyEnds DEF FamilyInv
  <2> QED BY <2>1, ReplayStep
<1>3. TypeOK /\ LoginInv /\ Inv => ReplayEndsGrant
  <2> SUFFICES ASSUME TypeOK, LoginInv, Inv, RefreshValidity <= Lifetime,
                      NEW r \in Requests, requests[r].outcome = "replay",
                      NEW t \in DOMAIN tokens
               PROVE  FamilyRevoked \/ PastExpiry(RejectedUntil(t), now)
    BY DEF ReplayEndsGrant
  <2>1. /\ family.terminal /\ family.revokedAt >= 1
        /\ family.expiry >= family.revokedAt + Lifetime + Leeway
        /\ family.expiry \in Nat /\ family.revokedAt \in Nat
    BY DEF ReplayInv, FamilyEnded, TypeOK, Row
  <2>2. t \in 1..Len(tokens) /\ tokens[t] \in Token
    BY LenProperties, LenTokens DEF TypeOK
  <2>3. /\ tokens[t].exp <= tokens[t].iat + RefreshValidity /\ tokens[1].exp = End
        /\ tokens[t].exp \in Nat /\ tokens[t].iat \in Nat
    BY <2>2 DEF LoginInv, TokenInv, Token
  <2>4. now \in Nat /\ Lifetime \in Nat /\ Leeway \in Nat /\ RefreshValidity \in Nat
    BY RefreshRotationConstants, DenyListConstants DEF TypeOK
  <2>5. RejectedUntil(t) \in Nat /\ RejectedUntil(t) <= family.revokedAt + Lifetime
    BY <2>1, <2>3, <2>4 DEF RejectedUntil, End
  <2> QED BY <2>1, <2>4, <2>5 DEF FamilyRevoked, Matches, PastExpiry
<1> HIDE DEF Inv
<1> QED
  BY <1>1, <1>2, <1>3, TypeCorrect, PTL DEF Spec

-----------------------------------------------------------------------------
(* The attribute cache outlives the tokens *)

CacheRequest(r) ==
  /\ requests[r].pc \in Building => requests[r].builtAt <= now
  /\ requests[r].pc = "respond" =>
       cacheExpiry >= requests[r].builtAt + AccessValidity + Buffer

LEMMA ExtendFacts ==
  ASSUME TypeOK, LoginInv, NEW r \in Requests, ExtendCacheTTL(r), cacheExpiry' # cacheExpiry
  PROVE  cacheExpiry' >= End + Buffer /\ cacheExpiry' >= now + AccessValidity + Buffer
<1>1. Presented(r).exp \in Nat /\ End <= Presented(r).exp
  BY LenTokens DEF LoginInv, RequestInv, TokenInv, Token, Presented, ExtendCacheTTL
<1>2. cacheExpiry' = Later(Presented(r).exp, now + AccessValidity) + Buffer
  BY DEF ExtendCacheTTL, DesiredExpiry
<1>3. now \in Nat /\ End \in Nat /\ AccessValidity \in Nat /\ Buffer \in Nat
  BY RefreshRotationConstants DEF TypeOK, End
<1> QED
  BY <1>1, <1>2, <1>3 DEF Later

LEMMA CacheCases ==
  ASSUME TypeOK, LoginInv, [Next]_vars
  PROVE  \/ UNCHANGED <<cacheExpiry, accessExpiry>>
         \/ /\ accessExpiry' = accessExpiry
            /\ cacheExpiry' >= End + Buffer /\ cacheExpiry' >= now + AccessValidity + Buffer
         \/ /\ cacheExpiry' = cacheExpiry
            /\ \E r \in Requests :
                 /\ requests[r].pc = "respond"
                 /\ accessExpiry' = Later(accessExpiry, requests[r].builtAt + AccessValidity)
<1>1. ASSUME NEW r, NEW t, Present(r, t) PROVE UNCHANGED <<cacheExpiry, accessExpiry>>
  BY <1>1 DEF Present, storeVars, holderVars
<1>2. ASSUME NEW r \in Requests, ExtendCacheTTL(r)
      PROVE  /\ accessExpiry' = accessExpiry
             /\ \/ cacheExpiry' = cacheExpiry
                \/ cacheExpiry' >= End + Buffer /\ cacheExpiry' >= now + AccessValidity + Buffer
  <2>1. accessExpiry' = accessExpiry
    BY <1>2 DEF ExtendCacheTTL, holderVars
  <2> QED BY <1>2, <2>1, ExtendFacts
<1>3. ASSUME NEW r \in Requests, Respond(r)
      PROVE  /\ cacheExpiry' = cacheExpiry /\ requests[r].pc = "respond"
             /\ accessExpiry' = Later(accessExpiry, requests[r].builtAt + AccessValidity)
  BY <1>3 DEF Respond, storeVars
<1>4. ASSUME NEW r \in Requests, Work(r), ~ExtendCacheTTL(r), ~Respond(r)
      PROVE  UNCHANGED <<cacheExpiry, accessExpiry>>
  BY <1>4 DEF Work, LookUpJTI, RevokeFamily, LookUpCriteria, VerifyCredentials,
     LoadAttributes, RevokePrevious, RevokeFamilyFails, Fails, storeVars, holderVars
<1>5. ASSUME NEW r, Making(r) PROVE UNCHANGED <<cacheExpiry, accessExpiry>>
  BY <1>5 DEF Making, Build, Sign, storeVars, holderVars
<1> QED
  BY <1>1, <1>2, <1>3, <1>4, <1>5, AsideFacts, StepCases DEF PresentByClient, PresentCopy

LEMMA CacheRequestStep ==
  ASSUME TypeOK, TypeOK', LoginInv, CacheInv, [Next]_vars, NEW r \in Requests
  PROVE  CacheRequest(r)'
<1>0. CacheRequest(r)
  BY DEF CacheInv, CacheRequest
<1>1. /\ now' >= now /\ now \in Nat /\ now' \in Nat /\ cacheExpiry \in Nat /\ cacheExpiry' \in Nat
      /\ requests[r].builtAt \in Nat /\ AccessValidity \in Nat /\ Buffer \in Nat
  BY TimePasses, RefreshRotationConstants DEF TypeOK, Request
<1>2. ASSUME requests'[r].builtAt = requests[r].builtAt,
             requests'[r].pc \in Building => requests[r].pc \in Building,
             requests'[r].pc = "respond" =>
               requests[r].pc = "respond" \/ cacheExpiry' >= now + AccessValidity + Buffer
      PROVE  CacheRequest(r)'
  <2>1. ASSUME requests'[r].pc \in Building PROVE requests[r].builtAt <= now
    BY <1>0, <1>2, <2>1 DEF CacheRequest
  <2>2. ASSUME requests'[r].pc = "respond"
        PROVE  cacheExpiry' >= requests[r].builtAt + AccessValidity + Buffer
    <3>1. requests[r].builtAt <= now
      BY <2>1, <2>2 DEF Building
    <3>2. CASE cacheExpiry' >= now + AccessValidity + Buffer
      BY <1>1, <3>1, <3>2
    <3>3. CASE cacheExpiry' = cacheExpiry /\ requests[r].pc = "respond"
      BY <1>0, <3>3 DEF CacheRequest
    <3> QED BY <1>2, <2>2, <3>2, <3>3, CacheCases
  <2>3. ASSUME requests'[r].pc \in Building PROVE requests'[r].builtAt <= now'
    BY <1>1, <1>2, <2>1, <2>3
  <2> QED BY <1>2, <2>2, <2>3 DEF CacheRequest
<1>3. CASE requests'[r] = requests[r]
  BY <1>2, <1>3
<1>4. ASSUME NEW t \in 1..Len(tokens), Present(r, t) PROVE CacheRequest(r)'
  BY <1>4, PresentFacts DEF CacheRequest, Building
<1>5. CASE Work(r)
  <2>1. /\ requests'[r].builtAt = requests[r].builtAt
        /\ requests'[r].pc \in Building => requests[r].pc \in Building
    BY <1>5, WorkFacts DEF Kept
  <2>2. ASSUME requests'[r].pc = "respond", requests[r].pc # "respond"
        PROVE  cacheExpiry' >= now + AccessValidity + Buffer
    <3>1. CASE ExtendCacheTTL(r)
      <4>1. CASE now < cacheExpiry
        <5>1. Presented(r).exp \in Nat
          BY <3>1, LenTokens DEF LoginInv, RequestInv, Token, Presented, ExtendCacheTTL
        <5>2. cacheExpiry' = Later(Presented(r).exp, now + AccessValidity) + Buffer
          BY <1>1, <3>1, <4>1 DEF ExtendCacheTTL, DesiredExpiry
        <5> QED BY <1>1, <5>1, <5>2 DEF Later
      <4>2. CASE now >= cacheExpiry
        BY <1>1, <2>2, <3>1, <4>2, EndsFacts DEF ExtendCacheTTL, Outcomes
      <4> QED BY <1>1, <4>1, <4>2
    <3>2. CASE RevokePrevious(r)
      BY <2>2, <3>2, GoesFacts DEF RevokePrevious, Pcs
    <3>3. CASE Respond(r) \/ RevokeFamilyFails(r) \/ Fails(r) \/ RevokeFamily(r)
      BY <2>2, <3>3, EndsFacts DEF Respond, RevokeFamilyFails, Fails, RevokeFamily, Outcomes
    <3>4. requests[r].pc \in Building
      BY <2>1, <2>2 DEF Building
    <3> QED BY <1>5, <3>1, <3>2, <3>3, <3>4 DEF Work, Building, LookUpJTI, LookUpCriteria,
               VerifyCredentials, LoadAttributes
  <2> QED BY <1>2, <2>1, <2>2
<1>6. CASE Making(r)
  <2>1. requests'[r].pc \in Building => requests'[r].builtAt <= now
    <3>1. CASE Build(r)
      BY <1>1, <3>1, BuildFacts DEF Building
    <3>2. CASE Sign(r)
      BY <3>2, SignFacts DEF LoginInv, RequestInv
    <3> QED BY <1>6, <3>1, <3>2 DEF Making
  <2>2. requests'[r].pc # "respond" /\ now' = now
    BY <1>6, MakingFacts
  <2> QED BY <2>1, <2>2 DEF CacheRequest
<1> QED
  BY <1>3, <1>4, <1>5, <1>6, OwnStep

LEMMA CacheStep == TypeOK /\ LoginInv /\ CacheInv /\ [Next]_vars => CacheInv'
<1> SUFFICES ASSUME TypeOK, LoginInv, CacheInv, [Next]_vars
             PROVE  CacheInv'
  OBVIOUS
<1>0. TypeOK'
  BY TypeStep
<1>1. /\ now' >= now /\ now \in Nat /\ now' \in Nat /\ cacheExpiry \in Nat /\ cacheExpiry' \in Nat
      /\ accessExpiry \in Nat /\ accessExpiry' \in Nat
      /\ End \in Nat /\ AccessValidity \in Nat /\ Buffer \in Nat
  BY <1>0, TimePasses, RefreshRotationConstants DEF TypeOK, End
<1>2. /\ cacheExpiry >= End + Buffer /\ cacheExpiry >= accessExpiry + Buffer
      /\ accessExpiry <= now + AccessValidity
  BY DEF CacheInv
<1>3. /\ cacheExpiry' >= End + Buffer /\ cacheExpiry' >= accessExpiry' + Buffer
      /\ accessExpiry' <= now' + AccessValidity
  <2>0. accessExpiry <= now' + AccessValidity
    <3>1. PICK later \in Nat : later = now'
      BY <1>1
    <3>2. now <= later /\ now \in Nat /\ accessExpiry \in Nat /\ AccessValidity \in Nat
      BY <1>1, <3>1
    <3>3. accessExpiry <= later + AccessValidity
      BY <1>2, <3>2
    <3> QED BY <3>1, <3>3
  <2>1. CASE UNCHANGED <<cacheExpiry, accessExpiry>>
    BY <1>2, <2>0, <2>1
  <2>2. CASE /\ accessExpiry' = accessExpiry
             /\ cacheExpiry' >= End + Buffer /\ cacheExpiry' >= now + AccessValidity + Buffer
    <3>1. cacheExpiry' >= accessExpiry + Buffer
      BY <1>1, <1>2, <2>2
    <3> QED BY <2>0, <2>2, <3>1
  <2>3. ASSUME NEW r \in Requests, cacheExpiry' = cacheExpiry, requests[r].pc = "respond",
               accessExpiry' = Later(accessExpiry, requests[r].builtAt + AccessValidity)
        PROVE  /\ cacheExpiry' >= End + Buffer /\ cacheExpiry' >= accessExpiry' + Buffer
               /\ accessExpiry' <= now' + AccessValidity
    <3>1. requests[r].builtAt \in Nat
      BY DEF TypeOK, Request
    <3>2. /\ requests[r].builtAt <= now
          /\ cacheExpiry >= requests[r].builtAt + AccessValidity + Buffer
      BY <2>3 DEF CacheInv, Building
    <3> QED BY <1>1, <1>2, <2>3, <3>1, <3>2 DEF Later
  <2> QED BY <2>1, <2>2, <2>3, CacheCases
<1> QED
  BY <1>0, <1>3, CacheRequestStep DEF CacheInv, CacheRequest

LEMMA CacheAlways == Spec => []CacheInv
<1>1. Init => CacheInv
  <2> SUFFICES ASSUME Init PROVE CacheInv
    OBVIOUS
  <2>1. /\ now = 1 /\ accessExpiry = 1 + AccessValidity
        /\ cacheExpiry = 1 + Later(AccessValidity, RefreshValidity) + Buffer
        /\ \A r \in Requests : requests[r].pc = "new"
    BY DEF Init
  <2>2. AccessValidity \in Nat /\ RefreshValidity \in Nat /\ Buffer \in Nat
    BY RefreshRotationConstants
  <2>3. /\ cacheExpiry >= End + Buffer /\ cacheExpiry >= accessExpiry + Buffer
        /\ accessExpiry <= now + AccessValidity
    BY <2>1, <2>2 DEF Later, End
  <2> QED BY <2>1, <2>3 DEF CacheInv, Building
<1> QED
  BY <1>1, CacheStep, TypeCorrect, PTL DEF Spec

\* As long as a token that was returned is accepted, the attributes of its user are in
\* the cache: no refresh, whichever overtakes which, cuts their lifetime short.
THEOREM AttributesStay == Spec => []CacheOutlivesTokens
<1>1. TypeOK /\ LoginInv /\ CacheInv => CacheOutlivesTokens
  <2> SUFFICES ASSUME TypeOK, LoginInv, CacheInv, BufferSuffices, ~(now < cacheExpiry)
               PROVE  /\ PastExpiry(accessExpiry, now)
                      /\ \A t \in copied \cup {clientToken} : Expired(t)
    BY DEF CacheOutlivesTokens
  <2>1. /\ now \in Nat /\ cacheExpiry \in Nat /\ accessExpiry \in Nat
        /\ End \in Nat /\ Buffer \in Nat /\ Leeway \in Nat
    BY RefreshRotationConstants, DenyListConstants DEF TypeOK, End
  <2>2. cacheExpiry >= End + Buffer /\ cacheExpiry >= accessExpiry + Buffer /\ Leeway <= Buffer
    BY DEF CacheInv, BufferSuffices
  <2>3. ASSUME NEW t \in copied \cup {clientToken}
        PROVE  tokens[t].exp \in Nat /\ tokens[t].exp + Leeway <= End + Buffer
    <3>1. t \in 1..Len(tokens) /\ DOMAIN tokens = 1..Len(tokens)
      BY LenProperties DEF TypeOK
    <3> QED BY <3>1, LenTokens DEF BufferSuffices, LoginInv, Token
  <2> QED BY <2>1, <2>2, <2>3 DEF PastExpiry, Expired
<1> QED
  BY <1>1, CacheAlways, TypeCorrect, PTL

-----------------------------------------------------------------------------
(* An honest client is served *)

LEMMA ActiveBefore ==
  ASSUME TypeOK, [Next]_vars, NEW r \in Requests, Active(r)'
  PROVE  Active(r) \/ (r \in ClientRequests /\ PresentByClient(r))
                   \/ (r \in CopyRequests /\ PresentCopy(r))
BY PartyStep, WorkFacts, MakingFacts DEF Active

LEMMA OneAtATimeStep == TypeOK /\ OneAtATime /\ [Next]_vars => OneAtATime'
<1> SUFFICES ASSUME TypeOK, OneAtATime, [Next]_vars,
                    NEW q \in ClientRequests, NEW r \in ClientRequests, Active(q)', Active(r)'
             PROVE  q = r
  BY DEF OneAtATime
<1>1. Active(q) \/ PresentByClient(q)
  BY ActiveBefore, RefreshRotationConstants DEF Requests
<1>2. Active(r) \/ PresentByClient(r)
  BY ActiveBefore, RefreshRotationConstants DEF Requests
<1>3. CASE Active(q) /\ Active(r)
  BY <1>3 DEF OneAtATime
<1>4. ASSUME NEW c \in ClientRequests, PresentByClient(c), NEW d \in ClientRequests, c # d
      PROVE  ~Active(d)'
  <2>1. requests'[d] = requests[d]
    BY <1>4, PresentFacts DEF PresentByClient, Others, TypeOK, Requests
  <2> QED BY <1>4, <2>1 DEF PresentByClient, Active
<1> QED
  BY <1>1, <1>2, <1>3, <1>4

LEMMA UndisturbedBefore ==
  ASSUME TypeOK, TypeOK', LoginInv, [Next]_vars, Undisturbed'
  PROVE  Undisturbed
<1>1. changedAt = 0 /\ copied = {}
  <2>1. ASSUME NEW r, NEW t, Present(r, t) PROVE UNCHANGED <<changedAt, copied>>
    BY <2>1 DEF Present, storeVars, holderVars
  <2>2. ASSUME NEW r, Work(r) PROVE changedAt' = changedAt /\ copied \subseteq copied'
    BY <2>2 DEF Work, LookUpJTI, RevokeFamily, LookUpCriteria, VerifyCredentials,
       LoadAttributes, RevokePrevious, ExtendCacheTTL, Respond, RevokeFamilyFails, Fails,
       storeVars, holderVars
  <2>3. ASSUME NEW r, Making(r) PROVE UNCHANGED <<changedAt, copied>>
    BY <2>3 DEF Making, Build, Sign, storeVars, holderVars
  <2>4. ASSUME Aside PROVE changedAt = 0 /\ copied \subseteq copied'
    <3>1. now # 0
      BY DEF LoginInv, TypeOK
    <3> QED BY <2>4, <3>1 DEF Aside, CopyToken, ChangeCredential, Tick, vars, storeVars,
               holderVars, Undisturbed
  <2> QED BY <2>1, <2>2, <2>3, <2>4, StepCases DEF PresentByClient, PresentCopy, Undisturbed
<1>2. now < End
  <2>1. now' >= now
    BY TimePasses
  <2>2. now \in Nat /\ now' \in Nat /\ End \in Nat
    BY RefreshRotationConstants DEF TypeOK, End
  <2> QED BY <2>1, <2>2 DEF Undisturbed
<1> QED
  BY <1>1, <1>2 DEF Undisturbed

\* Who acts when the client is not disturbed.
LEMMA OnlyTheClient ==
  ASSUME TypeOK, Served, OneAtATime, NEW q \in Requests, Active(q)
  PROVE  /\ q \in ClientRequests /\ ServedInv(q) /\ requests[q].token = clientToken
         /\ \A r \in ClientRequests : Active(r) => r = q
BY DEF Served, NoCopies, Active, OneAtATime, Requests, ServedInv

LEMMA FreshToken ==
  ASSUME TypeOK, Served, OneAtATime, NEW q \in Requests, Active(q),
         requests[q].pc \notin {"extend", "respond"}
  PROVE  revokedToken[requests[q].token] = NoRow
<1>1. /\ requests[q].token = clientToken
      /\ \A r \in ClientRequests : requests[r].pc \in {"extend", "respond"} => r = q
  BY OnlyTheClient DEF Active
<1> QED
  BY <1>1 DEF Served

LEMMA ServedWork ==
  ASSUME TypeOK, TypeOK', LoginInv, CacheInv, OneAtATime, Served, Undisturbed,
         [Next]_vars, NEW r \in ClientRequests, Work(r), ~Fails(r)
  PROVE  ServedInv(r)'
<1> DEFINE t == requests[r].token
<1>0. /\ r \in Requests /\ Active(r) /\ ServedInv(r) /\ Kept(r)
      /\ t \in 1..Len(tokens) /\ t = clientToken
  BY WorkFacts, OnlyTheClient DEF Requests, LoginInv, RequestInv, Active
<1>1. /\ now \in Nat /\ now < End /\ changedAt = 0 /\ End \in Nat /\ Buffer \in Nat
      /\ cacheExpiry \in Nat /\ cacheExpiry >= End + Buffer
  BY RefreshRotationConstants DEF TypeOK, Undisturbed, CacheInv, End
<1>2. now < cacheExpiry /\ ~(now >= cacheExpiry)
  BY <1>1
<1>3. ASSUME UNCHANGED clientToken,
             requests'[r].pc \in {"criteria", "credentials", "attributes", "build"}
      PROVE  ServedInv(r)'
  BY <1>0, <1>3 DEF ServedInv, Building, Kept, Active
<1>4. CASE LookUpJTI(r)
  <2>1. ~Spent(t)
    BY <1>0, <1>4, FreshToken, SpentUntilExpired DEF LookUpJTI
  <2>2. requests'[r].pc = "criteria" /\ UNCHANGED clientToken
    BY <1>0, <1>4, <2>1, GoesFacts DEF LookUpJTI, Pcs, holderVars
  <2> QED BY <1>3, <2>2
<1>5. CASE LookUpCriteria(r)
  <2>1. ~FamilyRevoked
    BY <1>1 DEF Served, FamilyRevoked, Matches, NoRow
  <2>2. requests'[r].pc = "credentials" /\ UNCHANGED clientToken
    BY <1>0, <1>5, <2>1, GoesFacts DEF LookUpCriteria, Pcs, holderVars
  <2> QED BY <1>3, <2>2
<1>6. CASE VerifyCredentials(r)
  <2>1. ~(Presented(r).iat <= changedAt)
    <3>1. tokens[t].iat >= 1 /\ tokens[t].iat \in Nat
      BY <1>0, LenTokens DEF LoginInv, TokenInv, Token
    <3> QED BY <1>1, <3>1 DEF Presented
  <2>2. requests'[r].pc = "attributes" /\ UNCHANGED clientToken
    BY <1>0, <1>6, <2>1, GoesFacts DEF VerifyCredentials, Pcs, holderVars
  <2> QED BY <1>3, <2>2
<1>7. CASE LoadAttributes(r)
  <2>1. requests'[r].pc = "build" /\ UNCHANGED clientToken
    BY <1>0, <1>2, <1>7, GoesFacts DEF LoadAttributes, Pcs, holderVars
  <2> QED BY <1>3, <2>1
<1>8. CASE RevokePrevious(r)
  <2>1. requests'[r].pc = "extend" /\ UNCHANGED clientToken
    BY <1>0, <1>8, GoesFacts DEF RevokePrevious, Pcs, holderVars
  <2>2. /\ requests[r].made \in 1..Len(tokens) /\ requests[r].made # t
        /\ revokedToken[requests[r].made] = NoRow
    BY <1>0, <1>8 DEF RevokePrevious, ServedInv, LoginInv, RequestInv, Building
  <2>3. revokedToken'[requests[r].made] = NoRow
    BY <1>0, <1>8, <2>2, RevokeFacts
  <2> QED BY <1>0, <2>1, <2>3 DEF ServedInv, Kept, Active
<1>9. CASE ExtendCacheTTL(r)
  <2>1. requests'[r].pc = "respond" /\ UNCHANGED <<clientToken, revokedToken>>
    BY <1>0, <1>2, <1>9, GoesFacts DEF ExtendCacheTTL, Pcs, holderVars
  <2>2. revokedToken[requests[r].made] = NoRow
    BY <1>0, <1>9 DEF ExtendCacheTTL, ServedInv, Building
  <2> QED BY <1>0, <2>1, <2>2 DEF ServedInv, Kept, Active
<1>10. CASE Respond(r)
  <2>1. requests'[r].pc = "done" /\ requests'[r].outcome = "tokens"
    BY <1>0, <1>10, EndsFacts DEF Respond, Outcomes
  <2> QED BY <2>1 DEF ServedInv, Active, Building
<1>11. CASE RevokeFamily(r) \/ RevokeFamilyFails(r)
  BY <1>0, <1>11 DEF RevokeFamily, RevokeFamilyFails, ServedInv
<1> QED
  BY <1>4, <1>5, <1>6, <1>7, <1>8, <1>9, <1>10, <1>11 DEF Work

LEMMA ServedMaking ==
  ASSUME TypeOK, LoginInv, OneAtATime, Served, Undisturbed, NEW r \in ClientRequests, Making(r)
  PROVE  ServedInv(r)'
<1> DEFINE t == requests[r].token
<1>0. /\ r \in Requests /\ Active(r) /\ requests[r].pc \notin {"new", "extend", "respond"}
      /\ clientToken' = clientToken /\ requests'[r].token = t
  BY MakingFacts DEF Requests
<1>1. t \in 1..Len(tokens) /\ t = clientToken /\ revokedToken[t] = NoRow
  BY <1>0, OnlyTheClient, FreshToken DEF LoginInv, RequestInv
<1>2. Len(tokens) \in Nat /\ t \in Nat
  BY <1>1, LenTokens
<1>3. CASE Sign(r)
  <2>1. revokedToken'[Len(tokens) + 1] = NoRow
    BY <1>0, <1>3, SignTokens
  <2>2. requests'[r].pc \in {"revoke", "extend"} /\ requests'[r].made = Len(tokens) + 1
    BY <1>0, <1>3, SignFacts
  <2>3. Len(tokens) + 1 # t
    BY <1>1, <1>2
  <2> QED BY <1>0, <1>1, <2>1, <2>2, <2>3 DEF ServedInv, Active
<1>4. CASE Build(r)
  <2>1. ~(now >= Presented(r).exp)
    <3>1. End <= Presented(r).exp /\ Presented(r).exp \in Nat
      BY <1>1, LenTokens DEF LoginInv, TokenInv, Presented, Token
    <3>2. now \in Nat /\ End \in Nat /\ now < End
      BY RefreshRotationConstants DEF TypeOK, End, Undisturbed
    <3> QED BY <3>1, <3>2
  <2>2. revokedToken' = revokedToken
    BY <1>0, <1>4, BuildFacts
  <2>3. CASE requests'[r].pc = "sign"
    BY <1>0, <1>1, <2>3 DEF ServedInv, Active, Building
  <2>4. CASE requests'[r].pc = "extend" /\ requests'[r].made = t
    BY <1>0, <1>1, <2>2, <2>4 DEF ServedInv, Active
  <2> QED BY <1>0, <1>4, <2>1, <2>3, <2>4, BuildFacts
<1> QED
  BY <1>3, <1>4 DEF Making

LEMMA ClientTokenCases ==
  ASSUME [Next]_vars
  PROVE  \/ clientToken' = clientToken
         \/ \E q \in ClientRequests : Respond(q)
<1>1. ASSUME NEW r, NEW t, Present(r, t) PROVE clientToken' = clientToken
  BY <1>1 DEF Present, holderVars
<1>2. ASSUME NEW r \in Requests, Work(r)
      PROVE  clientToken' = clientToken \/ (r \in ClientRequests /\ Respond(r))
  BY <1>2 DEF Work, LookUpJTI, RevokeFamily, LookUpCriteria, VerifyCredentials,
     LoadAttributes, RevokePrevious, ExtendCacheTTL, Respond, RevokeFamilyFails, Fails,
     holderVars
<1>3. ASSUME NEW r, Making(r) PROVE clientToken' = clientToken
  BY <1>3 DEF Making, Build, Sign, holderVars
<1> QED
  BY <1>1, <1>2, <1>3, AsideFacts, StepCases DEF PresentByClient, PresentCopy

\* As long as none of its calls fails, the client is served.
LEMMA ServedStep ==
  ASSUME TypeOK, TypeOK', LoginInv, CacheInv, OneAtATime, Served, Undisturbed,
         [Next]_vars, NEW r \in ClientRequests, ~Fails(r)
  PROVE  ServedInv(r)'
<1>0. r \in Requests /\ ServedInv(r)
  BY DEF Requests, Served
<1>1. CASE requests'[r] = requests[r]
  <2>1. ASSUME NEW q \in Requests, Active(q), Active(r), requests'[q].pc # requests[q].pc
        PROVE  FALSE
    BY <1>1, <2>1, OnlyTheClient
  <2>2. ASSUME Active(r) PROVE clientToken' = clientToken
    <3>1. ASSUME NEW q \in ClientRequests, Respond(q) PROVE FALSE
      <4>1. q \in Requests /\ Active(q) /\ requests'[q].pc # requests[q].pc
        BY <3>1, EndsFacts DEF Respond, Outcomes, Requests, Active
      <4> QED BY <2>1, <2>2, <4>1
    <3> QED BY <3>1, ClientTokenCases
  <2>3. ASSUME requests[r].pc \in Building
        PROVE  revokedToken'[requests[r].made] = revokedToken[requests[r].made]
    <3>1. Active(r) /\ requests[r].made \in 1..Len(tokens)
      BY <1>0, <2>3 DEF Building, Active, LoginInv, RequestInv
    <3>2. ASSUME NEW q \in Requests, RevokePrevious(q) PROVE FALSE
      <4>1. Active(q) /\ requests'[q].pc # requests[q].pc
        BY <3>2, GoesFacts DEF RevokePrevious, Pcs, Active
      <4> QED BY <2>1, <3>1, <4>1
    <3> QED BY <3>1, <3>2, RowsStay
  <2>4. faults > 0 => faults' > 0
    BY TimePasses DEF TypeOK
  <2> QED BY <1>0, <1>1, <2>2, <2>3, <2>4 DEF ServedInv, Active
<1>2. CASE PresentByClient(r)
  <2>1. /\ requests'[r].pc = "jti" /\ requests'[r].token = clientToken
        /\ UNCHANGED clientToken
    BY <1>0, <1>2, PresentFacts DEF PresentByClient, holderVars, TypeOK
  <2> QED BY <2>1 DEF ServedInv, Building
<1>3. r \notin CopyRequests
  BY RefreshRotationConstants
<1> QED
  BY <1>0, <1>1, <1>2, <1>3, PartyStep, ServedWork, ServedMaking

LEMMA FreshStep ==
  ASSUME TypeOK, TypeOK', LoginInv, CacheInv, OneAtATime, Served, Undisturbed,
         [Next]_vars, \A r \in Requests : ~Fails(r)
  PROVE  \/ revokedToken'[clientToken'] = NoRow
         \/ \E r \in ClientRequests : requests'[r].pc \in {"extend", "respond"}
<1>1. CASE \E q \in ClientRequests : Respond(q)
  <2>1. PICK q \in ClientRequests : Respond(q)
    BY <1>1
  <2>2. clientToken' = requests[q].made /\ revokedToken' = revokedToken
    BY <2>1 DEF Respond, storeVars
  <2>3. revokedToken[requests[q].made] = NoRow
    BY <2>1 DEF Respond, Served, ServedInv, Building
  <2> QED BY <2>2, <2>3
<1>2. CASE clientToken' = clientToken /\ ~\E q \in ClientRequests : Respond(q)
  <2>1. CASE revokedToken[clientToken] = NoRow
    <3>1. clientToken \in 1..Len(tokens)
      BY DEF TypeOK
    <3>2. ASSUME NEW q \in Requests, RevokePrevious(q)
          PROVE  q \in ClientRequests /\ requests'[q].pc = "extend"
      <4>1. Active(q) /\ requests'[q].pc = "extend"
        BY <3>2, GoesFacts DEF RevokePrevious, Pcs, Active
      <4> QED BY <4>1, OnlyTheClient
    <3> QED BY <1>2, <2>1, <3>1, <3>2, RowsStay
  <2>2. ASSUME NEW q \in ClientRequests, requests[q].pc \in {"extend", "respond"}
        PROVE  requests'[q].pc \in {"extend", "respond"}
    <3>1. q \in Requests
      BY DEF Requests
    <3>2. CASE requests'[q] = requests[q]
      BY <2>2, <3>2
    <3>3. CASE ExtendCacheTTL(q)
      <4>1. /\ now \in Nat /\ now < End /\ End \in Nat /\ Buffer \in Nat
            /\ cacheExpiry \in Nat /\ cacheExpiry >= End + Buffer
        BY RefreshRotationConstants DEF TypeOK, Undisturbed, CacheInv, End
      <4>2. ~(now >= cacheExpiry)
        BY <4>1
      <4> QED BY <3>1, <3>3, <4>2, GoesFacts DEF ExtendCacheTTL, Pcs
    <3>4. CASE Work(q)
      BY <1>2, <2>2, <3>1, <3>3, <3>4 DEF Work, LookUpJTI, RevokeFamily, RevokeFamilyFails,
         LookUpCriteria, VerifyCredentials, LoadAttributes, RevokePrevious
    <3>5. ~Making(q) /\ \A t \in 1..Len(tokens) : ~Present(q, t)
      BY <2>2 DEF Making, Build, Sign, Present
    <3> QED BY <3>1, <3>2, <3>4, <3>5, OwnStep
  <2> QED BY <2>1, <2>2 DEF Served
<1> QED
  BY <1>1, <1>2, ClientTokenCases

LEMMA NoCopiesStep ==
  ASSUME TypeOK, NoCopies, copied = {}, [Next]_vars
  PROVE  NoCopies'
<1> SUFFICES ASSUME NEW r \in CopyRequests PROVE requests'[r].pc = "new"
  BY DEF NoCopies
<1>1. r \in Requests /\ requests[r].pc = "new" /\ r \notin ClientRequests
  BY RefreshRotationConstants DEF Requests, NoCopies
<1>2. ~PresentCopy(r) /\ ~Work(r) /\ ~Making(r)
  BY <1>1, WorkFacts, MakingFacts DEF PresentCopy, Active
<1> QED
  BY <1>1, <1>2, PartyStep

\* A call that fails leaves the client with a good token, or with a spent one whose
\* successor is lost.
LEMMA FaultStep ==
  ASSUME TypeOK, TypeOK', LoginInv, OneAtATime, Served, Undisturbed, [Next]_vars,
         NEW q \in Requests, Fails(q)
  PROVE  Served' \/ Lost'
<1>1. /\ Active(q) /\ requests'[q].pc = "done" /\ requests'[q].outcome = "error"
      /\ requests'[q].token = requests[q].token /\ Others(q)
  BY EndsFacts DEF Fails, Active, Outcomes, Kept
<1>2. /\ q \in ClientRequests /\ requests[q].token = clientToken
      /\ \A r \in ClientRequests : Active(r) => r = q
  BY <1>1, OnlyTheClient
<1>3. UNCHANGED <<family, clientToken, revokedToken>> /\ faults' > 0
  BY DEF Fails, storeVars, holderVars, TypeOK
<1>4. NoCopies'
  BY NoCopiesStep DEF Served, Undisturbed
<1>5. ASSUME NEW r \in ClientRequests, r # q
      PROVE  /\ requests'[r] = requests[r] /\ ~Active(r)
             /\ r \in Requests /\ requests[r] \in Request /\ ServedInv(r)
  BY <1>1, <1>2, <1>5 DEF Others, Requests, Served, TypeOK
<1>6. CASE revokedToken[clientToken] = NoRow
  <2>1. ASSUME NEW r \in ClientRequests PROVE ServedInv(r)'
    <3>1. CASE r = q
      BY <1>1, <1>3, <3>1 DEF ServedInv, Active, Building
    <3>2. CASE r # q
      BY <1>3, <1>5, <3>2 DEF ServedInv, Active, Building
    <3> QED BY <3>1, <3>2
  <2> QED BY <1>3, <1>4, <1>6, <2>1 DEF Served
<1>7. CASE revokedToken[clientToken] # NoRow
  <2>1. ASSUME NEW r \in ClientRequests PROVE LostRequest(r)'
    <3>1. CASE r = q
      BY <1>1, <3>1 DEF LostRequest, Active
    <3>2. CASE r # q
      BY <1>5, <3>2 DEF LostRequest, Active
    <3> QED BY <3>1, <3>2
  <2> QED BY <1>1, <1>2, <1>3, <1>4, <1>7, <2>1 DEF Lost
<1> QED
  BY <1>6, <1>7

\* A client whose answer was lost stays where it is until its token expires.
LEMMA LostStep ==
  ASSUME TypeOK, TypeOK', LoginInv, Lost, Undisturbed, [Next]_vars
  PROVE  Lost'
<1>1. clientToken \in 1..Len(tokens) /\ revokedToken[clientToken] # NoRow
  BY DEF Lost, TypeOK
<1>2. clientToken' = clientToken
  BY ClientTokenCases DEF Lost, LostRequest, Respond
<1>3. revokedToken'[clientToken] # NoRow
  BY <1>1, RowsStay
<1>4. Spent(clientToken)
  <2>1. /\ now \in Nat /\ End \in Nat /\ now < End /\ Leeway \in Nat
        /\ End <= tokens[clientToken].exp /\ tokens[clientToken].exp \in Nat
    <3>1. now \in Nat /\ End \in Nat /\ now < End /\ Leeway \in Nat
      BY RefreshRotationConstants, DenyListConstants DEF TypeOK, End, Undisturbed
    <3>2. End <= tokens[clientToken].exp
      BY <1>1 DEF LoginInv, TokenInv
    <3>3. tokens[clientToken].exp \in Nat
      BY <1>1, LenTokens DEF Token
    <3> QED BY <3>1, <3>2, <3>3
  <2>2. ~Expired(clientToken)
    BY <2>1 DEF Expired, PastExpiry
  <2> QED BY <1>1, <2>2, SpentUntilExpired
<1>5. ASSUME NEW r \in ClientRequests PROVE LostRequest(r)'
  <2>0. r \in Requests /\ r \notin CopyRequests /\ LostRequest(r)
    BY RefreshRotationConstants DEF Requests, Lost
  <2>1. CASE requests'[r] = requests[r]
    BY <1>2, <2>0, <2>1 DEF LostRequest, Active
  <2>2. CASE PresentByClient(r)
    <3>1. requests'[r].pc = "jti" /\ requests'[r].token = clientToken
      BY <1>1, <2>0, <2>2, PresentFacts DEF PresentByClient
    <3> QED BY <1>2, <3>1 DEF LostRequest
  <2>3. CASE LookUpJTI(r)
    <3>1. requests[r].token = clientToken
      BY <2>0, <2>3 DEF LookUpJTI, LostRequest, Active
    <3>2. Goes(r, "replay")
      BY <1>4, <2>3, <3>1 DEF LookUpJTI
    <3>3. requests'[r].pc = "replay" /\ requests'[r].token = clientToken
      BY <2>0, <3>1, <3>2, GoesFacts DEF Pcs, Kept
    <3> QED BY <1>2, <3>3 DEF LostRequest
  <2>4. CASE RevokeFamily(r) \/ RevokeFamilyFails(r) \/ Fails(r)
    <3>1. requests'[r].pc = "done"
      BY <2>0, <2>4, EndsFacts DEF RevokeFamily, RevokeFamilyFails, Fails, Outcomes
    <3> QED BY <3>1 DEF LostRequest, Active
  <2>5. CASE Work(r)
    BY <2>0, <2>3, <2>4, <2>5 DEF Work, LostRequest, LookUpCriteria, VerifyCredentials,
       LoadAttributes, RevokePrevious, ExtendCacheTTL, Respond
  <2>6. ~Making(r)
    BY <2>0 DEF Making, Build, Sign, LostRequest
  <2> QED BY <2>0, <2>1, <2>2, <2>5, <2>6, PartyStep
<1>6. PICK q \in ClientRequests :
        requests[q].pc = "done" /\ requests[q].outcome = "error" /\ requests[q].token = clientToken
  BY DEF Lost
<1>7. requests'[q] = requests[q]
  <2>1. q \in Requests /\ \A t \in 1..Len(tokens) : ~Present(q, t)
    BY <1>6 DEF Requests, Present
  <2>2. ~Work(q) /\ ~Making(q)
    BY <1>6, <2>1, WorkFacts, MakingFacts DEF Active
  <2> QED BY <2>1, <2>2, OwnStep
<1>8. NoCopies'
  BY NoCopiesStep DEF Lost, Undisturbed
<1> QED
  BY <1>2, <1>3, <1>5, <1>6, <1>7, <1>8 DEF Lost

LEMMA ClientStep ==
  TypeOK /\ LoginInv /\ CacheInv /\ OneAtATime /\ ClientInv /\ [Next]_vars => ClientInv'
<1> SUFFICES ASSUME TypeOK, LoginInv, CacheInv, OneAtATime, ClientInv, [Next]_vars, Undisturbed'
             PROVE  Served' \/ Lost'
  BY DEF ClientInv
<1>0. TypeOK' /\ Undisturbed
  BY TypeStep, UndisturbedBefore
<1>1. CASE Lost
  BY <1>0, <1>1, LostStep
<1>2. CASE Served /\ \E q \in Requests : Fails(q)
  BY <1>0, <1>2, FaultStep
<1>3. CASE Served /\ \A q \in Requests : ~Fails(q)
  <2>1. family' = NoRow
    <3>1. ASSUME NEW r \in Requests, RevokeFamily(r) PROVE FALSE
      <4>1. Active(r) /\ requests[r].pc = "replay"
        BY <3>1 DEF RevokeFamily, Active
      <4> QED BY <1>3, <4>1, OnlyTheClient DEF ServedInv
    <3> QED BY <1>3, <3>1, FamilyCases DEF Served
  <2>2. NoCopies'
    BY <1>0, <1>3, NoCopiesStep DEF Served, Undisturbed
  <2>3. \A r \in ClientRequests : ServedInv(r)'
    BY <1>0, <1>3, ServedStep DEF Requests
  <2>4. \/ revokedToken'[clientToken'] = NoRow
        \/ \E r \in ClientRequests : requests'[r].pc \in {"extend", "respond"}
    BY <1>0, <1>3, FreshStep
  <2> QED BY <2>1, <2>2, <2>3, <2>4 DEF Served
<1> QED
  BY <1>0, <1>1, <1>2, <1>3 DEF ClientInv

\* A client that uses its newest token, one refresh after the other, is served unless
\* credentials changed, the login expired, a token was copied, the request itself failed,
\* or the answer of a rotation that had been recorded was lost; in particular its own
\* rotations never make it look like a replay, and neither does a failure before them.
THEOREM HonestClient == Spec => []HonestClientServed
<1>1. Init => OneAtATime /\ ClientInv
  BY DEF Init, OneAtATime, ClientInv, Served, NoCopies, ServedInv, Active, Building, Requests
<1>2. TypeOK /\ LoginInv /\ ClientInv => HonestClientServed
  <2> SUFFICES ASSUME TypeOK, LoginInv, ClientInv, NEW r \in ClientRequests,
                      requests[r].pc = "done", requests[r].outcome # "tokens",
                      ~(requests[r].outcome = "error" /\ faults > 0),
                      changedAt = 0, ~(now >= tokens[1].exp), copied = {}
               PROVE  AnswerLost
    BY DEF HonestClientServed
  <2>1. Undisturbed
    <3>1. now \in Nat /\ End \in Nat /\ tokens[1].exp = End
      BY RefreshRotationConstants DEF TypeOK, LoginInv, End
    <3> QED BY <3>1 DEF Undisturbed
  <2>2. ~Served
    BY DEF Served, ServedInv
  <2> QED BY <2>1, <2>2 DEF ClientInv, Lost, AnswerLost
<1> QED
  BY <1>1, <1>2, CacheAlways, OneAtATimeStep, ClientStep, TypeCorrect, PTL DEF Spec
=============================================================================
