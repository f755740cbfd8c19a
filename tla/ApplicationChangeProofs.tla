----------------------- MODULE ApplicationChangeProofs ----------------------
(***************************************************************************)
(* Proofs about ApplicationChange, for any number of administrators, token *)
(* requests and changes.  A change takes its tokens because, from its      *)
(* first revocation on, the row of the client covers its cutoff and lasts  *)
(* for the lifetime of its plan; other changes and the sweep may write the *)
(* row meanwhile but never weaken it before that time is over.             *)
(***************************************************************************)
EXTENDS ApplicationChange, TLAPS

\* At the time n the row q rejects what was issued up to `cut` and lasts until
\* `until`, or that time is over.
Holds(n, q, cut, until) ==
  \/ n >= until
  \/ /\ q.terminal \/ cut <= q.revokedAt
     /\ q.expiry >= until

\* The change c has revoked and may now write.
Revoked(c) == c.revokes /\ c.pc \in {"client", "entity", "post"}

PlanHolds(n, q, c) ==
  /\ c.cutoff <= n
  /\ Revoked(c) => Holds(n, q, c.cutoff, c.cutoff + Later(c.ttl, Lifetime) + Leeway)

\* The row q does for a token x what a plan with the lifetime ttl has promised.
PromiseHolds(n, q, x, ttl) ==
  x.validity <= Later(ttl, Lifetime) => Holds(n, q, x.iat, x.iat + x.validity + Leeway)

IssuedInPast == \A r \in Issued : requests[r].iat <= now
PlansHold == \A a \in Admins : PlanHolds(now, row, admins[a])
PromisesHold ==
  \A p \in promised : p[1] \in Issued /\ PromiseHolds(now, row, requests[p[1]], p[2])

(***************************************************************************)
(* The inductive invariant behind ChangeTakesTokens.                       *)
(***************************************************************************)
RevocationInv == TypeOK /\ IssuedInPast /\ PlansHold /\ PromisesHold

(***************************************************************************)
(* The one behind LaterTokensValid: no row is terminal, no cutoff is ahead *)
(* of the clock, and none is later than the end of the last change once    *)
(* that is over.                                                           *)
(***************************************************************************)
QuietInv ==
  /\ ~row.terminal
  /\ row.revokedAt <= now
  /\ lastEnd <= now
  /\ Quiet => row.revokedAt <= lastEnd
  /\ settled # {} => Quiet
  /\ \A r \in settled : r \in Issued /\ requests[r].iat > lastEnd

-----------------------------------------------------------------------------
(* Types *)

LEMMA IdleType == Idle \in Change
  <1>1. (CHOOSE s \in Secrets : TRUE) \in Secrets /\ (CHOOSE v \in Validities : TRUE) \in Validities
    BY ApplicationChangeConstants
  <1> QED
    BY <1>1 DEF Idle, Change, Kinds

LEMMA RowTypes ==
  /\ NoRow \in Row
  /\ \A n, cutoff, ttl \in Nat : BoundaryRow(n, cutoff, ttl) \in Row
  /\ \A q, r \in Row : Upsert(q, r) \in Row
  BY DenyListConstants, SMT DEF NoRow, Row, BoundaryRow, CriterionExpiry, Upsert, Later

LEMMA TypeInit == Init => TypeOK
  BY IdleType, RowTypes DEF Init, TypeOK, Request

LEMMA LifetimesNat ==
  ASSUME TypeOK, NEW k
  PROVE  Lifetimes(k) \subseteq Nat
  BY ApplicationChangeConstants, SMT DEF TypeOK, Lifetimes, ArtifactLifetime

\* The record of an administrator after a step that moves it on.
LEMMA GoesType ==
  ASSUME TypeOK, NEW a \in Admins, NEW pc \in {"idle", "plan", "revoke", "client", "entity", "post"},
         Goes(a, pc)
  PROVE  admins' \in [Admins -> Change]
  BY DEF TypeOK, Goes, Change

LEMMA EndsType ==
  ASSUME TypeOK, NEW a \in Admins, Ends(a)
  PROVE  admins' \in [Admins -> Change] /\ lastEnd' \in Nat
  BY IdleType DEF TypeOK, Ends

LEMMA StartType ==
  ASSUME TypeOK, NEW a \in Admins, NEW c \in Change, Start(a, c)
  PROVE  TypeOK'
  BY ApplicationChangeConstants DEF TypeOK, Start, appVars

LEMMA IdleFields == Idle.cutoff = 0 /\ Idle.revokes = FALSE /\ Idle.pc = "idle"
  BY DEF Idle

LEMMA StartsType ==
  ASSUME TypeOK, NEW a \in Admins,
         StartCreate(a) \/ StartUpdate(a) \/ StartRegenerate(a) \/ StartDelete(a)
  PROVE  \E c \in Change : /\ Start(a, c)
                           /\ c.pc # "idle" /\ c.cutoff = 0 /\ ~Revoked(c)
  <1>1. CASE StartCreate(a)
    <2>1. PICK s \in Secrets, v \in Validities :
            Start(a, [Idle EXCEPT !.pc = "entity", !.kind = "create", !.secret = s, !.validity = v])
      BY <1>1 DEF StartCreate
    <2> DEFINE c == [Idle EXCEPT !.pc = "entity", !.kind = "create", !.secret = s, !.validity = v]
    <2>2. c \in Change /\ c.pc # "idle" /\ c.cutoff = 0 /\ ~Revoked(c)
      BY IdleType, IdleFields DEF Change, Revoked, Kinds
    <2> QED
      BY <2>1, <2>2
  <1>2. CASE StartUpdate(a)
    <2>1. PICK s \in Secrets, v \in Validities :
            Start(a, [Idle EXCEPT !.pc = IF s # secret THEN "plan" ELSE "client",
                                  !.secret = s, !.validity = v, !.revokes = s # secret])
      BY <1>2 DEF StartUpdate
    <2> DEFINE c == [Idle EXCEPT !.pc = IF s # secret THEN "plan" ELSE "client",
                                 !.secret = s, !.validity = v, !.revokes = s # secret]
    <2>2. c \in Change /\ c.pc # "idle" /\ c.cutoff = 0 /\ ~Revoked(c)
      BY IdleType, IdleFields DEF Change, Revoked, Kinds
    <2>3. Start(a, c)
      BY <2>1
    <2> HIDE DEF c
    <2> QED
      BY <2>2, <2>3
  <1>3. CASE StartRegenerate(a)
    <2>1. PICK s \in Secrets \ {secret} :
            Start(a, [Idle EXCEPT !.pc = "plan", !.kind = "regenerate", !.secret = s, !.revokes = TRUE])
      BY <1>3 DEF StartRegenerate
    <2> DEFINE c == [Idle EXCEPT !.pc = "plan", !.kind = "regenerate", !.secret = s, !.revokes = TRUE]
    <2>2. c \in Change /\ c.pc # "idle" /\ c.cutoff = 0 /\ ~Revoked(c)
      BY IdleType, IdleFields DEF Change, Revoked, Kinds
    <2> QED
      BY <2>1, <2>2
  <1>4. CASE StartDelete(a)
    <2> DEFINE c == [Idle EXCEPT !.pc = IF entity THEN "plan" ELSE "client",
                                 !.kind = "delete", !.revokes = entity]
    <2>1. entity \in BOOLEAN
      BY DEF TypeOK
    <2>2. c \in Change /\ c.pc # "idle" /\ c.cutoff = 0 /\ ~Revoked(c)
      BY <2>1, IdleType, IdleFields DEF Change, Revoked, Kinds
    <2>3. Start(a, c)
      BY <1>4 DEF StartDelete
    <2> HIDE DEF c
    <2> QED
      BY <2>2, <2>3
  <1> QED
    BY <1>1, <1>2, <1>3, <1>4

LEMMA TypeStep ==
  ASSUME TypeOK, [Next]_vars
  PROVE  TypeOK'
  <1> USE DEF appVars, historyVars
  <1>1. ASSUME NEW r \in Requests, Authenticate(r) \/ IssueToken(r) PROVE TypeOK'
    <2>1. requests[r] \in Request /\ now \in Nat /\ validity \in Validities
      BY DEF TypeOK
    <2>2. CASE Authenticate(r)
      <3>1. [requests[r] EXCEPT !.pc = "authenticated", !.validity = validity] \in Request
        BY <2>1, ApplicationChangeConstants DEF Request
      <3>2. requests' \in [Requests -> Request]
        BY <2>2, <3>1 DEF Authenticate, TypeOK
      <3> QED
        BY <2>2, <3>2 DEF TypeOK, Authenticate
    <2>3. CASE IssueToken(r)
      <3>1. [requests[r] EXCEPT !.pc = "issued", !.iat = now] \in Request
        BY <2>1 DEF Request
      <3>2. requests' \in [Requests -> Request]
        BY <2>3, <3>1 DEF IssueToken, TypeOK
      <3>3. settled' \subseteq Requests
        BY <2>3 DEF IssueToken, TypeOK
      <3> QED
        BY <2>3, <3>2, <3>3 DEF TypeOK, IssueToken
    <2> QED
      BY <1>1, <2>2, <2>3
  <1>2. ASSUME NEW a \in Admins,
               StartCreate(a) \/ StartUpdate(a) \/ StartRegenerate(a) \/ StartDelete(a)
        PROVE  TypeOK'
    BY <1>2, StartsType, StartType
  <1>3. ASSUME NEW a \in Admins, Plan(a) PROVE TypeOK'
    <2>1. PICK ttl \in Lifetimes(admins[a].kind) :
            admins' = [admins EXCEPT ![a] = [@ EXCEPT !.pc = "revoke", !.cutoff = now, !.ttl = ttl]]
      BY <1>3 DEF Plan
    <2>2. ttl \in Nat
      BY LifetimesNat
    <2>3. admins[a] \in Change /\ now \in Nat
      BY DEF TypeOK
    <2>4. [admins[a] EXCEPT !.pc = "revoke", !.cutoff = now, !.ttl = ttl] \in Change
      BY <2>2, <2>3 DEF Change
    <2>5. admins' \in [Admins -> Change]
      BY <2>1, <2>4 DEF TypeOK
    <2> QED
      BY <1>3, <2>5 DEF TypeOK, Plan
  <1>4. ASSUME NEW a \in Admins, NEW cutoff \in Nat, WritesRow(a, cutoff) PROVE row' \in Row
    BY <1>4, RowTypes DEF WritesRow, TypeOK, Change
  <1>5. ASSUME NEW a \in Admins, NEW rs \in SUBSET Requests, Promises(a, rs)
        PROVE  promised' \subseteq Requests \X Nat
    BY <1>5 DEF Promises, TypeOK, Change
  <1>6. ASSUME NEW a \in Admins, RevokeTokens(a) PROVE TypeOK'
    <2>1. admins[a].cutoff \in Nat
      BY DEF TypeOK, Change
    <2>2. row' \in Row
      BY <1>4, <1>6, <2>1 DEF RevokeTokens
    <2>3. admins' \in [Admins -> Change]
      BY <1>6, GoesType DEF RevokeTokens
    <2> QED
      BY <1>6, <2>2, <2>3 DEF RevokeTokens, TypeOK
  <1>7. ASSUME NEW a \in Admins, AdvanceCutoff(a) PROVE TypeOK'
    <2>1. row' \in Row
      BY <1>4, <1>7 DEF AdvanceCutoff, TypeOK
    <2>2. promised' \subseteq Requests \X Nat
      BY <1>5, <1>7 DEF AdvanceCutoff, Issued
    <2>3. admins' \in [Admins -> Change] /\ lastEnd' \in Nat
      BY <1>7, GoesType, EndsType DEF AdvanceCutoff, TypeOK
    <2> QED
      BY <1>7, <2>1, <2>2, <2>3 DEF AdvanceCutoff, TypeOK
  <1>8. ASSUME NEW a \in Admins, UpdateInboundClient(a) PROVE TypeOK'
    <2>1. admins' \in [Admins -> Change] /\ admins[a].validity \in Validities
      BY <1>8, GoesType DEF UpdateInboundClient, TypeOK, Change
    <2> QED
      BY <1>8, <2>1 DEF UpdateInboundClient, TypeOK
  <1>9. ASSUME NEW a \in Admins, UpdateSecret(a) PROVE TypeOK'
    <2>1. admins' \in [Admins -> Change] /\ lastEnd' \in Nat
      BY <1>9, GoesType, EndsType DEF UpdateSecret, TypeOK
    <2>2. promised' \subseteq Requests \X Nat
      BY <1>5, <1>9 DEF UpdateSecret, Covered, Issued
    <2>3. admins[a].secret \in Secrets
      BY DEF TypeOK, Change
    <2> QED
      BY <1>9, <2>1, <2>2, <2>3 DEF UpdateSecret, TypeOK
  <1>10. ASSUME NEW a \in Admins, DeleteInboundClient(a) PROVE TypeOK'
    <2>1. admins' \in [Admins -> Change]
      BY <1>10, GoesType DEF DeleteInboundClient
    <2>2. promised' \subseteq Requests \X Nat
      BY <1>5, <1>10 DEF DeleteInboundClient, Covered, Issued
    <2> QED
      BY <1>10, <2>1, <2>2 DEF DeleteInboundClient, TypeOK
  <1>11. ASSUME NEW a \in Admins, DeleteEntity(a) \/ CreateInboundClient(a) \/ Fails(a) PROVE TypeOK'
    <2>1. admins' \in [Admins -> Change] /\ lastEnd' \in Nat
      BY <1>11, EndsType DEF DeleteEntity, CreateInboundClient, Fails
    <2>2. admins[a].validity \in Validities
      BY DEF TypeOK, Change
    <2> QED
      BY <1>11, <2>1, <2>2 DEF DeleteEntity, CreateInboundClient, Fails, TypeOK
  <1>12. ASSUME NEW a \in Admins, CreateEntity(a) PROVE TypeOK'
    <2>1. admins' \in [Admins -> Change] /\ admins[a].secret \in Secrets
      BY <1>12, GoesType DEF CreateEntity, TypeOK, Change
    <2> QED
      BY <1>12, <2>1 DEF CreateEntity, TypeOK
  <1>13. CASE CleanUp \/ Tick \/ UNCHANGED vars
    BY <1>13, RowTypes DEF CleanUp, Tick, vars, TypeOK
  <1> QED
    BY <1>1, <1>2, <1>3, <1>6, <1>7, <1>8, <1>9, <1>10, <1>11, <1>12, <1>13 DEF Next

-----------------------------------------------------------------------------
(* What the row holds *)

RowGrows ==
  /\ row.terminal => row'.terminal
  /\ row'.terminal \/ row.revokedAt <= row'.revokedAt
  /\ row.expiry <= row'.expiry

\* The row is written, left alone, or removed after it has lapsed.
RowKept == RowGrows \/ row.expiry < now

LEMMA HoldsKept ==
  ASSUME TypeOK, TypeOK', now <= now', RowKept, NEW cut \in Nat, NEW until \in Nat,
         Holds(now, row, cut, until)
  PROVE  Holds(now', row', cut, until)
  BY SMT DEF TypeOK, Holds, RowKept, RowGrows, Row

LEMMA HoldsLess ==
  ASSUME NEW n \in Nat, NEW q \in Row, NEW cut \in Nat, NEW until \in Nat,
         Holds(n, q, cut, until),
         NEW cut2 \in Nat, NEW until2 \in Nat, cut2 <= cut, until2 <= until
  PROVE  Holds(n, q, cut2, until2)
  BY SMT DEF Holds, Row

\* A revocation with a cutoff that is not ahead covers it, for the lifetime of
\* the plan from now.
LEMMA WriteHolds ==
  ASSUME TypeOK, NEW a \in Admins, NEW cutoff \in Nat, cutoff <= now, WritesRow(a, cutoff)
  PROVE  /\ RowGrows
         /\ Holds(now, row', cutoff, now + Later(admins[a].ttl, Lifetime) + Leeway)
  <1>1. admins[a].ttl \in Nat /\ now \in Nat /\ row \in Row
    BY DEF TypeOK, Change
  <1> DEFINE ttl == admins[a].ttl
  <1>2. row' = Upsert(row, BoundaryRow(now, cutoff, ttl))
    BY DEF WritesRow
  <1> HIDE DEF ttl
  <1> QED
    BY <1>1, <1>2, DenyListConstants, SMT
    DEF ttl, Upsert, BoundaryRow, CriterionExpiry, Later, RowGrows, Holds, Row

LEMMA LifetimeNat ==
  ASSUME NEW ttl \in Nat
  PROVE  Later(ttl, Lifetime) \in Nat
  BY DenyListConstants DEF Later

\* What holds for a plan and for a promise goes on holding.
LEMMA PlanKept ==
  ASSUME TypeOK, TypeOK', now <= now', RowKept, NEW c \in Change, PlanHolds(now, row, c)
  PROVE  PlanHolds(now', row', c)
  <1>1. c.cutoff \in Nat /\ c.ttl \in Nat /\ now \in Nat /\ now' \in Nat
    BY DEF Change, TypeOK
  <1>2. c.cutoff + Later(c.ttl, Lifetime) + Leeway \in Nat
    BY <1>1, LifetimeNat, DenyListConstants
  <1> QED
    BY <1>1, <1>2, HoldsKept DEF PlanHolds

LEMMA PromiseKept ==
  ASSUME TypeOK, TypeOK', now <= now', RowKept, NEW x \in Request, NEW ttl \in Nat,
         PromiseHolds(now, row, x, ttl)
  PROVE  PromiseHolds(now', row', x, ttl)
  <1>1. x.iat \in Nat /\ x.validity \in Nat
    BY ApplicationChangeConstants DEF Request
  <1>2. x.iat + x.validity + Leeway \in Nat
    BY <1>1, DenyListConstants
  <1> QED
    BY <1>1, <1>2, HoldsKept DEF PromiseHolds

LEMMA PromisesKept ==
  ASSUME TypeOK, TypeOK', now <= now', RowKept, PromisesHold,
         \A r \in Issued : requests'[r] = requests[r]
  PROVE  \A p \in promised : p[1] \in Issued' /\ PromiseHolds(now', row', requests'[p[1]], p[2])
  <1> SUFFICES ASSUME NEW p \in promised
               PROVE  p[1] \in Issued' /\ PromiseHolds(now', row', requests'[p[1]], p[2])
    OBVIOUS
  <1>1. p[1] \in Requests /\ p[2] \in Nat
    BY DEF TypeOK
  <1>2. p[1] \in Issued /\ PromiseHolds(now, row, requests[p[1]], p[2])
    BY DEF PromisesHold
  <1>3. requests[p[1]] \in Request /\ requests'[p[1]] = requests[p[1]]
    BY <1>1, <1>2 DEF TypeOK
  <1> QED
    BY <1>1, <1>2, <1>3, PromiseKept DEF Issued

\* The step is of the administrator a, or of none.
LEMMA PlansKept ==
  ASSUME TypeOK, TypeOK', now <= now', RowKept, PlansHold, NEW a,
         \A b \in Admins : b # a => admins'[b] = admins[b],
         a \in Admins => PlanHolds(now', row', admins'[a])
  PROVE  PlansHold'
  <1> SUFFICES ASSUME NEW b \in Admins, b # a PROVE PlanHolds(now', row', admins'[b])
    BY DEF PlansHold
  <1>1. admins'[b] = admins[b] /\ admins[b] \in Change
    BY DEF TypeOK
  <1> QED
    BY <1>1, PlanKept DEF PlansHold

\* A plan moves on to a step before which it has revoked.
LEMMA PlanGoes ==
  ASSUME TypeOK, TypeOK', now <= now', RowKept, PlansHold, NEW a \in Admins,
         admins'[a].cutoff = admins[a].cutoff, admins'[a].ttl = admins[a].ttl,
         Revoked(admins'[a]) => Revoked(admins[a])
  PROVE  PlanHolds(now', row', admins'[a])
  <1>1. PlanHolds(now', row', admins[a])
    BY PlanKept DEF PlansHold, TypeOK
  <1> QED
    BY <1>1 DEF PlanHolds

\* The tokens issued up to the cutoff of a plan that has revoked.
LEMMA CoveredHolds ==
  ASSUME RevocationInv, NEW a \in Admins,
         admins[a].pc \in {"client", "entity", "post"}, NEW r \in Covered(a)
  PROVE  r \in Issued /\ PromiseHolds(now, row, requests[r], admins[a].ttl)
  <1> DEFINE x == requests[r]  c == admins[a]
  <1>1. x \in Request /\ c \in Change /\ r \in Issued /\ c.revokes /\ x.iat <= c.cutoff
    BY DEF RevocationInv, TypeOK, Covered, Issued
  <1>2. /\ x.iat \in Nat /\ x.validity \in Nat /\ c.cutoff \in Nat /\ c.ttl \in Nat
        /\ Later(c.ttl, Lifetime) \in Nat /\ Leeway \in Nat /\ now \in Nat /\ row \in Row
    BY <1>1, LifetimeNat, DenyListConstants, ApplicationChangeConstants
    DEF Request, Change, RevocationInv, TypeOK
  <1>3. Holds(now, row, c.cutoff, c.cutoff + Later(c.ttl, Lifetime) + Leeway)
    BY <1>1 DEF RevocationInv, PlansHold, PlanHolds, Revoked
  <1> HIDE DEF x, c
  <1>4. ASSUME x.validity <= Later(c.ttl, Lifetime)
        PROVE  Holds(now, row, x.iat, x.iat + x.validity + Leeway)
    <2>1. x.iat + x.validity + Leeway <= c.cutoff + Later(c.ttl, Lifetime) + Leeway
      BY <1>1, <1>2, <1>4
    <2> QED
      BY <1>1, <1>2, <1>3, <2>1, HoldsLess
  <1> QED
    BY <1>1, <1>4 DEF PromiseHolds, x, c

-----------------------------------------------------------------------------
(* A change takes its tokens *)

LEMMA RevocationInit == Init => RevocationInv
  <1> SUFFICES ASSUME Init PROVE RevocationInv
    OBVIOUS
  <1>1. TypeOK
    BY TypeInit
  <1>2. IssuedInPast /\ PromisesHold
    BY DEF Init, IssuedInPast, PromisesHold, Issued
  <1>3. PlansHold
    BY IdleFields DEF Init, PlansHold, PlanHolds, Revoked
  <1> QED
    BY <1>1, <1>2, <1>3 DEF RevocationInv

LEMMA SameRow ==
  ASSUME TypeOK, row' = row
  PROVE  RowKept
  BY SMT DEF TypeOK, RowKept, RowGrows, Row

LEMMA RequestStep ==
  ASSUME RevocationInv, TypeOK', NEW r \in Requests, Authenticate(r) \/ IssueToken(r)
  PROVE  RevocationInv'
  <1> USE DEF appVars, historyVars
  <1>1. TypeOK /\ now' = now /\ row' = row /\ admins' = admins /\ promised' = promised
    BY DEF RevocationInv, Authenticate, IssueToken
  <1>2. now <= now' /\ RowKept
    BY <1>1, SameRow DEF TypeOK
  <1>3. \A q \in Issued : requests'[q] = requests[q]
    BY <1>1 DEF Authenticate, IssueToken, Issued, TypeOK
  <1>4. PromisesHold'
    BY <1>1, <1>2, <1>3, PromisesKept DEF PromisesHold, RevocationInv
  <1>5. PlansHold'
    BY <1>1 DEF RevocationInv, PlansHold
  <1>6. IssuedInPast'
    <2> SUFFICES ASSUME NEW q \in Requests, requests'[q].pc = "issued" PROVE requests'[q].iat <= now
      BY <1>1 DEF IssuedInPast, Issued
    <2>1. CASE q = r /\ IssueToken(r)
      BY <2>1, <1>1 DEF IssueToken, TypeOK, Request
    <2>2. CASE q # r \/ Authenticate(r)
      BY <2>2, <1>1 DEF IssueToken, Authenticate, TypeOK, Request, RevocationInv, IssuedInPast, Issued
    <2> QED
      BY <2>1, <2>2
  <1> QED
    BY <1>4, <1>5, <1>6 DEF RevocationInv

\* A step of an administrator: what it has to show.
LEMMA AdminStep ==
  ASSUME RevocationInv, TypeOK', NEW a \in Admins, RowKept, UNCHANGED <<now, requests>>,
         \A b \in Admins : b # a => admins'[b] = admins[b],
         PlanHolds(now, row', admins'[a]),
         \A p \in promised' \ promised :
           p[1] \in Issued /\ PromiseHolds(now, row', requests[p[1]], p[2])
  PROVE  RevocationInv'
  <1>1. TypeOK /\ PlansHold /\ PromisesHold /\ now <= now'
    BY DEF RevocationInv, TypeOK
  <1>2. PlansHold'
    BY <1>1, PlansKept
  <1>3. \A p \in promised : p[1] \in Issued' /\ PromiseHolds(now', row', requests'[p[1]], p[2])
    BY <1>1, PromisesKept
  <1>4. Issued' = Issued
    BY DEF Issued
  <1>5. PromisesHold'
    BY <1>3, <1>4 DEF PromisesHold
  <1>6. IssuedInPast'
    BY <1>4 DEF RevocationInv, IssuedInPast
  <1> QED
    BY <1>2, <1>5, <1>6 DEF RevocationInv

LEMMA IdlePlan ==
  ASSUME TypeOK
  PROVE  PlanHolds(now, row, Idle)
  BY IdleFields DEF PlanHolds, Revoked, TypeOK

\* The step leaves the row alone and ends the change, or moves it on.
LEMMA RowAloneStep ==
  ASSUME RevocationInv, TypeOK', NEW a \in Admins, UNCHANGED <<now, row, requests>>,
         Ends(a) \/ \E pc \in {"client", "entity", "post"} : Goes(a, pc),
         admins[a].pc \in {"client", "entity", "post"} \/ Ends(a),
         \A p \in promised' \ promised :
           p[1] \in Issued /\ PromiseHolds(now, row, requests[p[1]], p[2])
  PROVE  RevocationInv'
  <1>1. TypeOK /\ PlansHold /\ RowKept /\ now <= now'
    BY SameRow DEF RevocationInv, TypeOK
  <1>2. \A b \in Admins : b # a => admins'[b] = admins[b]
    BY <1>1 DEF Ends, Goes, TypeOK
  <1>3. CASE Ends(a)
    <2>1. admins'[a] = Idle
      BY <1>1, <1>3 DEF Ends, TypeOK
    <2>2. PlanHolds(now, row', admins'[a])
      BY <1>1, <2>1, IdlePlan
    <2> QED
      BY <1>1, <1>2, <2>2, AdminStep
  <1>4. CASE ~Ends(a)
    <2>1. PICK pc \in {"client", "entity", "post"} : Goes(a, pc)
      BY <1>4
    <2>2. /\ admins'[a].cutoff = admins[a].cutoff /\ admins'[a].ttl = admins[a].ttl
          /\ admins'[a].revokes = admins[a].revokes
      BY <1>1, <2>1 DEF Goes, TypeOK, Change
    <2>3. PlanHolds(now', row', admins'[a])
      BY <1>1, <1>4, <2>2, PlanGoes DEF Revoked
    <2> QED
      BY <1>1, <1>2, <2>3, AdminStep
  <1> QED
    BY <1>3, <1>4

LEMMA RevokeStep ==
  ASSUME RevocationInv, TypeOK', NEW a \in Admins, RevokeTokens(a)
  PROVE  RevocationInv'
  <1> USE DEF appVars, historyVars
  <1> DEFINE c == admins[a]
  <1>1. /\ TypeOK /\ c \in Change /\ c.cutoff <= now /\ now \in Nat
        /\ c.cutoff \in Nat /\ c.ttl \in Nat /\ Later(c.ttl, Lifetime) \in Nat /\ Leeway \in Nat
    BY LifetimeNat, DenyListConstants DEF RevocationInv, PlansHold, PlanHolds, TypeOK, Change
  <1>2. RowGrows /\ Holds(now, row', c.cutoff, now + Later(c.ttl, Lifetime) + Leeway)
    BY <1>1, WriteHolds DEF RevokeTokens
  <1>3. row' \in Row
    BY DEF TypeOK
  <1>4. Holds(now, row', c.cutoff, c.cutoff + Later(c.ttl, Lifetime) + Leeway)
    <2> HIDE DEF c
    <2>1. c.cutoff + Later(c.ttl, Lifetime) + Leeway <= now + Later(c.ttl, Lifetime) + Leeway
      BY <1>1
    <2> QED
      BY <1>1, <1>2, <1>3, <2>1, HoldsLess
  <1>5. admins'[a].cutoff = c.cutoff /\ admins'[a].ttl = c.ttl
    BY <1>1 DEF RevokeTokens, Goes, TypeOK, Change
  <1>6. PlanHolds(now, row', admins'[a])
    BY <1>1, <1>4, <1>5 DEF PlanHolds
  <1>7. \A b \in Admins : b # a => admins'[b] = admins[b]
    BY <1>1 DEF RevokeTokens, Goes, TypeOK
  <1> QED
    BY <1>2, <1>6, <1>7, AdminStep DEF RevokeTokens, RowKept

LEMMA AdvanceStep ==
  ASSUME RevocationInv, TypeOK', NEW a \in Admins, AdvanceCutoff(a)
  PROVE  RevocationInv'
  <1> USE DEF appVars, historyVars
  <1> DEFINE ttl == admins[a].ttl
  <1>1. /\ TypeOK /\ now \in Nat /\ ttl \in Nat /\ Later(ttl, Lifetime) \in Nat /\ Leeway \in Nat
        /\ row' \in Row /\ PlansHold
    BY LifetimeNat, DenyListConstants DEF RevocationInv, TypeOK, Change
  <1>2. RowGrows /\ Holds(now, row', now, now + Later(ttl, Lifetime) + Leeway)
    BY <1>1, WriteHolds DEF AdvanceCutoff
  <1>3. RowKept
    BY <1>2 DEF RowKept
  <1>4. PlanHolds(now, row', admins'[a])
    <2>1. CASE Ends(a)
      <3>1. admins'[a] = Idle
        BY <1>1, <2>1 DEF Ends, TypeOK
      <3> QED
        BY <1>1, <3>1, IdleFields DEF PlanHolds, Revoked
    <2>2. CASE Goes(a, "entity")
      <3>1. /\ admins'[a].cutoff = admins[a].cutoff /\ admins'[a].ttl = admins[a].ttl
            /\ admins'[a].revokes = admins[a].revokes
        BY <1>1, <2>2 DEF Goes, TypeOK, Change
      <3>2. now' = now /\ now <= now'
        BY <1>1 DEF AdvanceCutoff
      <3> QED
        BY <1>1, <1>3, <3>1, <3>2, PlanGoes DEF Revoked, AdvanceCutoff
    <2> QED
      BY <2>1, <2>2 DEF AdvanceCutoff
  <1>5. ASSUME NEW r \in Issued PROVE PromiseHolds(now, row', requests[r], ttl)
    <2> DEFINE x == requests[r]
    <2>1. x \in Request /\ x.iat <= now
      BY <1>1 DEF RevocationInv, IssuedInPast, TypeOK, Issued
    <2>2. x.iat \in Nat /\ x.validity \in Nat
      BY <2>1, ApplicationChangeConstants DEF Request
    <2> HIDE DEF x, ttl
    <2>3. ASSUME x.validity <= Later(ttl, Lifetime)
          PROVE  Holds(now, row', x.iat, x.iat + x.validity + Leeway)
      <3>1. x.iat + x.validity + Leeway <= now + Later(ttl, Lifetime) + Leeway
        BY <1>1, <2>1, <2>2, <2>3
      <3> QED
        BY <1>1, <1>2, <2>1, <2>2, <3>1, HoldsLess
    <2> QED
      BY <2>3 DEF PromiseHolds, x
  <1>6. \A b \in Admins : b # a => admins'[b] = admins[b]
    BY <1>1 DEF AdvanceCutoff, Goes, Ends, TypeOK
  <1>7. \A p \in promised' \ promised :
          p[1] \in Issued /\ PromiseHolds(now, row', requests[p[1]], p[2])
    BY <1>5 DEF AdvanceCutoff, Promises
  <1> QED
    BY <1>3, <1>4, <1>6, <1>7, AdminStep DEF AdvanceCutoff

LEMMA RevocationStep ==
  ASSUME RevocationInv, [Next]_vars
  PROVE  RevocationInv'
  <1> USE DEF appVars, historyVars
  <1>0. TypeOK /\ TypeOK' /\ now \in Nat
    BY TypeStep DEF RevocationInv, TypeOK
  <1>1. CASE \E r \in Requests : Authenticate(r) \/ IssueToken(r)
    BY <1>0, <1>1, RequestStep
  <1>2. ASSUME NEW a \in Admins,
               StartCreate(a) \/ StartUpdate(a) \/ StartRegenerate(a) \/ StartDelete(a)
        PROVE  RevocationInv'
    <2>1. PICK c \in Change : Start(a, c) /\ c.cutoff = 0 /\ ~Revoked(c)
      BY <1>0, <1>2, StartsType
    <2>2. admins'[a] = c /\ \A b \in Admins : b # a => admins'[b] = admins[b]
      BY <1>0, <2>1 DEF Start, TypeOK
    <2>3. PlanHolds(now, row', admins'[a])
      BY <1>0, <2>1, <2>2 DEF PlanHolds
    <2>4. RowKept /\ UNCHANGED <<now, requests, promised>>
      BY <1>0, <2>1, SameRow DEF Start
    <2> QED
      BY <1>0, <2>2, <2>3, <2>4, AdminStep
  <1>3. ASSUME NEW a \in Admins, Plan(a) PROVE RevocationInv'
    <2>1. PICK ttl \in Lifetimes(admins[a].kind) :
            admins' = [admins EXCEPT ![a] = [@ EXCEPT !.pc = "revoke", !.cutoff = now, !.ttl = ttl]]
      BY <1>3 DEF Plan
    <2>2. /\ admins'[a].cutoff = now /\ admins'[a].pc = "revoke"
          /\ \A b \in Admins : b # a => admins'[b] = admins[b]
      BY <1>0, <2>1 DEF TypeOK, Change
    <2>3. PlanHolds(now, row', admins'[a])
      BY <1>0, <2>2 DEF PlanHolds, Revoked
    <2>4. RowKept /\ UNCHANGED <<now, requests, promised>>
      BY <1>0, <1>3, SameRow DEF Plan
    <2> QED
      BY <1>0, <2>2, <2>3, <2>4, AdminStep
  <1>4. ASSUME NEW a \in Admins, RevokeTokens(a) \/ AdvanceCutoff(a) PROVE RevocationInv'
    BY <1>0, <1>4, RevokeStep, AdvanceStep
  <1>5. ASSUME NEW a \in Admins, UpdateSecret(a) \/ DeleteInboundClient(a) PROVE RevocationInv'
    <2>1. UNCHANGED <<now, row, requests>> /\ admins[a].pc \in {"client", "entity", "post"}
      BY <1>5 DEF UpdateSecret, DeleteInboundClient
    <2>2. Ends(a) \/ \E pc \in {"client", "entity", "post"} : Goes(a, pc)
      BY <1>5 DEF UpdateSecret, DeleteInboundClient
    <2>3. \A r \in Covered(a) : r \in Issued /\ PromiseHolds(now, row, requests[r], admins[a].ttl)
      BY <2>1, CoveredHolds
    <2>4. \A p \in promised' \ promised :
            p[1] \in Issued /\ PromiseHolds(now, row, requests[p[1]], p[2])
      BY <1>5, <2>3 DEF UpdateSecret, DeleteInboundClient, Promises
    <2> QED
      BY <1>0, <2>1, <2>2, <2>4, RowAloneStep
  <1>6. ASSUME NEW a \in Admins,
               \/ UpdateInboundClient(a) \/ DeleteEntity(a)
               \/ CreateEntity(a) \/ CreateInboundClient(a) \/ Fails(a)
        PROVE  RevocationInv'
    <2>1. /\ UNCHANGED <<now, row, requests, promised>>
          /\ Ends(a) \/ \E pc \in {"client", "entity", "post"} : Goes(a, pc)
          /\ admins[a].pc \in {"client", "entity", "post"} \/ Ends(a)
      BY <1>6 DEF UpdateInboundClient, DeleteEntity, CreateEntity, CreateInboundClient, Fails
    <2> QED
      BY <1>0, <2>1, RowAloneStep
  <1>7. CASE CleanUp \/ Tick \/ UNCHANGED vars
    <2>1. /\ UNCHANGED <<requests, admins, promised>>
          /\ now <= now' /\ now' \in Nat
      BY <1>0, <1>7 DEF CleanUp, Tick, vars
    <2>2. RowKept
      BY <1>0, <1>7, SameRow DEF CleanUp, Tick, vars, RowKept
    <2>3. PromisesHold'
      BY <1>0, <2>1, <2>2, PromisesKept DEF PromisesHold, RevocationInv
    <2>4. PlansHold'
      <3> SUFFICES ASSUME NEW b \in Admins PROVE PlanHolds(now', row', admins[b])
        BY <2>1 DEF PlansHold
      <3> QED
        BY <1>0, <2>1, <2>2, PlanKept DEF RevocationInv, PlansHold, TypeOK
    <2>5. IssuedInPast'
      <3> SUFFICES ASSUME NEW r \in Issued PROVE requests[r].iat <= now'
        BY <2>1 DEF IssuedInPast, Issued
      <3>1. requests[r].iat \in Nat /\ requests[r].iat <= now
        BY <1>0 DEF RevocationInv, IssuedInPast, TypeOK, Issued, Request
      <3> QED
        BY <1>0, <2>1, <3>1
    <2> QED
      BY <1>0, <2>3, <2>4, <2>5 DEF RevocationInv
  <1> QED
    BY <1>1, <1>2, <1>3, <1>4, <1>5, <1>6, <1>7 DEF Next

LEMMA HeldIsRejected ==
  ASSUME RevocationInv
  PROVE  ChangeTakesTokens
  <1> SUFFICES ASSUME NEW p \in promised, requests[p[1]].validity <= Later(p[2], Lifetime)
               PROVE  Rejected(p[1]) \/ Expired(p[1])
    BY DEF ChangeTakesTokens
  <1> DEFINE x == requests[p[1]]
  <1>1. x \in Request /\ now \in Nat /\ row \in Row
    BY DEF RevocationInv, TypeOK
  <1>2. x.iat \in Nat /\ x.validity \in Nat
    BY <1>1, ApplicationChangeConstants DEF Request
  <1>3. Holds(now, row, x.iat, x.iat + x.validity + Leeway)
    BY DEF RevocationInv, PromisesHold, PromiseHolds
  <1> HIDE DEF x
  <1>4. Matches(row, x.iat, now) \/ PastExpiry(x.iat + x.validity, now)
    BY <1>1, <1>2, <1>3, DenyListConstants, SMT DEF Holds, Matches, PastExpiry, Row
  <1> QED
    BY <1>4 DEF Rejected, Expired, x

(***************************************************************************)
(* Once the new secret is written or the client deleted, the tokens issued *)
(* up to the plan of the change are rejected until they expire, and so are *)
(* all tokens issued until its cutoff moved up: updateApplication and      *)
(* deleteApplication, whatever other changes, failures and sweeps come     *)
(* between, for tokens that live no longer than the plan asked for.        *)
(***************************************************************************)
THEOREM ChangesTakeTokens == Spec => []ChangeTakesTokens
  <1>1. Init => RevocationInv
    BY RevocationInit
  <1>2. RevocationInv /\ [Next]_vars => RevocationInv'
    BY RevocationStep
  <1>3. RevocationInv => ChangeTakesTokens
    BY HeldIsRejected
  <1> QED
    BY <1>1, <1>2, <1>3, PTL DEF Spec

-----------------------------------------------------------------------------
(* It takes no other tokens *)

LEMMA QuietInit == Init => QuietInv
  BY DEF Init, QuietInv, NoRow, Issued

\* A step of an administrator a, after which the change goes on.
LEMMA NotQuiet ==
  ASSUME NEW a \in Admins, admins[a].pc # "idle"
  PROVE  ~Quiet
  BY DEF Quiet

LEMMA WriteNotAhead ==
  ASSUME TypeOK, QuietInv, NEW a \in Admins, NEW cutoff \in Nat, cutoff <= now,
         WritesRow(a, cutoff)
  PROVE  ~row'.terminal /\ row'.revokedAt <= now
  <1>1. row \in Row /\ now \in Nat
    BY DEF TypeOK
  <1> QED
    BY <1>1, SMT DEF QuietInv, WritesRow, Upsert, BoundaryRow, Row

\* What a step has to show when a change is under way before it.
LEMMA BusyStep ==
  ASSUME TypeOK, TypeOK', QuietInv, NEW a \in Admins, admins[a].pc # "idle",
         now' = now, settled' = settled,
         ~row'.terminal, row'.revokedAt <= now,
         (lastEnd' = now) \/ (lastEnd' = lastEnd /\ admins'[a].pc # "idle")
  PROVE  QuietInv'
  <1>1. settled' = {}
    BY NotQuiet DEF QuietInv
  <1>2. lastEnd' <= now' /\ (Quiet' => row'.revokedAt <= lastEnd')
    BY DEF QuietInv, Quiet, TypeOK
  <1> QED
    BY <1>1, <1>2 DEF QuietInv

LEMMA QuietStepInv ==
  ASSUME RevocationInv, QuietInv, [Next]_vars
  PROVE  QuietInv'
  <1> USE DEF appVars, historyVars
  <1>0. TypeOK /\ TypeOK' /\ now \in Nat
    BY TypeStep DEF RevocationInv, TypeOK
  <1>1. ASSUME NEW r \in Requests, Authenticate(r) PROVE QuietInv'
    <2>1. Quiet' = Quiet
      BY <1>1 DEF Authenticate, Quiet
    <2>2. \A q \in Issued : q \in Issued' /\ requests'[q] = requests[q]
      BY <1>0, <1>1 DEF Authenticate, Issued, TypeOK
    <2> QED
      BY <1>1, <2>1, <2>2 DEF Authenticate, QuietInv
  <1>2. ASSUME NEW r \in Requests, IssueToken(r) PROVE QuietInv'
    <2>1. Quiet' = Quiet
      BY <1>2 DEF IssueToken, Quiet
    <2>2. \A q \in Issued : q \in Issued' /\ requests'[q] = requests[q]
      BY <1>0, <1>2 DEF IssueToken, Issued, TypeOK
    <2>3. r \in Issued' /\ requests'[r].iat = now
      BY <1>0, <1>2 DEF IssueToken, Issued, TypeOK, Request
    <2>4. UNCHANGED <<now, row, lastEnd>>
      BY <1>2 DEF IssueToken
    <2>5. CASE Quiet /\ now > lastEnd
      <3>1. settled' = settled \cup {r}
        BY <1>2, <2>5 DEF IssueToken
      <3> QED
        BY <2>1, <2>2, <2>3, <2>4, <2>5, <3>1 DEF QuietInv
    <2>6. CASE ~(Quiet /\ now > lastEnd)
      <3>1. settled' = settled
        BY <1>2, <2>6 DEF IssueToken
      <3> QED
        BY <2>1, <2>2, <2>4, <3>1 DEF QuietInv
    <2> QED
      BY <2>5, <2>6
  <1>3. ASSUME NEW a \in Admins,
               StartCreate(a) \/ StartUpdate(a) \/ StartRegenerate(a) \/ StartDelete(a)
        PROVE  QuietInv'
    <2>1. PICK c \in Change : Start(a, c) /\ c.pc # "idle"
      BY <1>0, <1>3, StartsType
    <2>2. settled' = {} /\ UNCHANGED <<now, row, lastEnd>> /\ admins'[a].pc # "idle"
      BY <1>0, <2>1 DEF Start, TypeOK
    <2>3. ~Quiet'
      BY <2>2 DEF Quiet
    <2> QED
      BY <2>2, <2>3 DEF QuietInv
  <1>4. ASSUME NEW a \in Admins, Plan(a) PROVE QuietInv'
    <2>1. PICK ttl \in Lifetimes(admins[a].kind) :
            admins' = [admins EXCEPT ![a] = [@ EXCEPT !.pc = "revoke", !.cutoff = now, !.ttl = ttl]]
      BY <1>4 DEF Plan
    <2>2. admins[a].pc # "idle" /\ admins'[a].pc # "idle"
      BY <1>0, <1>4, <2>1 DEF Plan, TypeOK, Change
    <2> QED
      BY <1>0, <1>4, <2>2, BusyStep DEF Plan, QuietInv
  <1>5. ASSUME NEW a \in Admins, RevokeTokens(a) PROVE QuietInv'
    <2>1. admins[a].cutoff \in Nat /\ admins[a].cutoff <= now
      BY <1>0 DEF RevocationInv, PlansHold, PlanHolds, TypeOK, Change
    <2>2. ~row'.terminal /\ row'.revokedAt <= now
      BY <1>0, <1>5, <2>1, WriteNotAhead DEF RevokeTokens
    <2>3. admins[a].pc # "idle" /\ admins'[a].pc # "idle"
      BY <1>0, <1>5 DEF RevokeTokens, Goes, TypeOK, Change
    <2> QED
      BY <1>0, <1>5, <2>2, <2>3, BusyStep DEF RevokeTokens
  <1>6. ASSUME NEW a \in Admins, AdvanceCutoff(a) PROVE QuietInv'
    <2>1. ~row'.terminal /\ row'.revokedAt <= now
      BY <1>0, <1>6, WriteNotAhead DEF AdvanceCutoff
    <2>2. /\ admins[a].pc # "idle"
          /\ (lastEnd' = now) \/ (lastEnd' = lastEnd /\ admins'[a].pc # "idle")
      BY <1>0, <1>6 DEF AdvanceCutoff, Ends, Goes, TypeOK, Change
    <2> QED
      BY <1>0, <1>6, <2>1, <2>2, BusyStep DEF AdvanceCutoff
  <1>7. ASSUME NEW a \in Admins,
               \/ UpdateInboundClient(a) \/ UpdateSecret(a)
               \/ DeleteInboundClient(a) \/ DeleteEntity(a)
               \/ CreateEntity(a) \/ CreateInboundClient(a)
               \/ Fails(a)
        PROVE  QuietInv'
    <2>1. UNCHANGED <<now, row, settled>> /\ admins[a].pc # "idle"
      BY <1>7 DEF UpdateInboundClient, UpdateSecret, DeleteInboundClient, DeleteEntity,
                  CreateEntity, CreateInboundClient, Fails
    <2>2. Ends(a) \/ \E pc \in {"client", "entity", "post"} : Goes(a, pc) /\ lastEnd' = lastEnd
      BY <1>7 DEF UpdateInboundClient, UpdateSecret, DeleteInboundClient, DeleteEntity,
                  CreateEntity, CreateInboundClient, Fails
    <2>3. (lastEnd' = now) \/ (lastEnd' = lastEnd /\ admins'[a].pc # "idle")
      BY <1>0, <2>2 DEF Ends, Goes, TypeOK, Change
    <2> QED
      BY <1>0, <2>1, <2>3, BusyStep DEF QuietInv
  <1>8. CASE CleanUp
    <2>1. Quiet' = Quiet /\ Issued' = Issued
      BY <1>8 DEF CleanUp, Quiet, Issued
    <2>2. lastEnd \in Nat /\ row' = NoRow /\ UNCHANGED <<now, lastEnd, settled, requests>>
      BY <1>0, <1>8 DEF CleanUp, TypeOK
    <2> QED
      BY <1>0, <2>1, <2>2 DEF QuietInv, NoRow
  <1>9. CASE Tick \/ UNCHANGED vars
    <2>1. Quiet' = Quiet /\ Issued' = Issued
      BY <1>9 DEF Tick, vars, Quiet, Issued
    <2>2. /\ UNCHANGED <<row, lastEnd, settled, requests>> /\ now <= now' /\ now' \in Nat
          /\ lastEnd \in Nat /\ row.revokedAt \in Nat
      BY <1>0, <1>9 DEF Tick, vars, TypeOK, Row
    <2> QED
      BY <1>0, <2>1, <2>2 DEF QuietInv
  <1> QED
    BY <1>1, <1>2, <1>3, <1>4, <1>5, <1>6, <1>7, <1>8, <1>9 DEF Next

(***************************************************************************)
(* A token issued in a later second than the last change ended, with none  *)
(* under way, is valid until the next one starts, for a new secret and for *)
(* a new application under the client id of a deleted one: the two         *)
(* revocations of a change never reach ahead of its end.                   *)
(***************************************************************************)
THEOREM LaterTokensStayValid == Spec => []LaterTokensValid
  <1>1. Init => RevocationInv /\ QuietInv
    BY RevocationInit, QuietInit
  <1>2. RevocationInv /\ QuietInv /\ [Next]_vars => RevocationInv' /\ QuietInv'
    BY RevocationStep, QuietStepInv
  <1>3. RevocationInv /\ QuietInv => LaterTokensValid
    <2> SUFFICES ASSUME RevocationInv, QuietInv, NEW r \in settled PROVE ~Rejected(r)
      BY DEF LaterTokensValid
    <2>1. Quiet /\ requests[r].iat > lastEnd /\ row.revokedAt <= lastEnd /\ ~row.terminal
      BY DEF QuietInv
    <2>2. requests[r].iat \in Nat /\ lastEnd \in Nat /\ row.revokedAt \in Nat
      BY DEF RevocationInv, TypeOK, Request, Row
    <2> QED
      BY <2>1, <2>2 DEF Rejected, Matches
  <1> QED
    BY <1>1, <1>2, <1>3, PTL DEF Spec
=============================================================================
