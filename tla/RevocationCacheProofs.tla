----------------------- MODULE RevocationCacheProofs ------------------------
(***************************************************************************)
(* Proofs about RevocationCache, for any tokens, criteria, lifetimes and   *)
(* interleaving.  A revocation lasts because some row of the token holds   *)
(* it: the row matches the token and lasts as long as the token does.      *)
(* Rows only grow in that order while they are written again, and a row    *)
(* that lapses or is removed takes only expired tokens with it.  A         *)
(* snapshot under way has every revocation in what was read of it or in a  *)
(* row that is still to be read.  And no copy of the rows has what they no *)
(* longer have, until it lapses in both.                                   *)
(***************************************************************************)
EXTENDS RevocationCache, TLAPS

(***************************************************************************)
(* What the producers owe: they ask for a lifetime that covers every token *)
(* their criterion is on, or the configured one does.                      *)
(***************************************************************************)
LifetimesCover ==
  \A t \in Tokens : \A c \in Carries[t] :
    DimensionOf[c] # "jti" => Validity[t] <= Later(TTL[c], Lifetime)

\* The row r rejects a token issued at `iat` and lasts until the token has expired.
Holds(r, iat, t) ==
  /\ r.terminal \/ iat <= r.revokedAt
  /\ r.expiry >= iat + Validity[t] + Leeway

\* r says no less than q.
Covers(r, q) ==
  /\ r \in Row
  /\ q.terminal => r.terminal
  /\ \A iat \in Nat : iat <= q.revokedAt => r.terminal \/ iat <= r.revokedAt
  /\ r.expiry >= q.expiry

HeldBy(list, t) == \E c \in Carries[t] : Holds(list[c], issued[t], t)

\* The dimension of c has been read by the snapshot under way.
Read(c) == \E i \in 1..6 : i < sync.next /\ Dimensions[i] = DimensionOf[c]

Pending(t) ==
  \E c \in Carries[t] :
    IF Read(c) THEN Holds(sync.snapshot[c], issued[t], t) ELSE Holds(rows[c], issued[t], t)

\* A step never weakens a row.
RowsGrow == \A c \in Criteria : Covers(rows'[c], rows[c])

\* A row that a step writes lasts as long as every token issued that it is on, and
\* by jti or family it takes every one of them.
RowsLast ==
  /\ \A t \in Tokens : \A c \in Carries[t] :
       Issued(t) /\ rows'[c] # rows[c] => rows'[c].expiry >= issued[t] + Validity[t] + Leeway
  /\ \A c \in Criteria :
       DimensionOf[c] \in Terminals /\ rows'[c] # rows[c] => rows'[c].terminal

\* A step keeps what holds a revoked token, or the token has expired after it.
RowsKeep ==
  \A t \in revoked :
    /\ issued'[t] = issued[t]
    /\ Expired(t) => Expired(t)'
    /\ \A c \in Carries[t] :
         Holds(rows[c], issued[t], t) => Holds(rows'[c], issued[t], t) \/ Expired(t)'

IssuedInPast == \A t \in Tokens : Issued(t) => issued[t] <= now
RevokedIssued == \A t \in revoked : Issued(t)
RevokedHeld == \A t \in revoked : Expired(t) \/ HeldBy(rows, t)

(***************************************************************************)
(* The inductive invariant of the deny lists.                              *)
(***************************************************************************)
DenyInv == TypeOK /\ IssuedInPast /\ RevokedIssued /\ RevokedHeld

(***************************************************************************)
(* The invariant of the cache.                                             *)
(***************************************************************************)
CacheInv ==
  /\ atStart \subseteq revoked /\ installed \subseteq revoked
  /\ sync.at <= now
  /\ sync.next # 0 => \A t \in atStart : Expired(t) \/ Pending(t)
  /\ \A t \in installed : Expired(t) \/ HeldBy(cache, t)

-----------------------------------------------------------------------------
(* The rows *)

LEMMA RowTypes ==
  /\ NoRow \in Row
  /\ \A n, ttl \in Nat : TerminalRow(n, ttl) \in Row
  /\ \A n, cutoff, ttl \in Nat : BoundaryRow(n, cutoff, ttl) \in Row
  /\ \A n, exp \in Nat : TokenRow(n, exp) \in Row
  BY DenyListConstants, SMT
  DEF NoRow, Row, TerminalRow, BoundaryRow, TokenRow, CriterionExpiry, Later

(***************************************************************************)
(* A second write of a criterion never weakens its row, whatever reason,   *)
(* cutoff and lifetime it comes with: revocationCriteriaUpsertClause.      *)
(***************************************************************************)
THEOREM UpsertNeverWeakens ==
  ASSUME NEW q \in Row, NEW r \in Row
  PROVE  Covers(Upsert(q, r), q) /\ Upsert(q, r).expiry >= r.expiry
  BY SMT DEF Covers, Upsert, Later, Row

LEMMA UpsertTerminal ==
  ASSUME NEW q \in Row, NEW r \in Row, r.terminal
  PROVE  Upsert(q, r).terminal
  BY SMT DEF Upsert, Later, Row

LEMMA InsertOnceCovers ==
  ASSUME NEW q \in Row, NEW r \in Row, r.terminal
  PROVE  Covers(InsertOnce(q, r), q)
  BY SMT DEF Covers, InsertOnce, NoRow, Row

LEMMA CoversReflexive ==
  ASSUME NEW q \in Row
  PROVE  Covers(q, q)
  BY SMT DEF Covers, Row

LEMMA CoversHolds ==
  ASSUME NEW q \in Row, NEW r \in Row, Covers(r, q),
         NEW iat \in Nat, NEW t \in Tokens, Holds(q, iat, t)
  PROVE  Holds(r, iat, t)
  <1>1. Validity[t] \in Nat
    BY RevocationCacheConstants
  <1> QED
    BY <1>1, DenyListConstants, SMT DEF Covers, Holds, Row

(***************************************************************************)
(* What a producer writes lasts as long as every token issued until now.   *)
(***************************************************************************)
LEMMA WrittenLasts ==
  ASSUME LifetimesCover, NEW n \in Nat, NEW cutoff \in Nat, NEW iat \in Nat, iat <= n,
         NEW t \in Tokens, NEW c \in Carries[t], DimensionOf[c] # "jti", TTL[c] \in Nat
  PROVE  /\ TerminalRow(n, TTL[c]).expiry >= iat + Validity[t] + Leeway
         /\ BoundaryRow(n, cutoff, TTL[c]).expiry >= iat + Validity[t] + Leeway
  <1>1. Validity[t] \in Nat /\ Validity[t] <= Later(TTL[c], Lifetime)
    BY RevocationCacheConstants DEF LifetimesCover
  <1> QED
    BY <1>1, DenyListConstants, SMT DEF TerminalRow, BoundaryRow, CriterionExpiry, Later

LEMMA HoldsUntilExpiry ==
  ASSUME NEW r \in Row, NEW t \in Tokens, issued[t] \in Nat, now \in Nat, Issued(t),
         Holds(r, issued[t], t)
  PROVE  Matches(r, issued[t], now) \/ Expired(t)
  <1>1. Validity[t] \in Nat
    BY RevocationCacheConstants
  <1> QED
    BY <1>1, DenyListConstants, SMT DEF Holds, Matches, Expired, PastExpiry, Row

-----------------------------------------------------------------------------
(* The deny lists *)

LEMMA DimensionsAre ==
  /\ Len(Dimensions) = 6 /\ DOMAIN Dimensions = 1..6
  /\ \A i, k \in 1..6 : Dimensions[i] = Dimensions[k] => i = k
  /\ \A c \in Criteria : \E i \in 1..6 : DimensionOf[c] = Dimensions[i]
  <1>1. Len(Dimensions) = 6 /\ DOMAIN Dimensions = 1..6
    BY SMT DEF Dimensions
  <1>2. \A i, k \in 1..6 : Dimensions[i] = Dimensions[k] => i = k
    BY SMT DEF Dimensions
  <1>3. \A c \in Criteria : \E i \in DOMAIN Dimensions : DimensionOf[c] = Dimensions[i]
    BY RevocationCacheConstants
  <1> QED
    BY <1>1, <1>2, <1>3

LEMMA DenyInit == Init => DenyInv
  <1> SUFFICES ASSUME Init PROVE DenyInv
    OBVIOUS
  <1>1. NoRows \in [Criteria -> Row]
    BY RowTypes DEF NoRows
  <1>2. Reading \in Sync
    BY <1>1, DimensionsAre, SMT DEF Init, Reading, Sync
  <1>3. TypeOK
    <2>1. 0 \in Nat /\ 1 \in Nat
      BY SMT
    <2> QED
      BY <1>1, <1>2, <2>1, Zenon DEF Init, TypeOK
  <1>4. \A u \in Tokens : ~Issued(u)
    BY DEF Init, Issued
  <1> QED
    BY <1>3, <1>4 DEF DenyInv, IssuedInPast, RevokedIssued, RevokedHeld, Init

(***************************************************************************)
(* A write that only grows rows, and grows them for as long as the tokens  *)
(* it newly rejects, keeps every revocation.                               *)
(***************************************************************************)
LEMMA WriteHolds ==
  ASSUME DenyInv, NEW new \in [Criteria -> Row], Write(new), UNCHANGED <<now, issued>>,
         \A c \in Criteria : Covers(new[c], rows[c]),
         \A t \in Tokens : \A c \in Carries[t] :
           Issued(t) /\ new[c] # rows[c] => new[c].expiry >= issued[t] + Validity[t] + Leeway
  PROVE  RevokedHeld' /\ RevokedIssued' /\ IssuedInPast' /\ revoked' \subseteq Tokens
  <1>1. \A t \in Tokens : Issued(t) => issued[t] \in Nat
    BY DEF DenyInv, TypeOK, Issued
  <1>2. \A t \in Tokens : Issued(t)' = Issued(t) /\ Expired(t)' = Expired(t)
    BY DEF Issued, Expired
  <1>3. \A t \in Tokens : Carries[t] \subseteq Criteria
    BY RevocationCacheConstants
  <1>4. rows' = new
    BY DEF Write
  <1>5. ASSUME NEW t \in revoked
        PROVE  Expired(t) \/ HeldBy(new, t)
    <2>1. t \in Tokens /\ Issued(t)
      BY DEF DenyInv, TypeOK, RevokedIssued
    <2>2. CASE Expired(t)
      BY <2>2
    <2>3. CASE HeldBy(rows, t)
      <3>1. PICK c \in Carries[t] : Holds(rows[c], issued[t], t)
        BY <2>3 DEF HeldBy
      <3>2. c \in Criteria /\ rows[c] \in Row /\ new[c] \in Row
        BY <2>1, <1>3 DEF DenyInv, TypeOK
      <3>3. Holds(new[c], issued[t], t)
        BY <3>1, <3>2, <2>1, <1>1, CoversHolds
      <3> QED
        BY <3>3 DEF HeldBy
    <2> QED
      BY <2>2, <2>3 DEF DenyInv, RevokedHeld
  <1>6. ASSUME NEW t \in Tokens, RejectedBy(new, t), ~RejectedBy(rows, t)
        PROVE  HeldBy(new, t) /\ Issued(t)
    <2>1. Issued(t)
      BY <1>6 DEF RejectedBy
    <2>2. PICK c \in Carries[t] : Matches(new[c], issued[t], now)
      BY <1>6 DEF RejectedBy
    <2>3. ~Matches(rows[c], issued[t], now)
      BY <1>6, <2>1 DEF RejectedBy
    <2>4. new[c] # rows[c]
      BY <2>2, <2>3
    <2>5. Holds(new[c], issued[t], t)
      BY <2>1, <2>2, <2>4 DEF Holds, Matches
    <2> QED
      BY <2>1, <2>5 DEF HeldBy
  <1>7. revoked' \subseteq Tokens
    BY DEF Write, DenyInv, TypeOK
  <1>8. ASSUME NEW t \in revoked' PROVE (Expired(t) \/ HeldBy(new, t)) /\ Issued(t)
    <2>1. CASE t \in revoked
      BY <2>1, <1>5 DEF DenyInv, RevokedIssued
    <2>2. CASE t \in Tokens /\ RejectedBy(new, t) /\ ~RejectedBy(rows, t)
      BY <2>2, <1>6
    <2> QED
      BY <2>1, <2>2, <1>8 DEF Write
  <1>9. RevokedHeld'
    <2> SUFFICES ASSUME NEW t \in revoked' PROVE Expired(t)' \/ HeldBy(rows, t)'
      BY DEF RevokedHeld
    <2>1. HeldBy(rows, t)' <=> HeldBy(new, t)
      BY <1>4 DEF HeldBy
    <2> QED
      BY <2>1, <1>2, <1>7, <1>8
  <1>10. RevokedIssued'
    BY <1>2, <1>7, <1>8 DEF RevokedIssued
  <1>11. IssuedInPast'
    BY <1>2 DEF IssuedInPast, DenyInv
  <1> QED
    BY <1>7, <1>9, <1>10, <1>11

LEMMA RevokeTokenHolds ==
  ASSUME DenyInv, NEW t \in Tokens, RevokeToken(t)
  PROVE  DenyInv' /\ RowsGrow /\ RowsLast
  <1> DEFINE r == TokenRow(now, issued[t] + Validity[t])
             new == [rows EXCEPT ![JTIOf[t]] = InsertOnce(@, r)]
  <1>1. issued[t] \in Nat /\ Validity[t] \in Nat /\ now \in Nat /\ JTIOf[t] \in Criteria
    BY RevocationCacheConstants DEF DenyInv, TypeOK, RevokeToken, Issued
  <1>2. r \in Row /\ r.terminal /\ r.expiry = issued[t] + Validity[t] + Leeway
    BY <1>1, RowTypes, SMT DEF TokenRow
  <1> HIDE DEF r
  <1>3. rows \in [Criteria -> Row] /\ rows[JTIOf[t]] \in Row
    BY <1>1 DEF DenyInv, TypeOK
  <1>4. InsertOnce(rows[JTIOf[t]], r) \in Row /\ Covers(InsertOnce(rows[JTIOf[t]], r), rows[JTIOf[t]])
    BY <1>2, <1>3, InsertOnceCovers DEF Covers
  <1>5. new \in [Criteria -> Row]
    BY <1>3, <1>4
  <1>6. \A c \in Criteria : Covers(new[c], rows[c])
    <2> TAKE c \in Criteria
    <2>1. CASE c = JTIOf[t]
      BY <2>1, <1>3, <1>4
    <2>2. CASE c # JTIOf[t]
      BY <2>2, <1>3, CoversReflexive
    <2> QED
      BY <2>1, <2>2
  <1>7. ASSUME NEW u \in Tokens, NEW c \in Carries[u], Issued(u), new[c] # rows[c]
        PROVE  new[c].expiry >= issued[u] + Validity[u] + Leeway
    <2>1. c \in Criteria
      BY RevocationCacheConstants
    <2>2. c = JTIOf[t]
      BY <1>3, <1>7, <2>1
    <2>3. u = t
      BY <2>2, RevocationCacheConstants
    <2>4. new[c] = InsertOnce(rows[c], r)
      BY <1>3, <2>1, <2>2
    <2>5. new[c] = r
      BY <2>4, <1>7 DEF InsertOnce
    <2> QED
      BY <1>1, <1>2, <2>3, <2>5, DenyListConstants
  <1>8. Write(new) /\ UNCHANGED <<now, issued>> /\ rows' = new
    BY DEF RevokeToken, r, Write
  <1>12. ASSUME NEW c \in Criteria, new[c] # rows[c]
         PROVE  new[c].terminal
    <2>1. c = JTIOf[t] /\ new[c] = InsertOnce(rows[c], r)
      BY <1>3, <1>12
    <2> QED
      BY <1>2, <1>12, <2>1 DEF InsertOnce
  <1> HIDE DEF new
  <1>9. RevokedHeld' /\ RevokedIssued' /\ IssuedInPast' /\ revoked' \subseteq Tokens
    BY <1>5, <1>6, <1>7, <1>8, WriteHolds
  <1>10. writes' \in Nat
    BY <1>8 DEF Write, DenyInv, TypeOK
  <1>11. TypeOK'
    BY <1>5, <1>8, <1>9, <1>10 DEF RevokeToken, TypeOK, DenyInv, cacheVars
  <1> QED
    BY <1>6, <1>7, <1>8, <1>9, <1>11, <1>12 DEF DenyInv, RowsGrow, RowsLast

LEMMA FamilyWriteHolds ==
  ASSUME DenyInv, LifetimesCover, NEW f \in Families, Write(FamilyRows(f)),
         UNCHANGED <<now, issued>>
  PROVE  /\ rows' \in [Criteria -> Row] /\ writes' \in Nat
         /\ RevokedHeld' /\ RevokedIssued' /\ IssuedInPast' /\ revoked' \subseteq Tokens
         /\ RowsGrow /\ RowsLast
  <1> DEFINE r == TerminalRow(now, TTL[f])
             new == FamilyRows(f)
  <1>1. now \in Nat /\ f \in Criteria /\ TTL[f] \in Nat /\ DimensionOf[f] # "jti"
    BY RevocationCacheConstants DEF DenyInv, TypeOK, Families
  <1>2. r \in Row
    BY <1>1, RowTypes
  <1>3. rows \in [Criteria -> Row] /\ rows[f] \in Row
    BY <1>1 DEF DenyInv, TypeOK
  <1>4. /\ Upsert(rows[f], r) \in Row
        /\ Covers(Upsert(rows[f], r), rows[f])
        /\ Upsert(rows[f], r).expiry >= r.expiry
    BY <1>2, <1>3, UpsertNeverWeakens DEF Covers
  <1>5. new \in [Criteria -> Row]
    BY <1>3, <1>4 DEF FamilyRows
  <1>6. \A c \in Criteria : Covers(new[c], rows[c])
    <2> TAKE c \in Criteria
    <2>1. CASE c = f
      BY <2>1, <1>3, <1>4 DEF FamilyRows
    <2>2. CASE c # f
      <3>1. new[c] = rows[c] /\ rows[c] \in Row
        BY <2>2, <1>3 DEF FamilyRows
      <3> QED
        BY <3>1, CoversReflexive
    <2> QED
      BY <2>1, <2>2
  <1>7. ASSUME NEW u \in Tokens, NEW c \in Carries[u], Issued(u), new[c] # rows[c]
        PROVE  new[c].expiry >= issued[u] + Validity[u] + Leeway
    <2>1. c \in Criteria /\ Validity[u] \in Nat
      BY RevocationCacheConstants
    <2>2. c = f
      BY <1>3, <1>7, <2>1 DEF FamilyRows
    <2>3. issued[u] \in Nat /\ issued[u] <= now
      BY <1>7 DEF DenyInv, TypeOK, Issued, IssuedInPast
    <2>4. r.expiry >= issued[u] + Validity[u] + Leeway
      BY <1>1, <2>2, <2>3, WrittenLasts
    <2>5. new[c] = Upsert(rows[f], r)
      BY <1>3, <2>1, <2>2 DEF FamilyRows
    <2>6. r.expiry \in Nat /\ Upsert(rows[f], r).expiry \in Nat
      BY <1>2, <1>4 DEF Row
    <2> HIDE DEF r
    <2> QED
      BY <1>4, <2>1, <2>3, <2>4, <2>5, <2>6, DenyListConstants
  <1>8. rows' = new /\ writes' \in Nat
    BY DEF Write, DenyInv, TypeOK
  <1>10. ASSUME NEW c \in Criteria, new[c] # rows[c]
         PROVE  new[c].terminal
    <2>1. c = f /\ new[c] = Upsert(rows[f], r)
      BY <1>3, <1>10 DEF FamilyRows
    <2>2. r.terminal
      BY DEF TerminalRow
    <2> HIDE DEF r
    <2> QED
      BY <1>2, <1>3, <2>1, <2>2, UpsertTerminal
  <1> HIDE DEF new
  <1>9. Write(new)
    BY DEF new
  <1>11. RowsLast
    BY <1>7, <1>8, <1>10 DEF RowsLast
  <1> QED
    BY <1>5, <1>6, <1>7, <1>8, <1>9, <1>11, WriteHolds DEF RowsGrow

LEMMA BatchHolds ==
  ASSUME DenyInv, LifetimesCover, NEW cs \in SUBSET Bulk, NEW terminal \in BOOLEAN,
         NEW cutoff \in Nat, RevokeCriteriaBatch(cs, terminal, cutoff)
  PROVE  DenyInv' /\ RowsGrow /\ RowsLast
  <1> DEFINE r(c) == IF terminal THEN TerminalRow(now, TTL[c]) ELSE BoundaryRow(now, cutoff, TTL[c])
             new == BatchRows(cs, terminal, cutoff)
  <1>1. now \in Nat /\ rows \in [Criteria -> Row]
    BY DEF DenyInv, TypeOK
  <1>2. \A c \in cs : c \in Criteria /\ TTL[c] \in Nat /\ DimensionOf[c] # "jti"
    BY RevocationCacheConstants DEF Bulk, Terminals
  <1>3. \A c \in cs : r(c) \in Row
    BY <1>1, <1>2, RowTypes
  <1>4. ASSUME NEW c \in Criteria
        PROVE  new[c] \in Row /\ Covers(new[c], rows[c])
    <2>1. CASE c \in cs
      <3>1. new[c] = Upsert(rows[c], r(c))
        BY <2>1 DEF BatchRows
      <3> HIDE DEF r
      <3> QED
        BY <1>1, <1>3, <2>1, <3>1, UpsertNeverWeakens DEF Covers
    <2>2. CASE c \notin cs
      <3>1. new[c] = rows[c] /\ rows[c] \in Row
        BY <2>2, <1>1 DEF BatchRows
      <3> QED
        BY <3>1, CoversReflexive
    <2> QED
      BY <2>1, <2>2
  <1>5. new \in [Criteria -> Row]
    BY <1>4 DEF BatchRows
  <1>6. ASSUME NEW u \in Tokens, NEW c \in Carries[u], Issued(u), new[c] # rows[c]
        PROVE  new[c].expiry >= issued[u] + Validity[u] + Leeway
    <2>1. c \in Criteria /\ Validity[u] \in Nat
      BY RevocationCacheConstants
    <2>2. c \in cs /\ new[c] = Upsert(rows[c], r(c))
      BY <1>6, <2>1 DEF BatchRows
    <2>3. issued[u] \in Nat /\ issued[u] <= now
      BY <1>6 DEF DenyInv, TypeOK, Issued, IssuedInPast
    <2>4. r(c).expiry >= issued[u] + Validity[u] + Leeway
      BY <1>1, <1>2, <2>2, <2>3, WrittenLasts
    <2>5. r(c) \in Row /\ rows[c] \in Row
      BY <1>1, <1>3, <2>1, <2>2
    <2> HIDE DEF r
    <2>6. new[c] \in Row /\ new[c].expiry >= r(c).expiry
      BY <1>4, <2>1, <2>2, <2>5, UpsertNeverWeakens
    <2> HIDE DEF new
    <2>7. new[c].expiry \in Nat /\ r(c).expiry \in Nat
      BY <2>5, <2>6 DEF Row
    <2> QED
      BY <2>1, <2>3, <2>4, <2>6, <2>7, DenyListConstants
  <1>7. Write(new) /\ UNCHANGED <<now, issued>> /\ rows' = new
    BY DEF RevokeCriteriaBatch, Write
  <1>11. \A c \in Criteria : DimensionOf[c] \in Terminals => new[c] = rows[c]
    BY DEF BatchRows, Bulk
  <1> HIDE DEF new
  <1>12. RowsLast
    BY <1>6, <1>7, <1>11 DEF RowsLast
  <1>8. RevokedHeld' /\ RevokedIssued' /\ IssuedInPast' /\ revoked' \subseteq Tokens
    BY <1>4, <1>5, <1>6, <1>7, WriteHolds
  <1>9. writes' \in Nat
    BY <1>7 DEF Write, DenyInv, TypeOK
  <1>10. TypeOK'
    BY <1>5, <1>7, <1>8, <1>9 DEF RevokeCriteriaBatch, TypeOK, DenyInv, cacheVars
  <1> QED
    BY <1>4, <1>7, <1>8, <1>10, <1>12 DEF DenyInv, RowsGrow

LEMMA IssueHolds ==
  ASSUME DenyInv, NEW t \in Tokens, Issue(t)
  PROVE  DenyInv'
  <1>1. TypeOK'
    BY DEF DenyInv, TypeOK, Issue, denyVars, cacheVars
  <1>2. \A u \in Tokens : Issued(u) => issued'[u] = issued[u]
    BY DEF Issue, DenyInv, TypeOK
  <1>3. now \in Nat /\ Unissued \notin Nat
    BY RevocationCacheConstants DEF DenyInv, TypeOK
  <1>4. IssuedInPast'
    BY <1>3 DEF Issue, DenyInv, TypeOK, IssuedInPast, Issued
  <1>5. revoked' = revoked /\ rows' = rows /\ now' = now /\ revoked \subseteq Tokens
    BY DEF Issue, denyVars, DenyInv, TypeOK
  <1>6. \A u \in revoked : Issued(u) /\ Issued(u)' /\ issued'[u] = issued[u]
    BY <1>2, <1>5 DEF DenyInv, RevokedIssued, Issued
  <1>7. RevokedIssued' /\ RevokedHeld'
    BY <1>5, <1>6 DEF DenyInv, RevokedIssued, RevokedHeld, Expired, HeldBy
  <1> QED
    BY <1>1, <1>4, <1>7 DEF DenyInv

LEMMA CleanUpHolds ==
  ASSUME DenyInv, NEW c \in Criteria, CleanUp(c)
  PROVE  DenyInv'
  <1>1. TypeOK'
    BY RowTypes DEF DenyInv, TypeOK, CleanUp, cacheVars
  <1>2. RevokedHeld'
    <2> SUFFICES ASSUME NEW t \in revoked PROVE (Expired(t) \/ HeldBy(rows, t))'
      BY DEF RevokedHeld, CleanUp
    <2>1. t \in Tokens /\ issued[t] \in Nat /\ Issued(t) /\ Validity[t] \in Nat
      BY RevocationCacheConstants DEF DenyInv, TypeOK, RevokedIssued, Issued
    <2>2. Expired(t)' <=> Expired(t)
      BY DEF CleanUp, Expired, Issued
    <2>3. CASE HeldBy(rows, t)
      <3>1. PICK d \in Carries[t] : Holds(rows[d], issued[t], t)
        BY <2>3 DEF HeldBy
      <3>2. d \in Criteria
        BY <2>1, RevocationCacheConstants
      <3>3. CASE d = c
        <4>1. rows[c].expiry \in Nat /\ now \in Nat
          BY DEF DenyInv, TypeOK, Row
        <4>2. Expired(t)
          BY <2>1, <3>1, <3>3, <4>1, DenyListConstants DEF CleanUp, Holds, Expired, PastExpiry
        <4> QED
          BY <4>2, <2>2
      <3>4. CASE d # c
        <4>1. rows'[d] = rows[d] /\ issued' = issued
          BY <3>2, <3>4 DEF CleanUp, DenyInv, TypeOK
        <4>2. Holds(rows[d], issued[t], t)'
          BY <3>1, <4>1 DEF Holds
        <4> QED
          BY <4>2 DEF HeldBy
      <3> QED
        BY <3>3, <3>4
    <2> QED
      BY <2>2, <2>3 DEF DenyInv, RevokedHeld
  <1> QED
    BY <1>1, <1>2 DEF DenyInv, RevokedIssued, IssuedInPast, CleanUp, Issued

LEMMA TickHolds ==
  ASSUME DenyInv, Tick
  PROVE  DenyInv' /\ \A t \in revoked : Expired(t) => Expired(t)'
  <1>1. TypeOK' /\ now \in Nat /\ now' = now + 1
    BY DEF DenyInv, TypeOK, Tick, denyVars, cacheVars
  <1>2. ASSUME NEW t \in revoked
        PROVE  Expired(t) => Expired(t)'
    <2>1. t \in Tokens /\ issued[t] \in Nat /\ Validity[t] \in Nat
      BY RevocationCacheConstants DEF DenyInv, TypeOK, RevokedIssued, Issued
    <2> QED
      BY <1>1, <2>1, DenyListConstants DEF Expired, PastExpiry, Issued, Tick
  <1>3. RevokedHeld'
    BY <1>2 DEF DenyInv, RevokedHeld, HeldBy, Tick, denyVars
  <1>4. IssuedInPast'
    BY <1>1 DEF DenyInv, TypeOK, IssuedInPast, Issued, Tick
  <1> QED
    BY <1>1, <1>2, <1>3, <1>4 DEF DenyInv, RevokedIssued, Tick, Issued, denyVars

LEMMA CutoffsNat == now \in Nat => Cutoffs \subseteq Nat
  BY DenyListConstants DEF Cutoffs

\* The steps that write no row, the clock and the grant aside.
LEMMA CacheStepTypes ==
  ASSUME TypeOK,
         CascadeFails \/ SnapshotStarts \/ SnapshotReads \/ Replace \/ SnapshotFails \/ Restart
  PROVE  TypeOK' /\ UNCHANGED <<now, issued, rows, revoked>>
  <1>1. NoRows \in [Criteria -> Row]
    BY RowTypes DEF NoRows
  <1>2. Reading \in Sync /\ Idle \in Sync
    BY <1>1, DimensionsAre, SMT DEF TypeOK, Reading, Idle, Sync
  <1>3. CASE CascadeFails
    BY <1>3 DEF TypeOK, CascadeFails, cacheVars
  <1>4. CASE SnapshotStarts
    BY <1>2, <1>4 DEF TypeOK, SnapshotStarts, denyVars
  <1>5. CASE SnapshotReads
    <2> DEFINE read == [c \in Criteria |->
                 IF DimensionOf[c] = Dimensions[sync.next] /\ rows[c].expiry > sync.at
                 THEN rows[c] ELSE sync.snapshot[c]]
    <2>1. sync \in Sync /\ rows \in [Criteria -> Row]
      BY DEF TypeOK
    <2>2. read \in [Criteria -> Row]
      BY <2>1 DEF Sync
    <2>3. sync' = [sync EXCEPT !.next = @ + 1, !.snapshot = read]
      BY <1>5, <2>1 DEF SnapshotReads, Sync
    <2> HIDE DEF read
    <2>4. sync.next \in 1..6 /\ sync.next + 1 \in 0..(Len(Dimensions) + 1)
      BY <1>5, DimensionsAre DEF SnapshotReads
    <2>5. sync' \in Sync
      BY <2>1, <2>2, <2>3, <2>4 DEF Sync
    <2> QED
      BY <1>5, <2>5 DEF TypeOK, SnapshotReads, denyVars
  <1>6. CASE Replace
    BY <1>2, <1>6 DEF TypeOK, Replace, denyVars, Sync
  <1>7. CASE SnapshotFails
    <2>1. faults' \in Nat
      BY <1>7 DEF TypeOK, SnapshotFails
    <2> QED
      BY <1>2, <1>7, <2>1, Zenon DEF TypeOK, SnapshotFails, denyVars
  <1>8. CASE Restart
    <2>1. faults' \in Nat
      BY <1>8 DEF TypeOK, Restart
    <2> QED
      BY <1>1, <1>2, <1>8, <2>1, Zenon DEF TypeOK, Restart, denyVars
  <1> QED
    BY <1>3, <1>4, <1>5, <1>6, <1>7, <1>8

LEMMA DenySame ==
  ASSUME DenyInv, TypeOK', UNCHANGED <<now, issued, rows, revoked>>
  PROVE  DenyInv'
  BY DEF DenyInv, IssuedInPast, RevokedIssued, RevokedHeld, Issued, Expired, HeldBy

LEMMA DenyStep ==
  ASSUME LifetimesCover, DenyInv, [Next]_vars
  PROVE  DenyInv'
  <1>1. CASE \E t \in Tokens : Issue(t)
    BY <1>1, IssueHolds
  <1>2. CASE \E t \in Tokens : RevokeToken(t)
    BY <1>2, RevokeTokenHolds
  <1>3. CASE \E f \in Families : RevokeTokenFamily(f)
    <2>1. PICK f \in Families : RevokeTokenFamily(f)
      BY <1>3
    <2>2. /\ rows' \in [Criteria -> Row] /\ writes' \in Nat
          /\ RevokedHeld' /\ RevokedIssued' /\ IssuedInPast' /\ revoked' \subseteq Tokens
      BY <2>1, FamilyWriteHolds DEF RevokeTokenFamily
    <2> QED
      BY <2>1, <2>2 DEF DenyInv, TypeOK, RevokeTokenFamily, cacheVars
  <1>4. CASE Cascade
    <2>1. PICK f \in Families : Write(FamilyRows(f))
      BY <1>4 DEF Cascade
    <2>2. /\ rows' \in [Criteria -> Row] /\ writes' \in Nat
          /\ RevokedHeld' /\ RevokedIssued' /\ IssuedInPast' /\ revoked' \subseteq Tokens
      BY <1>4, <2>1, FamilyWriteHolds DEF Cascade
    <2> QED
      BY <1>4, <2>2 DEF DenyInv, TypeOK, Cascade, cacheVars
  <1>5. CASE \E cs \in SUBSET Bulk, terminal \in BOOLEAN, cutoff \in Cutoffs :
               RevokeCriteriaBatch(cs, terminal, cutoff)
    <2>1. PICK cs \in SUBSET Bulk, terminal \in BOOLEAN, cutoff \in Cutoffs :
            RevokeCriteriaBatch(cs, terminal, cutoff)
      BY <1>5
    <2>2. cutoff \in Nat
      BY CutoffsNat DEF DenyInv, TypeOK
    <2> QED
      BY <2>1, <2>2, BatchHolds
  <1>6. CASE \E c \in Criteria : CleanUp(c)
    BY <1>6, CleanUpHolds
  <1>7. CASE Tick
    BY <1>7, TickHolds
  <1>8. CASE CascadeFails \/ SnapshotStarts \/ SnapshotReads \/ Replace \/ SnapshotFails \/ Restart
    BY <1>8, CacheStepTypes, DenySame DEF DenyInv
  <1>9. CASE UNCHANGED vars
    <2>1. TypeOK' /\ UNCHANGED <<now, issued, rows, revoked>>
      BY <1>9 DEF DenyInv, TypeOK, vars, denyVars, cacheVars
    <2> QED
      BY <2>1, DenySame
  <1> QED
    BY <1>1, <1>2, <1>3, <1>4, <1>5, <1>6, <1>7, <1>8, <1>9 DEF Next

LEMMA HeldIsRejected ==
  ASSUME DenyInv
  PROVE  RevokedStaysRevoked
  <1> SUFFICES ASSUME NEW t \in revoked, ~Expired(t) PROVE RejectedBy(rows, t)
    BY DEF RevokedStaysRevoked
  <1>1. t \in Tokens /\ Issued(t) /\ issued[t] \in Nat /\ now \in Nat
    BY DEF DenyInv, TypeOK, RevokedIssued, Issued
  <1>2. PICK c \in Carries[t] : Holds(rows[c], issued[t], t)
    BY DEF DenyInv, RevokedHeld, HeldBy
  <1>3. rows[c] \in Row
    BY <1>1, RevocationCacheConstants DEF DenyInv, TypeOK
  <1> QED
    BY <1>1, <1>2, <1>3, HoldsUntilExpiry DEF RejectedBy

(***************************************************************************)
(* The authorization server rejects a revoked token until it has expired,  *)
(* for any tokens, criteria, writers, cutoffs and order of writes and      *)
(* clean-ups, if the lifetimes the producers ask for cover the tokens.     *)
(***************************************************************************)
THEOREM RevocationLasts == LifetimesCover => (Spec => []RevokedStaysRevoked)
  <1> SUFFICES ASSUME LifetimesCover PROVE Spec => []RevokedStaysRevoked
    OBVIOUS
  <1>1. Init => DenyInv
    BY DenyInit
  <1>2. DenyInv /\ [Next]_vars => DenyInv'
    BY DenyStep
  <1>3. DenyInv => RevokedStaysRevoked
    BY HeldIsRejected
  <1> QED
    BY <1>1, <1>2, <1>3, PTL DEF Spec

-----------------------------------------------------------------------------
(* The cache *)

LEMMA GrowKeeps ==
  ASSUME DenyInv, DenyInv', RowsGrow, UNCHANGED <<now, issued>>
  PROVE  RowsKeep
  <1> SUFFICES ASSUME NEW t \in revoked
               PROVE  /\ issued'[t] = issued[t]
                      /\ Expired(t) => Expired(t)'
                      /\ \A c \in Carries[t] :
                           Holds(rows[c], issued[t], t) => Holds(rows'[c], issued[t], t)
    BY DEF RowsKeep
  <1>1. t \in Tokens /\ issued[t] \in Nat
    BY DEF DenyInv, TypeOK, RevokedIssued, Issued
  <1>2. \A c \in Carries[t] : c \in Criteria /\ rows[c] \in Row /\ rows'[c] \in Row
    BY <1>1, RevocationCacheConstants DEF DenyInv, TypeOK
  <1>3. \A c \in Carries[t] : Holds(rows[c], issued[t], t) => Holds(rows'[c], issued[t], t)
    BY <1>1, <1>2, CoversHolds DEF RowsGrow
  <1> QED
    BY <1>3 DEF Expired, Issued

LEMMA SameGrows ==
  ASSUME DenyInv, UNCHANGED rows
  PROVE  RowsGrow
  BY CoversReflexive DEF DenyInv, TypeOK, RowsGrow

LEMMA CleanUpKeeps ==
  ASSUME DenyInv, NEW c \in Criteria, CleanUp(c)
  PROVE  RowsKeep
  <1> SUFFICES ASSUME NEW t \in revoked
               PROVE  /\ issued'[t] = issued[t]
                      /\ Expired(t) => Expired(t)'
                      /\ \A d \in Carries[t] :
                           Holds(rows[d], issued[t], t) => Holds(rows'[d], issued[t], t) \/ Expired(t)'
    BY DEF RowsKeep
  <1>1. t \in Tokens /\ issued[t] \in Nat /\ Issued(t) /\ Validity[t] \in Nat
    BY RevocationCacheConstants DEF DenyInv, TypeOK, RevokedIssued, Issued
  <1>2. Expired(t)' <=> Expired(t)
    BY DEF CleanUp, Expired, Issued
  <1>3. ASSUME NEW d \in Carries[t], Holds(rows[d], issued[t], t)
        PROVE  Holds(rows'[d], issued[t], t) \/ Expired(t)'
    <2>1. d \in Criteria
      BY <1>1, RevocationCacheConstants
    <2>2. CASE d = c
      <3>1. rows[c].expiry \in Nat /\ now \in Nat
        BY DEF DenyInv, TypeOK, Row
      <3>2. Expired(t)
        BY <1>1, <1>3, <2>2, <3>1, DenyListConstants DEF CleanUp, Holds, Expired, PastExpiry
      <3> QED
        BY <1>2, <3>2
    <2>3. CASE d # c
      BY <1>3, <2>1, <2>3 DEF CleanUp, DenyInv, TypeOK
    <2> QED
      BY <2>2, <2>3
  <1> QED
    BY <1>2, <1>3 DEF CleanUp

LEMMA IssueKeeps ==
  ASSUME DenyInv, NEW t \in Tokens, Issue(t)
  PROVE  RowsKeep
  <1>1. \A u \in Tokens : Issued(u) => issued'[u] = issued[u]
    BY DEF Issue, DenyInv, TypeOK
  <1>2. \A u \in revoked : Issued(u) /\ issued'[u] = issued[u]
    BY <1>1 DEF DenyInv, TypeOK, RevokedIssued
  <1>3. now' = now /\ rows' = rows
    BY DEF Issue, denyVars
  <1> QED
    BY <1>2, <1>3 DEF RowsKeep, Expired, Issued

LEMMA TickKeeps ==
  ASSUME DenyInv, Tick
  PROVE  RowsKeep
  <1>1. rows' = rows /\ issued' = issued
    BY DEF Tick, denyVars
  <1> QED
    BY <1>1, TickHolds DEF RowsKeep

(***************************************************************************)
(* A step of the deny lists, the grants or the clock keeps what the cache  *)
(* and the read under way are to have.                                     *)
(***************************************************************************)
LEMMA CacheKept ==
  ASSUME DenyInv, CacheInv, RowsKeep, UNCHANGED cacheVars, revoked \subseteq revoked',
         now \in Nat, now' \in Nat, now <= now'
  PROVE  CacheInv'
  <1>1. sync' = sync /\ cache' = cache /\ atStart' = atStart /\ installed' = installed
    BY DEF cacheVars
  <1>2. atStart \subseteq revoked /\ installed \subseteq revoked /\ sync.at \in Nat /\ sync.at <= now
    BY DEF CacheInv, DenyInv, TypeOK, Sync
  <1>3. \A c : Read(c)' <=> Read(c)
    BY <1>1 DEF Read
  <1>4. ASSUME NEW t \in atStart, Pending(t)
        PROVE  Expired(t)' \/ Pending(t)'
    <2>1. PICK c \in Carries[t] :
            IF Read(c) THEN Holds(sync.snapshot[c], issued[t], t) ELSE Holds(rows[c], issued[t], t)
      BY <1>4 DEF Pending
    <2>2. t \in revoked /\ issued'[t] = issued[t]
      BY <1>2 DEF RowsKeep
    <2>3. CASE Read(c)
      <3>1. Holds(sync'.snapshot[c], issued'[t], t)
        BY <1>1, <2>1, <2>2, <2>3
      <3> QED
        BY <1>3, <2>3, <3>1 DEF Pending, Holds
    <2>4. CASE ~Read(c)
      <3>1. Holds(rows'[c], issued'[t], t) \/ Expired(t)'
        BY <2>1, <2>2, <2>4 DEF RowsKeep
      <3> QED
        BY <1>3, <2>4, <3>1 DEF Pending, Holds
    <2> QED
      BY <2>3, <2>4
  <1>5. sync'.next # 0 => \A t \in atStart' : Expired(t)' \/ Pending(t)'
    BY <1>1, <1>2, <1>4 DEF CacheInv, RowsKeep
  <1>6. \A t \in installed' : Expired(t)' \/ HeldBy(cache, t)'
    BY <1>1, <1>2 DEF CacheInv, RowsKeep, HeldBy, Holds
  <1> QED
    BY <1>1, <1>2, <1>5, <1>6 DEF CacheInv

LEMMA SnapshotReadsHolds ==
  ASSUME DenyInv, CacheInv, SnapshotReads
  PROVE  CacheInv'
  <1> DEFINE read == [c \in Criteria |->
               IF DimensionOf[c] = Dimensions[sync.next] /\ rows[c].expiry > sync.at
               THEN rows[c] ELSE sync.snapshot[c]]
  <1>1. sync \in Sync /\ rows \in [Criteria -> Row] /\ now \in Nat /\ sync.at \in Nat
    BY DEF DenyInv, TypeOK, Sync
  <1>2. sync' = [sync EXCEPT !.next = @ + 1, !.snapshot = read]
    BY <1>1 DEF SnapshotReads, Sync
  <1>3. sync.next \in 1..6
    BY DimensionsAre DEF SnapshotReads
  <1>4. sync'.next = sync.next + 1 /\ sync'.snapshot = read /\ sync'.at = sync.at
    BY <1>1, <1>2 DEF Sync
  <1>5. UNCHANGED <<now, issued, rows, revoked, cache, atStart, installed>>
    BY DEF SnapshotReads, denyVars
  <1>6. \A t : Expired(t)' <=> Expired(t)
    BY <1>5 DEF Expired, Issued
  <1>7. \A c : Read(c)' <=> (Read(c) \/ DimensionOf[c] = Dimensions[sync.next])
    <2> TAKE c
    <2>1. \A i \in 1..6 : i < sync.next + 1 <=> i < sync.next \/ i = sync.next
      BY <1>3
    <2> QED
      BY <1>3, <1>4, <2>1 DEF Read
  <1>8. ASSUME NEW t \in atStart, Pending(t), ~Expired(t)
        PROVE  Pending(t)'
    <2>1. PICK c \in Carries[t] :
            IF Read(c) THEN Holds(sync.snapshot[c], issued[t], t) ELSE Holds(rows[c], issued[t], t)
      BY <1>8 DEF Pending
    <2>2. t \in Tokens /\ Issued(t) /\ issued[t] \in Nat /\ c \in Criteria /\ Validity[t] \in Nat
      BY RevocationCacheConstants DEF CacheInv, DenyInv, TypeOK, RevokedIssued, Issued
    <2>3. CASE Read(c)
      <3>1. DimensionOf[c] # Dimensions[sync.next]
        <4>1. PICK i \in 1..6 : i < sync.next /\ Dimensions[i] = DimensionOf[c]
          BY <2>3 DEF Read
        <4>2. Dimensions[i] # Dimensions[sync.next]
          BY <4>1, <1>3, DimensionsAre
        <4> QED
          BY <4>1, <4>2
      <3>2. read[c] = sync.snapshot[c]
        BY <2>2, <3>1
      <3>3. Holds(sync'.snapshot[c], issued'[t], t)
        BY <1>4, <1>5, <2>1, <2>3, <3>2
      <3>4. Read(c)'
        BY <1>7, <2>3
      <3> QED
        BY <3>3, <3>4 DEF Pending, Holds
    <2>4. CASE ~Read(c) /\ DimensionOf[c] = Dimensions[sync.next]
      <3>1. rows[c].expiry > sync.at
        <4>1. rows[c].expiry \in Nat
          BY <1>1, <2>2 DEF Row
        <4>2. Holds(rows[c], issued[t], t)
          BY <2>1, <2>4
        <4>3. sync.at <= now
          BY DEF CacheInv
        <4>4. ~PastExpiry(issued[t] + Validity[t], now)
          BY <1>8, <2>2 DEF Expired
        <4> QED
          BY <1>1, <2>2, <4>1, <4>2, <4>3, <4>4, DenyListConstants DEF Holds, PastExpiry
      <3>2. read[c] = rows[c]
        BY <2>2, <2>4, <3>1
      <3>3. Holds(sync'.snapshot[c], issued'[t], t)
        BY <1>4, <1>5, <2>1, <2>4, <3>2
      <3>4. Read(c)'
        BY <1>7, <2>4
      <3> QED
        BY <3>3, <3>4 DEF Pending, Holds
    <2>5. CASE ~Read(c) /\ DimensionOf[c] # Dimensions[sync.next]
      <3>1. ~Read(c)'
        BY <1>7, <2>5
      <3>2. Holds(rows'[c], issued'[t], t)
        BY <1>5, <2>1, <2>5
      <3> QED
        BY <3>1, <3>2 DEF Pending, Holds
    <2> QED
      BY <2>3, <2>4, <2>5
  <1> HIDE DEF read
  <1>9. \A t \in installed : HeldBy(cache, t)' <=> HeldBy(cache, t)
    BY <1>5 DEF HeldBy
  <1>10. sync.next # 0
    BY <1>3
  <1>11. \A t \in atStart : Expired(t)' \/ Pending(t)'
    BY <1>6, <1>8, <1>10 DEF CacheInv
  <1> QED
    BY <1>4, <1>5, <1>6, <1>9, <1>11 DEF CacheInv

LEMMA SnapshotStartsHolds ==
  ASSUME DenyInv, CacheInv, UNCHANGED <<now, issued, rows, revoked>>,
         sync' = Reading, atStart' = revoked,
         (cache' = cache /\ installed' = installed) \/ installed' = {}
  PROVE  CacheInv'
  <1>1. sync'.next = 1 /\ sync'.at = now /\ now \in Nat
    BY DEF Reading, DenyInv, TypeOK
  <1>2. \A c : ~Read(c)'
    BY <1>1 DEF Read
  <1>3. \A t : Expired(t)' <=> Expired(t)
    BY DEF Expired, Issued
  <1>4. ASSUME NEW t \in revoked, HeldBy(rows, t)
        PROVE  Pending(t)'
    BY <1>2, <1>4 DEF HeldBy, Pending, Holds
  <1>5. \A t \in atStart' : Expired(t)' \/ Pending(t)'
    BY <1>3, <1>4 DEF DenyInv, RevokedHeld
  <1>6. \A t \in installed' : Expired(t)' \/ HeldBy(cache, t)'
    BY <1>3 DEF CacheInv, HeldBy
  <1>7. installed' \subseteq revoked
    BY DEF CacheInv
  <1> QED
    BY <1>1, <1>5, <1>6, <1>7 DEF CacheInv

LEMMA ReplaceHolds ==
  ASSUME DenyInv, CacheInv, Replace
  PROVE  CacheInv'
  <1>1. /\ UNCHANGED <<now, issued, rows, revoked, atStart>>
        /\ installed' = atStart /\ cache' = sync.snapshot /\ sync' = Idle
        /\ sync.next = 7 /\ now \in Nat
    BY DimensionsAre DEF Replace, denyVars, DenyInv, TypeOK
  <1>2. sync'.next = 0 /\ sync'.at = 0
    BY <1>1 DEF Idle
  <1>3. \A t : Expired(t)' <=> Expired(t)
    BY <1>1 DEF Expired, Issued
  <1>4. ASSUME NEW t \in atStart, Pending(t)
        PROVE  HeldBy(cache, t)'
    <2>1. PICK c \in Carries[t] :
            IF Read(c) THEN Holds(sync.snapshot[c], issued[t], t) ELSE Holds(rows[c], issued[t], t)
      BY <1>4 DEF Pending
    <2>2. t \in Tokens /\ c \in Criteria
      BY RevocationCacheConstants DEF CacheInv, DenyInv, TypeOK
    <2>3. PICK i \in 1..6 : DimensionOf[c] = Dimensions[i]
      BY <2>2, DimensionsAre
    <2>4. i < sync.next
      BY <1>1
    <2>5. Read(c)
      BY <2>3, <2>4 DEF Read
    <2>6. Holds(cache'[c], issued'[t], t)
      BY <1>1, <2>1, <2>5
    <2> QED
      BY <2>6 DEF HeldBy, Holds
  <1> QED
    BY <1>1, <1>2, <1>3, <1>4 DEF CacheInv

LEMMA CacheInit == Init => CacheInv
  BY DEF Init, CacheInv, Reading

LEMMA CacheStep ==
  ASSUME LifetimesCover, DenyInv, DenyInv', CacheInv, [Next]_vars
  PROVE  CacheInv'
  <1>0. now \in Nat /\ now' \in Nat
    BY DEF DenyInv, TypeOK
  <1>1. CASE \E t \in Tokens : Issue(t)
    <2>1. RowsKeep
      BY <1>1, IssueKeeps
    <2> QED
      BY <1>0, <1>1, <2>1, CacheKept DEF Issue, denyVars
  <1>2. CASE \E t \in Tokens : RevokeToken(t)
    <2>1. UNCHANGED <<now, issued, cacheVars>> /\ revoked \subseteq revoked'
      BY <1>2 DEF RevokeToken, Write
    <2>2. RowsKeep
      BY <1>2, <2>1, RevokeTokenHolds, GrowKeeps
    <2> QED
      BY <1>0, <2>1, <2>2, CacheKept
  <1>3. CASE (\E f \in Families : RevokeTokenFamily(f)) \/ Cascade
    <2>1. PICK f \in Families : Write(FamilyRows(f)) /\ UNCHANGED <<now, issued, cacheVars>>
      BY <1>3 DEF RevokeTokenFamily, Cascade
    <2>2. RowsKeep /\ revoked \subseteq revoked'
      BY <2>1, FamilyWriteHolds, GrowKeeps DEF Write
    <2> QED
      BY <1>0, <2>1, <2>2, CacheKept
  <1>4. CASE \E cs \in SUBSET Bulk, terminal \in BOOLEAN, cutoff \in Cutoffs :
               RevokeCriteriaBatch(cs, terminal, cutoff)
    <2>1. PICK cs \in SUBSET Bulk, terminal \in BOOLEAN, cutoff \in Cutoffs :
            RevokeCriteriaBatch(cs, terminal, cutoff)
      BY <1>4
    <2>2. cutoff \in Nat
      BY <1>0, CutoffsNat
    <2>3. UNCHANGED <<now, issued, cacheVars>> /\ revoked \subseteq revoked'
      BY <2>1 DEF RevokeCriteriaBatch, Write
    <2>4. RowsKeep
      BY <2>1, <2>2, <2>3, BatchHolds, GrowKeeps
    <2> QED
      BY <1>0, <2>3, <2>4, CacheKept
  <1>5. CASE \E c \in Criteria : CleanUp(c)
    <2>1. PICK c \in Criteria : CleanUp(c)
      BY <1>5
    <2>2. RowsKeep
      BY <2>1, CleanUpKeeps
    <2>3. UNCHANGED <<now, revoked, cacheVars>>
      BY <2>1 DEF CleanUp
    <2> QED
      BY <1>0, <2>2, <2>3, CacheKept
  <1>6. CASE Tick
    BY <1>0, <1>6, TickKeeps, CacheKept DEF Tick, denyVars
  <1>7. CASE CascadeFails \/ UNCHANGED vars
    <2>1. UNCHANGED <<now, issued, rows, revoked, cacheVars>>
      BY <1>7 DEF CascadeFails, vars, denyVars
    <2> QED
      BY <1>0, <2>1, SameGrows, GrowKeeps, CacheKept
  <1>8. CASE SnapshotStarts
    <2>1. UNCHANGED <<now, issued, rows, revoked>>
      BY <1>8 DEF SnapshotStarts, denyVars
    <2> QED
      BY <1>8, <2>1, SnapshotStartsHolds DEF SnapshotStarts
  <1>9. CASE Restart
    <2>1. UNCHANGED <<now, issued, rows, revoked>>
      BY <1>9 DEF Restart, denyVars
    <2> QED
      BY <1>9, <2>1, SnapshotStartsHolds DEF Restart
  <1>10. CASE SnapshotReads
    BY <1>10, SnapshotReadsHolds
  <1>11. CASE Replace
    BY <1>11, ReplaceHolds
  <1>12. CASE SnapshotFails
    BY <1>0, <1>12 DEF SnapshotFails, denyVars, CacheInv, Idle, Expired, Issued, HeldBy
  <1> QED
    BY <1>1, <1>2, <1>3, <1>4, <1>5, <1>6, <1>7, <1>8, <1>9, <1>10, <1>11, <1>12 DEF Next

LEMMA CacheRejects ==
  ASSUME DenyInv, CacheInv
  PROVE  SnapshotIsComplete
  <1> SUFFICES ASSUME NEW t \in installed, ~Expired(t) PROVE ResourceServerRejects(t)
    BY DEF SnapshotIsComplete
  <1>1. t \in Tokens /\ Issued(t) /\ issued[t] \in Nat /\ now \in Nat
    BY DEF CacheInv, DenyInv, TypeOK, RevokedIssued, Issued
  <1>2. PICK c \in Carries[t] : Holds(cache[c], issued[t], t)
    BY DEF CacheInv, HeldBy
  <1>3. cache[c] \in Row
    BY <1>1, RevocationCacheConstants DEF DenyInv, TypeOK
  <1>4. Matches(cache[c], issued[t], now)
    BY <1>1, <1>2, <1>3, HoldsUntilExpiry
  <1> QED
    BY <1>1, <1>4 DEF ResourceServerRejects, Matches

(***************************************************************************)
(* A resource server rejects every token that was revoked when the read of *)
(* its snapshot began, whatever is written, removed and issued between the *)
(* queries of the read, and whatever read fails after it.                  *)
(***************************************************************************)
THEOREM SnapshotsAreComplete == LifetimesCover => (Spec => []SnapshotIsComplete)
  <1> SUFFICES ASSUME LifetimesCover PROVE Spec => []SnapshotIsComplete
    OBVIOUS
  <1>1. Init => DenyInv /\ CacheInv
    BY DenyInit, CacheInit
  <1>2. DenyInv /\ CacheInv /\ [Next]_vars => (DenyInv /\ CacheInv)'
    BY DenyStep, CacheStep
  <1>3. DenyInv /\ CacheInv => SnapshotIsComplete
    BY CacheRejects
  <1> QED
    BY <1>1, <1>2, <1>3, PTL DEF Spec

-----------------------------------------------------------------------------
(* What the cache has rejected it goes on rejecting *)

\* Rows by jti and by family have no cutoff.
TerminalRows(list) ==
  \A c \in Criteria : DimensionOf[c] \in Terminals => list[c].terminal \/ list[c].expiry = 0

\* A row that rejects a revoked token lasts as long as the token.
Lasting(list) ==
  \A t \in revoked : \A c \in Carries[t] :
    Matches(list[c], issued[t], now) => Holds(list[c], issued[t], t)

\* What the list has and has not lapsed, the deny lists still have.
Backed(list) ==
  \A c \in Criteria : list[c].expiry > now => Covers(rows[c], list[c])

CopyInv(list) == TerminalRows(list) /\ Lasting(list) /\ Backed(list)

\* What the read under way has read says no less than the cache it will replace.
ReadCovers ==
  sync.next # 0 =>
    \A c \in Criteria : Read(c) /\ cache[c].expiry > now => Covers(sync.snapshot[c], cache[c])

(***************************************************************************)
(* The invariant of the copies of the deny lists.  A row written before a  *)
(* token was issued may reject the token and lapse before it.  `Lasting`   *)
(* says that no such row, or copy of one, rejects a revoked token: a token *)
(* counts as revoked only from a write that made it rejected, and `Backed` *)
(* says that no copy rejected it then.                                     *)
(***************************************************************************)
CopiesInv ==
  /\ TerminalRows(rows) /\ Lasting(rows)
  /\ CopyInv(sync.snapshot) /\ CopyInv(cache)
  /\ ReadCovers

LEMMA CoversTransitive ==
  ASSUME NEW p \in Row, NEW q \in Row, NEW r \in Row, Covers(r, q), Covers(q, p)
  PROVE  Covers(r, p)
  <1>1. p.expiry \in Nat /\ q.expiry \in Nat /\ r.expiry \in Nat /\ r.expiry >= p.expiry
    BY SMT DEF Covers, Row
  <1>2. ASSUME NEW iat \in Nat, iat <= p.revokedAt
        PROVE  r.terminal \/ iat <= r.revokedAt
    <2>1. q.terminal \/ iat <= q.revokedAt
      BY <1>2 DEF Covers
    <2> QED
      BY <2>1 DEF Covers
  <1> QED
    BY <1>1, <1>2 DEF Covers

LEMMA CoversMatches ==
  ASSUME NEW q \in Row, NEW r \in Row, Covers(r, q), NEW iat \in Nat, NEW n \in Nat,
         Matches(q, iat, n)
  PROVE  Matches(r, iat, n)
  <1>1. r.expiry > n
    BY SMT DEF Covers, Matches, Row
  <1>2. r.terminal \/ iat <= r.revokedAt
    BY DEF Covers, Matches
  <1> QED
    BY <1>1, <1>2 DEF Matches

LEMMA NoRowLapsed == NoRow.expiry = 0 /\ \A c \in Criteria : NoRows[c].expiry = 0
  BY DEF NoRow, NoRows

LEMMA EmptyCopy == TypeOK => CopyInv(NoRows)
  <1> SUFFICES ASSUME TypeOK PROVE CopyInv(NoRows)
    OBVIOUS
  <1>1. \A c \in Criteria : ~(NoRows[c].expiry > now)
    BY NoRowLapsed, SMT DEF TypeOK
  <1>2. \A t \in revoked : \A c \in Carries[t] : c \in Criteria
    BY RevocationCacheConstants DEF TypeOK
  <1> QED
    BY <1>1, <1>2, NoRowLapsed DEF CopyInv, TerminalRows, Lasting, Backed, Matches

\* What a revoked token is, and what a list has for it.
LEMMA OfRevoked ==
  ASSUME DenyInv, NEW t \in revoked
  PROVE  /\ t \in Tokens /\ Issued(t) /\ issued[t] \in Nat /\ now \in Nat
         /\ Carries[t] \subseteq Criteria
         /\ \A c \in Carries[t] : rows[c] \in Row
  BY RevocationCacheConstants DEF DenyInv, TypeOK, RevokedIssued, Issued

LEMMA SameCopies ==
  ASSUME NEW list \in [Criteria -> Row], CopyInv(list), UNCHANGED <<now, issued, rows, revoked>>
  PROVE  CopyInv(list)'
  BY DEF CopyInv, TerminalRows, Lasting, Backed, Matches, Holds, Covers

LEMMA SameRows ==
  ASSUME TerminalRows(rows), Lasting(rows), UNCHANGED <<now, issued, rows, revoked>>
  PROVE  TerminalRows(rows)' /\ Lasting(rows)'
  BY DEF TerminalRows, Lasting, Matches, Holds

-----------------------------------------------------------------------------
(* A write *)

LEMMA WriteKeepsCopy ==
  ASSUME DenyInv, DenyInv', RowsGrow, UNCHANGED <<now, issued>>,
         \A t \in revoked' : t \in revoked \/ ~RejectedBy(rows, t),
         NEW list \in [Criteria -> Row], CopyInv(list)
  PROVE  CopyInv(list)'
  <1>1. TerminalRows(list)'
    BY DEF CopyInv, TerminalRows
  <1>2. ASSUME NEW t \in revoked', NEW c \in Carries[t], Matches(list[c], issued[t], now)
        PROVE  Holds(list[c], issued[t], t)
    <2>1. t \in Tokens /\ Issued(t) /\ issued[t] \in Nat /\ now \in Nat
      BY DEF DenyInv, TypeOK, RevokedIssued, Issued
    <2>2. c \in Criteria /\ rows[c] \in Row /\ list[c] \in Row
      BY <2>1, RevocationCacheConstants DEF DenyInv, TypeOK
    <2>3. CASE t \in revoked
      BY <1>2, <2>3 DEF CopyInv, Lasting
    <2>4. CASE ~RejectedBy(rows, t)
      <3>1. Covers(rows[c], list[c])
        BY <1>2, <2>2 DEF CopyInv, Backed, Matches
      <3>2. Matches(rows[c], issued[t], now)
        BY <1>2, <2>1, <2>2, <3>1, CoversMatches
      <3> QED
        BY <2>1, <2>4, <3>2 DEF RejectedBy
    <2> QED
      BY <2>3, <2>4
  <1>3. Lasting(list)'
    BY <1>2 DEF Lasting, Matches, Holds
  <1>4. ASSUME NEW c \in Criteria, list[c].expiry > now
        PROVE  Covers(rows'[c], list[c])
    <2>1. Covers(rows[c], list[c]) /\ Covers(rows'[c], rows[c])
      BY <1>4 DEF CopyInv, Backed, RowsGrow
    <2>2. rows[c] \in Row /\ rows'[c] \in Row /\ list[c] \in Row
      BY DEF DenyInv, TypeOK
    <2> QED
      BY <2>1, <2>2, CoversTransitive
  <1>5. Backed(list)'
    BY <1>4 DEF Backed, Covers
  <1> QED
    BY <1>1, <1>3, <1>5 DEF CopyInv

LEMMA WriteKeepsRows ==
  ASSUME DenyInv, DenyInv', RowsLast, UNCHANGED <<now, issued>>,
         \A t \in revoked' : t \in revoked \/ ~RejectedBy(rows, t),
         TerminalRows(rows), Lasting(rows)
  PROVE  TerminalRows(rows)' /\ Lasting(rows)'
  <1>1. TerminalRows(rows)'
    BY DEF TerminalRows, RowsLast
  <1>2. ASSUME NEW t \in revoked', NEW c \in Carries[t], Matches(rows'[c], issued[t], now)
        PROVE  Holds(rows'[c], issued[t], t)
    <2>1. t \in Tokens /\ Issued(t)
      BY DEF DenyInv, TypeOK, RevokedIssued, Issued
    <2>2. CASE rows'[c] # rows[c]
      <3>1. rows'[c].expiry >= issued[t] + Validity[t] + Leeway
        BY <2>1, <2>2 DEF RowsLast
      <3> QED
        BY <1>2, <3>1 DEF Holds, Matches
    <2>3. CASE rows'[c] = rows[c] /\ t \in revoked
      BY <1>2, <2>3 DEF Lasting
    <2>4. CASE rows'[c] = rows[c] /\ ~RejectedBy(rows, t)
      BY <1>2, <2>1, <2>4 DEF RejectedBy
    <2> QED
      BY <2>2, <2>3, <2>4
  <1>3. Lasting(rows)'
    BY <1>2 DEF Lasting, Matches, Holds
  <1> QED
    BY <1>1, <1>3

LEMMA WriteKeepsCopies ==
  ASSUME DenyInv, DenyInv', CopiesInv, RowsGrow, RowsLast, NEW new, Write(new),
         UNCHANGED <<now, issued, cacheVars>>
  PROVE  CopiesInv'
  <1>1. \A t \in revoked' : t \in revoked \/ ~RejectedBy(rows, t)
    BY DEF Write
  <1>2. TerminalRows(rows)' /\ Lasting(rows)'
    BY <1>1, WriteKeepsRows DEF CopiesInv
  <1>3. PICK k : k = cache
    OBVIOUS
  <1>4. PICK s : s = sync.snapshot
    OBVIOUS
  <1>5. k \in [Criteria -> Row] /\ s \in [Criteria -> Row] /\ cache' = k /\ sync'.snapshot = s
    BY <1>3, <1>4 DEF DenyInv, TypeOK, Sync, cacheVars
  <1>6. CopyInv(k)' /\ CopyInv(s)'
    BY <1>1, <1>3, <1>4, <1>5, WriteKeepsCopy DEF CopiesInv
  <1>7. CopyInv(cache)' /\ CopyInv(sync.snapshot)'
    BY <1>5, <1>6 DEF CopyInv, TerminalRows, Lasting, Backed
  <1>8. ReadCovers'
    BY DEF CopiesInv, ReadCovers, Read, cacheVars, Covers
  <1> QED
    BY <1>2, <1>7, <1>8 DEF CopiesInv

-----------------------------------------------------------------------------
(* The grants, the clean-up and the clock *)

LEMMA IssueKeepsCopies ==
  ASSUME DenyInv, CopiesInv, NEW t \in Tokens, Issue(t)
  PROVE  CopiesInv'
  <1>1. UNCHANGED <<now, rows, revoked, sync, cache>>
    BY DEF Issue, denyVars, cacheVars
  <1>2. \A u \in revoked : issued'[u] = issued[u]
    BY DEF Issue, DenyInv, TypeOK, RevokedIssued
  <1>3. TerminalRows(rows)' /\ Lasting(rows)'
    BY <1>1, <1>2 DEF CopiesInv, TerminalRows, Lasting
  <1>4. CopyInv(cache)'
    BY <1>1, <1>2 DEF CopiesInv, CopyInv, TerminalRows, Lasting, Backed
  <1>5. CopyInv(sync.snapshot)'
    BY <1>1, <1>2 DEF CopiesInv, CopyInv, TerminalRows, Lasting, Backed
  <1>6. ReadCovers'
    BY <1>1 DEF CopiesInv, ReadCovers, Read
  <1> QED
    BY <1>3, <1>4, <1>5, <1>6 DEF CopiesInv

LEMMA CleanUpKeepsCopy ==
  ASSUME DenyInv, NEW d \in Criteria, CleanUp(d), NEW list \in [Criteria -> Row], CopyInv(list)
  PROVE  CopyInv(list)'
  <1>1. UNCHANGED <<now, issued, revoked>>
    BY DEF CleanUp
  <1>2. TerminalRows(list)' /\ Lasting(list)'
    BY <1>1 DEF CopyInv, TerminalRows, Lasting
  <1>3. ASSUME NEW c \in Criteria, list[c].expiry > now
        PROVE  Covers(rows'[c], list[c])
    <2>1. Covers(rows[c], list[c])
      BY <1>3 DEF CopyInv, Backed
    <2>2. rows[c].expiry \in Nat /\ list[c].expiry \in Nat /\ now \in Nat
      BY DEF DenyInv, TypeOK, Row
    <2>3. rows[c].expiry >= list[c].expiry
      BY <2>1 DEF Covers
    <2>4. c # d
      BY <1>3, <2>2, <2>3 DEF CleanUp
    <2>5. rows'[c] = rows[c]
      BY <2>4 DEF CleanUp, DenyInv, TypeOK
    <2> QED
      BY <2>1, <2>5
  <1>4. Backed(list)'
    BY <1>1, <1>3 DEF Backed, Covers
  <1> QED
    BY <1>2, <1>4 DEF CopyInv

LEMMA CleanUpKeepsCopies ==
  ASSUME DenyInv, CopiesInv, NEW d \in Criteria, CleanUp(d)
  PROVE  CopiesInv'
  <1>1. UNCHANGED <<now, issued, revoked, sync, cache>> /\ now \in Nat
    BY DEF CleanUp, cacheVars, DenyInv, TypeOK
  <1>2. ASSUME NEW c \in Criteria PROVE rows'[c] = rows[c] \/ rows'[c].expiry = 0
    BY NoRowLapsed DEF CleanUp, DenyInv, TypeOK
  <1>3. TerminalRows(rows)'
    BY <1>2 DEF CopiesInv, TerminalRows
  <1>4. ASSUME NEW t \in revoked, NEW c \in Carries[t], Matches(rows'[c], issued[t], now)
        PROVE  Holds(rows'[c], issued[t], t)
    <2>1. c \in Criteria
      BY OfRevoked
    <2>2. rows'[c].expiry # 0
      BY <1>1, <1>4 DEF Matches
    <2>3. rows'[c] = rows[c]
      BY <1>2, <2>1, <2>2
    <2> QED
      BY <1>4, <2>3 DEF CopiesInv, Lasting
  <1>5. Lasting(rows)'
    BY <1>1, <1>4 DEF Lasting, Matches, Holds
  <1>6. PICK k : k = cache
    OBVIOUS
  <1>7. PICK s : s = sync.snapshot
    OBVIOUS
  <1>8. k \in [Criteria -> Row] /\ s \in [Criteria -> Row] /\ cache' = k /\ sync'.snapshot = s
    BY <1>1, <1>6, <1>7 DEF DenyInv, TypeOK, Sync
  <1>9. CopyInv(k)' /\ CopyInv(s)'
    BY <1>6, <1>7, <1>8, CleanUpKeepsCopy DEF CopiesInv
  <1>10. CopyInv(cache)' /\ CopyInv(sync.snapshot)'
    BY <1>8, <1>9 DEF CopyInv, TerminalRows, Lasting, Backed
  <1>11. ReadCovers'
    BY <1>1 DEF CopiesInv, ReadCovers, Read
  <1> QED
    BY <1>3, <1>5, <1>10, <1>11 DEF CopiesInv

LEMMA TickKeepsCopies ==
  ASSUME DenyInv, CopiesInv, Tick
  PROVE  CopiesInv'
  <1>1. UNCHANGED <<issued, rows, revoked, sync, cache>> /\ now \in Nat /\ now' = now + 1
    BY DEF Tick, denyVars, cacheVars, DenyInv, TypeOK
  <1>2. rows \in [Criteria -> Row] /\ cache \in [Criteria -> Row] /\ sync.snapshot \in [Criteria -> Row]
    BY DEF DenyInv, TypeOK, Sync
  <1>3. ASSUME NEW r \in Row PROVE r.expiry > now' => r.expiry > now
    BY <1>1, SMT DEF Row
  <1>4. \A t \in revoked : Carries[t] \subseteq Criteria
    BY OfRevoked
  <1>5. TerminalRows(rows)' /\ Lasting(rows)'
    BY <1>1, <1>2, <1>3, <1>4 DEF CopiesInv, TerminalRows, Lasting, Matches
  <1>6. CopyInv(cache)'
    BY <1>1, <1>2, <1>3, <1>4 DEF CopiesInv, CopyInv, TerminalRows, Lasting, Backed, Matches
  <1>7. CopyInv(sync.snapshot)'
    BY <1>1, <1>2, <1>3, <1>4 DEF CopiesInv, CopyInv, TerminalRows, Lasting, Backed, Matches
  <1>8. ReadCovers'
    BY <1>1, <1>2, <1>3 DEF CopiesInv, ReadCovers, Read
  <1> QED
    BY <1>5, <1>6, <1>7, <1>8 DEF CopiesInv

-----------------------------------------------------------------------------
(* The read of a snapshot *)

\* A read begins, fails or is put in place, or the process starts again.
LEMMA CopiesReplaced ==
  ASSUME DenyInv, DenyInv', CopiesInv, UNCHANGED <<now, issued, rows, revoked>>,
         sync' = Idle \/ sync'.next = 1, sync'.snapshot = NoRows,
         cache' = cache \/ cache' = NoRows \/ cache' = sync.snapshot
  PROVE  CopiesInv'
  <1>1. TerminalRows(rows)' /\ Lasting(rows)'
    BY SameRows DEF CopiesInv
  <1>2. PICK k : k = cache'
    OBVIOUS
  <1>3. k \in [Criteria -> Row] /\ CopyInv(k)
    BY <1>2, EmptyCopy DEF CopiesInv, DenyInv, TypeOK
  <1>4. CopyInv(k)'
    BY <1>3, SameCopies
  <1>5. CopyInv(cache)'
    BY <1>2, <1>4 DEF CopyInv, TerminalRows, Lasting, Backed
  <1>6. CopyInv(NoRows)'
    <2>1. NoRows \in [Criteria -> Row]
      BY RowTypes DEF NoRows
    <2>2. CopyInv(NoRows)
      BY EmptyCopy DEF DenyInv
    <2> QED
      BY <2>1, <2>2, SameCopies
  <1>7. CopyInv(sync.snapshot)'
    BY <1>6 DEF CopyInv, TerminalRows, Lasting, Backed
  <1>8. sync'.next = 0 \/ sync'.next = 1
    BY DEF Idle
  <1>9. \A c : sync'.next = 1 => ~Read(c)'
    BY DEF Read
  <1>10. ReadCovers'
    BY <1>8, <1>9 DEF ReadCovers
  <1> QED
    BY <1>1, <1>5, <1>7, <1>10 DEF CopiesInv

LEMMA ReadKeepsCopies ==
  ASSUME DenyInv, DenyInv', CacheInv, CopiesInv, SnapshotReads
  PROVE  CopiesInv'
  <1>1. UNCHANGED <<now, issued, rows, revoked, cache>> /\ sync.next \in 1..6
    BY DimensionsAre DEF SnapshotReads, denyVars
  <1>2. PICK read : read = sync'.snapshot
    OBVIOUS
  <1>3. /\ sync'.next = sync.next + 1
        /\ read = [c \in Criteria |->
             IF DimensionOf[c] = Dimensions[sync.next] /\ rows[c].expiry > sync.at
             THEN rows[c] ELSE sync.snapshot[c]]
    BY <1>2 DEF SnapshotReads, DenyInv, TypeOK, Sync
  <1>4. /\ rows \in [Criteria -> Row] /\ sync.snapshot \in [Criteria -> Row]
        /\ cache \in [Criteria -> Row] /\ now \in Nat /\ sync.at \in Nat /\ sync.at <= now
    BY DEF DenyInv, TypeOK, Sync, CacheInv
  <1>5. read \in [Criteria -> Row]
    BY <1>3, <1>4
  <1>6. \A c \in Criteria : read[c] = rows[c] \/ read[c] = sync.snapshot[c]
    BY <1>3
  <1>7. CopyInv(read)
    <2>1. TerminalRows(read)
      BY <1>6 DEF CopiesInv, CopyInv, TerminalRows
    <2>2. \A t \in revoked : Carries[t] \subseteq Criteria
      BY OfRevoked
    <2>3. Lasting(read)
      BY <1>6, <2>2 DEF CopiesInv, CopyInv, Lasting
    <2>4. \A c \in Criteria : Covers(rows[c], rows[c])
      BY <1>4, CoversReflexive
    <2>5. Backed(read)
      BY <1>6, <2>4 DEF CopiesInv, CopyInv, Backed
    <2> QED
      BY <2>1, <2>3, <2>5 DEF CopyInv
  <1>8. CopyInv(read)'
    BY <1>1, <1>5, <1>7, SameCopies
  <1>9. CopyInv(sync.snapshot)'
    BY <1>2, <1>8 DEF CopyInv, TerminalRows, Lasting, Backed
  <1>10. PICK k : k = cache
    OBVIOUS
  <1>11. CopyInv(k)'
    BY <1>1, <1>4, <1>10, SameCopies DEF CopiesInv
  <1>12. CopyInv(cache)'
    BY <1>1, <1>10, <1>11 DEF CopyInv, TerminalRows, Lasting, Backed
  <1>13. TerminalRows(rows)' /\ Lasting(rows)'
    BY <1>1, SameRows DEF CopiesInv
  <1>14. \A c : Read(c)' <=> (Read(c) \/ DimensionOf[c] = Dimensions[sync.next])
    <2> TAKE c
    <2>1. \A i \in 1..6 : i < sync.next + 1 <=> i < sync.next \/ i = sync.next
      BY <1>1
    <2> QED
      BY <1>1, <1>3, <2>1 DEF Read
  <1>15. ASSUME NEW c \in Criteria, Read(c)', cache[c].expiry > now
         PROVE  Covers(read[c], cache[c])
    <2>1. CASE DimensionOf[c] = Dimensions[sync.next]
      <3>1. Covers(rows[c], cache[c])
        BY <1>15 DEF CopiesInv, CopyInv, Backed
      <3>2. rows[c].expiry \in Nat /\ cache[c].expiry \in Nat /\ rows[c].expiry >= cache[c].expiry
        BY <1>4, <3>1 DEF Covers, Row
      <3>3. rows[c].expiry > sync.at
        BY <1>4, <1>15, <3>2
      <3> QED
        BY <1>3, <2>1, <3>1, <3>3
    <2>2. CASE DimensionOf[c] # Dimensions[sync.next]
      <3>1. read[c] = sync.snapshot[c] /\ Read(c)
        BY <1>3, <1>14, <1>15, <2>2
      <3>2. sync.next # 0
        BY <1>1
      <3> QED
        BY <1>15, <3>1, <3>2 DEF CopiesInv, ReadCovers
    <2> QED
      BY <2>1, <2>2
  <1>16. ReadCovers'
    BY <1>1, <1>2, <1>15 DEF ReadCovers, Covers
  <1> QED
    BY <1>9, <1>12, <1>13, <1>16 DEF CopiesInv

-----------------------------------------------------------------------------

LEMMA CopiesInit == Init => CopiesInv
  <1> SUFFICES ASSUME Init PROVE CopiesInv
    OBVIOUS
  <1>1. CopyInv(NoRows)
    BY DenyInit, EmptyCopy DEF DenyInv
  <1>2. rows = NoRows /\ cache = NoRows /\ sync.snapshot = NoRows /\ sync.next = 1
    BY DEF Init, Reading
  <1>3. \A c : ~Read(c)
    BY <1>2 DEF Read
  <1> QED
    BY <1>1, <1>2, <1>3 DEF CopiesInv, CopyInv, ReadCovers

LEMMA CopiesStep ==
  ASSUME LifetimesCover, DenyInv, DenyInv', CacheInv, CopiesInv, [Next]_vars
  PROVE  CopiesInv'
  <1>1. CASE \E t \in Tokens : Issue(t)
    BY <1>1, IssueKeepsCopies
  <1>2. CASE \E t \in Tokens : RevokeToken(t)
    <2>1. PICK t \in Tokens : RevokeToken(t)
      BY <1>2
    <2>2. RowsGrow /\ RowsLast
      BY <2>1, RevokeTokenHolds
    <2>3. UNCHANGED <<now, issued, cacheVars>>
      BY <2>1 DEF RevokeToken
    <2>4. PICK new : Write(new)
      BY <2>1 DEF RevokeToken
    <2> QED
      BY <2>2, <2>3, <2>4, WriteKeepsCopies
  <1>3. CASE (\E f \in Families : RevokeTokenFamily(f)) \/ Cascade
    <2>1. PICK f \in Families : Write(FamilyRows(f)) /\ UNCHANGED <<now, issued, cacheVars>>
      BY <1>3 DEF RevokeTokenFamily, Cascade
    <2>2. RowsGrow /\ RowsLast
      BY <2>1, FamilyWriteHolds
    <2>3. PICK new : Write(new)
      BY <2>1
    <2> QED
      BY <2>1, <2>2, <2>3, WriteKeepsCopies
  <1>4. CASE \E cs \in SUBSET Bulk, terminal \in BOOLEAN, cutoff \in Cutoffs :
               RevokeCriteriaBatch(cs, terminal, cutoff)
    <2>1. PICK cs \in SUBSET Bulk, terminal \in BOOLEAN, cutoff \in Cutoffs :
            RevokeCriteriaBatch(cs, terminal, cutoff)
      BY <1>4
    <2>2. cutoff \in Nat
      BY CutoffsNat DEF DenyInv, TypeOK
    <2>3. RowsGrow /\ RowsLast
      BY <2>1, <2>2, BatchHolds
    <2>4. UNCHANGED <<now, issued, cacheVars>>
      BY <2>1 DEF RevokeCriteriaBatch
    <2>5. PICK new : Write(new)
      BY <2>1 DEF RevokeCriteriaBatch
    <2> QED
      BY <2>3, <2>4, <2>5, WriteKeepsCopies
  <1>5. CASE \E c \in Criteria : CleanUp(c)
    BY <1>5, CleanUpKeepsCopies
  <1>6. CASE Tick
    BY <1>6, TickKeepsCopies
  <1>7. CASE CascadeFails \/ UNCHANGED vars
    <2>1. UNCHANGED <<now, issued, rows, revoked, sync, cache>>
      BY <1>7 DEF CascadeFails, vars, denyVars, cacheVars
    <2> QED
      BY <2>1 DEF CopiesInv, CopyInv, TerminalRows, Lasting, Backed, ReadCovers, Read
  <1>8. CASE SnapshotStarts
    <2>1. UNCHANGED <<now, issued, rows, revoked, cache>>
      BY <1>8 DEF SnapshotStarts, denyVars
    <2>2. sync'.next = 1 /\ sync'.snapshot = NoRows
      BY <1>8 DEF SnapshotStarts, Reading
    <2> QED
      BY <2>1, <2>2, CopiesReplaced
  <1>9. CASE Restart
    <2>1. UNCHANGED <<now, issued, rows, revoked>> /\ cache' = NoRows
      BY <1>9 DEF Restart, denyVars
    <2>2. sync'.next = 1 /\ sync'.snapshot = NoRows
      BY <1>9 DEF Restart, Reading
    <2> QED
      BY <2>1, <2>2, CopiesReplaced
  <1>10. CASE SnapshotReads
    BY <1>10, ReadKeepsCopies
  <1>11. CASE Replace
    <2>1. UNCHANGED <<now, issued, rows, revoked>> /\ cache' = sync.snapshot
      BY <1>11 DEF Replace, denyVars
    <2>2. sync' = Idle /\ sync'.snapshot = NoRows
      BY <1>11 DEF Replace, Idle
    <2> QED
      BY <2>1, <2>2, CopiesReplaced
  <1>12. CASE SnapshotFails
    <2>1. UNCHANGED <<now, issued, rows, revoked, cache>>
      BY <1>12 DEF SnapshotFails, denyVars
    <2>2. sync' = Idle /\ sync'.snapshot = NoRows
      BY <1>12 DEF SnapshotFails, Idle
    <2> QED
      BY <2>1, <2>2, CopiesReplaced
  <1> QED
    BY <1>1, <1>2, <1>3, <1>4, <1>5, <1>6, <1>7, <1>8, <1>9, <1>10, <1>11, <1>12 DEF Next

\* The row that makes the resource server reject a revoked token matches it.
LEMMA CachedRow ==
  ASSUME DenyInv, CopiesInv, NEW t \in revoked, ResourceServerRejects(t)
  PROVE  \E c \in Carries[t] : Matches(cache[c], issued[t], now)
  <1>1. PICK c \in Carries[t] : IF DimensionOf[c] \in Terminals
                                THEN cache[c].expiry > now
                                ELSE Matches(cache[c], issued[t], now)
    BY DEF ResourceServerRejects
  <1>2. c \in Criteria /\ now \in Nat
    BY OfRevoked
  <1>3. CASE DimensionOf[c] \in Terminals
    <2>1. cache[c].expiry > now
      BY <1>1, <1>3
    <2>2. cache[c].expiry # 0
      BY <1>2, <2>1
    <2>3. cache[c].terminal
      BY <1>2, <1>3, <2>2 DEF CopiesInv, CopyInv, TerminalRows
    <2> QED
      BY <2>1, <2>3 DEF Matches
  <1> QED
    BY <1>1, <1>3

LEMMA CacheKeepsRejecting ==
  ASSUME DenyInv, DenyInv', CopiesInv, [Next]_vars, NEW t \in revoked, ResourceServerRejects(t)
  PROVE  ResourceServerRejects(t)' \/ Expired(t)' \/ ~serving'
  <1>1. PICK c \in Carries[t] : Matches(cache[c], issued[t], now)
    BY CachedRow
  <1>2. /\ t \in Tokens /\ Issued(t) /\ issued[t] \in Nat /\ now \in Nat
        /\ c \in Criteria /\ cache[c] \in Row
    BY OfRevoked DEF DenyInv, TypeOK
  <1>3. ASSUME issued'[t] = issued[t], Matches(cache'[c], issued[t], now')
        PROVE  ResourceServerRejects(t)'
    BY <1>2, <1>3 DEF ResourceServerRejects, Issued, Matches
  <1>4. CASE issued'[t] = issued[t] /\ now' = now /\ cache' = cache
    BY <1>1, <1>3, <1>4
  <1>5. CASE Tick
    <2>1. issued' = issued /\ cache' = cache /\ now' \in Nat /\ now' = now + 1
      BY <1>2, <1>5 DEF Tick, cacheVars
    <2>2. Holds(cache[c], issued[t], t)
      BY <1>1 DEF CopiesInv, CopyInv, Lasting
    <2>3. Validity[t] \in Nat /\ cache[c].expiry \in Nat
      BY <1>2, RevocationCacheConstants DEF Row
    <2>4. CASE cache[c].expiry > now'
      <3>1. Matches(cache'[c], issued[t], now')
        BY <1>1, <2>1, <2>4 DEF Matches
      <3> QED
        BY <1>3, <2>1, <3>1
    <2>5. CASE ~(cache[c].expiry > now')
      <3>1. now' >= issued[t] + Validity[t] + Leeway
        BY <1>2, <2>1, <2>2, <2>3, <2>5, DenyListConstants DEF Holds
      <3>2. Issued(t)'
        BY <1>2, <2>1 DEF Issued
      <3> QED
        BY <2>1, <3>1, <3>2 DEF Expired, PastExpiry
    <2> QED
      BY <2>4, <2>5
  <1>6. CASE Replace
    <2>1. issued' = issued /\ now' = now /\ cache' = sync.snapshot /\ sync.next = 7
      BY <1>6, DimensionsAre DEF Replace
    <2>2. PICK i \in 1..6 : DimensionOf[c] = Dimensions[i]
      BY <1>2, DimensionsAre
    <2>3. Read(c)
      BY <2>1, <2>2 DEF Read
    <2>4. Covers(sync.snapshot[c], cache[c])
      BY <1>1, <1>2, <2>1, <2>3 DEF CopiesInv, ReadCovers, Matches
    <2>5. sync.snapshot[c] \in Row
      BY <1>2 DEF DenyInv, TypeOK, Sync
    <2>6. Matches(sync.snapshot[c], issued[t], now)
      BY <1>1, <1>2, <2>4, <2>5, CoversMatches
    <2> QED
      BY <1>3, <2>1, <2>6
  <1>7. CASE Restart
    BY <1>7 DEF Restart
  <1>8. CASE \E u \in Tokens : Issue(u)
    <2>1. issued'[t] = issued[t]
      BY <1>2, <1>8 DEF Issue, DenyInv, TypeOK
    <2> QED
      BY <1>4, <1>8, <2>1 DEF Issue, cacheVars
  <1>9. CASE \/ \E u \in Tokens : RevokeToken(u)
             \/ \E f \in Families : RevokeTokenFamily(f)
             \/ Cascade \/ CascadeFails
             \/ \E cs \in SUBSET Bulk, terminal \in BOOLEAN, cutoff \in Cutoffs :
                  RevokeCriteriaBatch(cs, terminal, cutoff)
             \/ \E d \in Criteria : CleanUp(d)
    <2>1. UNCHANGED <<now, issued, cacheVars>>
      BY <1>9 DEF RevokeToken, RevokeTokenFamily, Cascade, CascadeFails, RevokeCriteriaBatch, CleanUp
    <2> QED
      BY <1>4, <2>1 DEF cacheVars
  <1>10. CASE SnapshotStarts \/ SnapshotReads \/ SnapshotFails
    BY <1>4, <1>10 DEF SnapshotStarts, SnapshotReads, SnapshotFails
  <1>11. CASE UNCHANGED vars
    BY <1>4, <1>11 DEF vars, cacheVars
  <1> QED
    BY <1>5, <1>6, <1>7, <1>8, <1>9, <1>10, <1>11 DEF Next

(***************************************************************************)
(* While the process lives, a revoked token that the resource server       *)
(* rejects is rejected until it has expired, for any tokens, criteria and  *)
(* timing of writes, clean-ups and reads: refresh puts in place a snapshot *)
(* that was read one dimension at a time, and with an older clock.         *)
(***************************************************************************)
THEOREM CacheKeepsRevocations == LifetimesCover => (Spec => CacheNeverForgets)
  <1> SUFFICES ASSUME LifetimesCover PROVE Spec => CacheNeverForgets
    OBVIOUS
  <1> DEFINE Kept == \A t \in revoked :
       ResourceServerRejects(t) => ResourceServerRejects(t)' \/ Expired(t)' \/ ~serving'
  <1>1. Init => DenyInv /\ CacheInv /\ CopiesInv
    BY DenyInit, CacheInit, CopiesInit
  <1>2. DenyInv /\ CacheInv /\ CopiesInv /\ [Next]_vars => (DenyInv /\ CacheInv /\ CopiesInv)'
    BY DenyStep, CacheStep, CopiesStep
  <1>3. DenyInv /\ DenyInv' /\ CopiesInv /\ [Next]_vars => [Kept]_vars
    BY CacheKeepsRejecting
  <1> QED
    BY <1>1, <1>2, <1>3, PTL DEF Spec, CacheNeverForgets
=============================================================================
