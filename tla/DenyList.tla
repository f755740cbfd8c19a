------------------------------ MODULE DenyList ------------------------------
(***************************************************************************)
(* The deny lists of the runtime persistent database: what a row looks     *)
(* like, what a second write of the same row makes of it, which tokens a   *)
(* row rejects and when it lapses.  The modules about revocation keep the  *)
(* rows themselves as their state.                                         *)
(*                                                                         *)
(* A row is terminal (it rejects every token that carries its value) or a  *)
(* boundary (it rejects the tokens established at or before its cutoff).   *)
(* A row by jti has no reason that is a boundary.                          *)
(***************************************************************************)
EXTENDS Integers

CONSTANTS
  Lifetime,   \* tokenFamilyLifetime, from oauth.refresh_token.validity_period
  Leeway      \* validationLeeway, from jwt.leeway

ASSUME DenyListConstants ==
  /\ Lifetime \in Nat
  /\ Leeway \in Nat

Row == [terminal: BOOLEAN, revokedAt: Nat, expiry: Nat]

NoRow == [terminal |-> FALSE, revokedAt |-> 0, expiry |-> 0]

Later(a, b) == IF a > b THEN a ELSE b

-----------------------------------------------------------------------------
(* What is written *)

\* criterionExpiry and resolveCriterionLifetime: a caller can ask for more than
\* the configured lifetime, never for less.
CriterionExpiry(now, revokedAt, ttl) ==
  Later(now, revokedAt) + Later(ttl, Lifetime) + Leeway

\* validatedCriterionRow in its two modes.
TerminalRow(now, ttl) ==
  [terminal |-> TRUE, revokedAt |-> now, expiry |-> CriterionExpiry(now, now, ttl)]
BoundaryRow(now, cutoff, ttl) ==
  [terminal |-> FALSE, revokedAt |-> cutoff, expiry |-> CriterionExpiry(now, cutoff, ttl)]

\* The row by jti of a token that expires at `exp`.
TokenRow(now, exp) == [terminal |-> TRUE, revokedAt |-> now, expiry |-> exp + Leeway]

\* revocationCriteriaUpsertClause.  NoRow is no row, and the least of them.
UpsertOverwrites(old, new) == new
Upsert(old, new) ==
  [terminal |-> old.terminal \/ new.terminal,
   revokedAt |-> IF old.terminal \/ old.revokedAt > new.revokedAt
                 THEN old.revokedAt ELSE new.revokedAt,
   expiry |-> Later(old.expiry, new.expiry)]

\* ON CONFLICT DO NOTHING of the list by jti.
InsertOnce(old, new) == IF old = NoRow THEN new ELSE old

-----------------------------------------------------------------------------
(* What is read *)

\* buildCriteriaRevokedQuery, queryIsTokenRevoked and matchesEntry.
Matches(row, establishedAt, now) ==
  /\ row.expiry > now
  /\ row.terminal \/ establishedAt <= row.revokedAt

\* validateTimeClaims: a token is accepted until its expiry and the leeway.
PastExpiry(exp, now) == now >= exp + Leeway
=============================================================================
