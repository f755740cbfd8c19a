--------------------------- MODULE RevocationCache --------------------------
(***************************************************************************)
(* Revocation from its producers to the resource server.  The revocation   *)
(* service writes the deny lists; the authorization server looks tokens up *)
(* in them; the resource server looks them up in a snapshot of its own,    *)
(* which a background loop reads again and again, one query per dimension  *)
(* and without a transaction, and puts in place as a whole.  A read that   *)
(* fails leaves the snapshot as it is.  A process that starts reads the    *)
(* first snapshot before it serves, and serves without one if that fails.  *)
(***************************************************************************)
EXTENDS DenyList, Sequences, FiniteSets

CONSTANTS
  Tokens,
  Criteria,      \* the jtis, token families, subjects, clients and scopes
  DimensionOf,   \* [Criteria -> the dimension]
  JTIOf,         \* [Tokens -> the criterion of its jti]
  Carries,       \* [Tokens -> the criteria a token matches, its jti among them]
  Validity,      \* [Tokens -> how long a token lives]
  TTL,           \* [Criteria -> the lifetime the producers of its rows ask for]
  MaxEntriesPerChange,
  Unissued, NoToken,
  PlanDelay,     \* how long a plan may wait to be written, a bound
  MaxTime,       \* bound on the clock
  MaxWrites,     \* bound on the writes of the revocation service
  MaxFaults      \* bound on failed reads and restarts

\* The order in which Snapshot reads them.
Dimensions == <<"jti", "token_family", "subject", "app.key", "entity.scope", "scope">>
Terminals == {"jti", "token_family"}
Families == {c \in Criteria : DimensionOf[c] = "token_family"}
Bulk == {c \in Criteria : DimensionOf[c] \notin Terminals}

ASSUME RevocationCacheConstants ==
  /\ DimensionOf \in [Criteria -> {Dimensions[i] : i \in DOMAIN Dimensions}]
  /\ JTIOf \in [Tokens -> Criteria]
  /\ Carries \in [Tokens -> SUBSET Criteria]
  /\ \A t \in Tokens : JTIOf[t] \in Carries[t] /\ DimensionOf[JTIOf[t]] = "jti"
  /\ \A t, u \in Tokens : JTIOf[t] \in Carries[u] => t = u
  /\ Validity \in [Tokens -> Nat]
  /\ TTL \in [Criteria -> Nat]
  /\ \A c \in Families : TTL[c] = 0
  /\ MaxEntriesPerChange \in Nat
  /\ Unissued \notin Nat
  /\ NoToken \notin Tokens
  /\ PlanDelay \in Nat
  /\ MaxTime \in Nat
  /\ MaxWrites \in Nat
  /\ MaxFaults \in Nat

VARIABLES
  now,
  issued,      \* when each token was issued, its iat
  rows,        \* REVOKED_TOKEN and REVOCATION_CRITERIA
  cascade,     \* the token whose revocation has yet to reach its family
  sync,        \* the read of the snapshot under way
  cache,       \* revokedCache of the resource server
  serving,     \* the process is past Initialize
  writes,      \* counted for MaxWrites
  faults,      \* counted for MaxFaults
  revoked,     \* history: the issued tokens that a write has made rejected
  atStart,     \* history: `revoked` when the read under way began
  installed    \* history: `atStart` of the snapshot in place

denyVars == <<rows, cascade, writes, revoked>>
cacheVars == <<sync, cache, serving, faults, atStart, installed>>
vars == <<now, issued, denyVars, cacheVars>>

-----------------------------------------------------------------------------

\* next: the dimension to read, 0 when none is under way.  at: the time the
\* queries compare with.
Sync == [next: 0..(Len(Dimensions) + 1), at: Nat, snapshot: [Criteria -> Row]]

NoRows == [c \in Criteria |-> NoRow]
Idle == [next |-> 0, at |-> 0, snapshot |-> NoRows]
Reading == [next |-> 1, at |-> now, snapshot |-> NoRows]

TypeOK ==
  /\ now \in Nat
  /\ issued \in [Tokens -> Nat \cup {Unissued}]
  /\ rows \in [Criteria -> Row]
  /\ cascade \in Tokens \cup {NoToken}
  /\ sync \in Sync
  /\ cache \in [Criteria -> Row]
  /\ serving \in BOOLEAN
  /\ writes \in Nat
  /\ faults \in Nat
  /\ revoked \subseteq Tokens
  /\ atStart \subseteq Tokens
  /\ installed \subseteq Tokens

Init ==
  /\ now = 1
  /\ issued = [t \in Tokens |-> Unissued]
  /\ rows = NoRows
  /\ cascade = NoToken
  /\ sync = Reading
  /\ cache = NoRows
  /\ serving = FALSE
  /\ writes = 0
  /\ faults = 0
  /\ revoked = {}
  /\ atStart = {}
  /\ installed = {}

Issued(t) == issued[t] # Unissued
Expired(t) == Issued(t) /\ PastExpiry(issued[t] + Validity[t], now)

\* The check of the authorization server, and that of the resource server, which
\* keeps no boundary for jtis and token families.
RejectedBy(list, t) ==
  /\ Issued(t)
  /\ \E c \in Carries[t] : Matches(list[c], issued[t], now)
ResourceServerRejects(t) ==
  /\ Issued(t)
  /\ \E c \in Carries[t] : IF DimensionOf[c] \in Terminals
                           THEN cache[c].expiry > now
                           ELSE Matches(cache[c], issued[t], now)

-----------------------------------------------------------------------------
(* The revocation service *)

\* A grant issues a token.  Nothing keeps it from issuing one of a family, a
\* subject or a client that is being revoked.
Issue(t) ==
  /\ ~Issued(t)
  /\ issued' = [issued EXCEPT ![t] = now]
  /\ UNCHANGED <<now, denyVars, cacheVars>>

\* The rows become `new`; the tokens that this write rejects join the history.
Write(new) ==
  /\ writes < MaxWrites
  /\ writes' = writes + 1
  /\ rows' = new
  /\ revoked' = revoked \cup {t \in Tokens : RejectedBy(new, t) /\ ~RejectedBy(rows, t)}

\* RevokeToken: the row by jti, which no second write changes, then in a second
\* call the family.  An expired token may be revoked too.
RevokeToken(t) ==
  /\ Issued(t)
  /\ cascade = NoToken
  /\ Write([rows EXCEPT ![JTIOf[t]] =
              InsertOnce(@, TokenRow(now, issued[t] + Validity[t]))])
  /\ cascade' = IF Carries[t] \cap Families # {} THEN t ELSE NoToken
  /\ UNCHANGED <<now, issued, cacheVars>>

\* RevokeTokenFamily: sign-out, a replay, or the second call of RevokeToken.  It
\* asks for no lifetime.
FamilyRows(f) == [rows EXCEPT ![f] = Upsert(@, TerminalRow(now, TTL[f]))]

RevokeTokenFamily(f) ==
  /\ Write(FamilyRows(f))
  /\ UNCHANGED <<now, issued, cascade, cacheVars>>

Cascade ==
  /\ cascade # NoToken
  /\ \E f \in Carries[cascade] \cap Families : Write(FamilyRows(f))
  /\ cascade' = NoToken
  /\ UNCHANGED <<now, issued, cacheVars>>

\* The second call fails: RevokeToken answers with an error and only the token
\* is revoked.
CascadeFails ==
  /\ cascade # NoToken
  /\ cascade' = NoToken
  /\ UNCHANGED <<now, issued, rows, writes, revoked, cacheVars>>

\* RevokeCriteriaBatch: one transaction over the criteria of a plan, refused as a
\* whole when they are too many.  The cutoff was fixed when the plan was made: the
\* time of that or, for a suspension, the leeway ahead of it.
Cutoffs == {c \in 0..(now + Leeway) :
              \E planned \in 0..now : /\ now - planned <= PlanDelay
                                      /\ c \in {planned, planned + Leeway}}

BatchRows(cs, terminal, cutoff) ==
  [c \in Criteria |->
     IF c \notin cs THEN rows[c]
     ELSE Upsert(rows[c], IF terminal THEN TerminalRow(now, TTL[c])
                                      ELSE BoundaryRow(now, cutoff, TTL[c]))]

RevokeCriteriaBatch(cs, terminal, cutoff) ==
  /\ cs # {}
  /\ Cardinality(cs) <= MaxEntriesPerChange
  /\ Write(BatchRows(cs, terminal, cutoff))
  /\ UNCHANGED <<now, issued, cascade, cacheVars>>

\* cleanup_expired_runtime_persistent_data deletes the rows that have lapsed.
CleanUp(c) ==
  /\ rows[c] # NoRow
  /\ rows[c].expiry < now
  /\ rows' = [rows EXCEPT ![c] = NoRow]
  /\ UNCHANGED <<now, issued, cascade, writes, revoked, cacheVars>>

-----------------------------------------------------------------------------
(* The cache of the resource server *)

\* The ticker fires: Snapshot looks at the clock once and starts to query.
SnapshotStartsUntilError ==
  /\ serving
  /\ faults = 0
  /\ sync.next = 0
  /\ sync' = Reading
  /\ atStart' = revoked
  /\ UNCHANGED <<now, issued, denyVars, cache, serving, faults, installed>>
SnapshotStarts ==
  /\ serving
  /\ sync.next = 0
  /\ sync' = Reading
  /\ atStart' = revoked
  /\ UNCHANGED <<now, issued, denyVars, cache, serving, faults, installed>>

\* One query: the rows of one dimension that have not lapsed at sync.at.
SnapshotReads ==
  /\ sync.next \in DOMAIN Dimensions
  /\ sync' = [sync EXCEPT
                !.next = @ + 1,
                !.snapshot = [c \in Criteria |->
                   IF DimensionOf[c] = Dimensions[sync.next] /\ rows[c].expiry > sync.at
                   THEN rows[c] ELSE @[c]]]
  /\ UNCHANGED <<now, issued, denyVars, cache, serving, faults, atStart, installed>>

\* refresh: every query has answered and the cache is replaced under its lock.
\* After the first one Initialize returns and the process serves.
ReplaceEarly ==
  /\ sync.next >= 4
  /\ cache' = sync.snapshot
  /\ installed' = atStart
  /\ serving' = TRUE
  /\ sync' = Idle
  /\ UNCHANGED <<now, issued, denyVars, faults, atStart>>
Replace ==
  /\ sync.next = Len(Dimensions) + 1
  /\ cache' = sync.snapshot
  /\ installed' = atStart
  /\ serving' = TRUE
  /\ sync' = Idle
  /\ UNCHANGED <<now, issued, denyVars, faults, atStart>>

\* A query fails: the last good snapshot stays, or none if there was none yet.
SnapshotFailsEmpty ==
  /\ sync.next # 0
  /\ faults < MaxFaults
  /\ faults' = faults + 1
  /\ sync' = Idle
  /\ serving' = TRUE
  /\ cache' = sync.snapshot
  /\ UNCHANGED <<now, issued, denyVars, atStart, installed>>
SnapshotFails ==
  /\ sync.next # 0
  /\ faults < MaxFaults
  /\ faults' = faults + 1
  /\ sync' = Idle
  /\ serving' = TRUE
  /\ UNCHANGED <<now, issued, denyVars, cache, atStart, installed>>

\* The process stops, or dies, and starts again with an empty cache.
Restart ==
  /\ faults < MaxFaults
  /\ faults' = faults + 1
  /\ sync' = Reading
  /\ cache' = NoRows
  /\ serving' = FALSE
  /\ atStart' = revoked
  /\ installed' = {}
  /\ UNCHANGED <<now, issued, denyVars>>

Tick ==
  /\ now < MaxTime
  /\ now' = now + 1
  /\ UNCHANGED <<issued, denyVars, cacheVars>>

-----------------------------------------------------------------------------

Next ==
  \/ \E t \in Tokens : Issue(t) \/ RevokeToken(t)
  \/ \E f \in Families : RevokeTokenFamily(f)
  \/ Cascade \/ CascadeFails
  \/ \E cs \in SUBSET Bulk, terminal \in BOOLEAN, cutoff \in Cutoffs :
       RevokeCriteriaBatch(cs, terminal, cutoff)
  \/ \E c \in Criteria : CleanUp(c)
  \/ SnapshotStarts \/ SnapshotReads \/ Replace \/ SnapshotFails
  \/ Restart
  \/ Tick

\* The loop runs until the process stops: its ticker fires again and a query
\* answers or fails.  Nobody is obliged to revoke, and the clock may stand still.
Fairness ==
  /\ WF_vars(SnapshotStarts)
  /\ WF_vars(SnapshotReads)
  /\ WF_vars(Replace)

Spec == Init /\ [][Next]_vars /\ Fairness

-----------------------------------------------------------------------------
(* Properties *)

(***************************************************************************)
(* A token that a revocation has made rejected is rejected until it has    *)
(* expired: no second write of its row, whatever its reason, cutoff and    *)
(* lifetime, and no lapse or removal of the row lets it in again.          *)
(***************************************************************************)
RevokedStaysRevoked == \A t \in revoked : RejectedBy(rows, t) \/ Expired(t)

(***************************************************************************)
(* The resource server rejects every token that was revoked when the       *)
(* read of its snapshot began, although the snapshot is read dimension by  *)
(* dimension while rows are written, refreshed and removed.                *)
(***************************************************************************)
SnapshotIsComplete ==
  \A t \in installed : ResourceServerRejects(t) \/ Expired(t)

(***************************************************************************)
(* A revoked token that the resource server rejects is not accepted there  *)
(* again before it expires: a refresh, complete or failed, never takes a   *)
(* revocation out of the cache.  Only a restart does.                      *)
(***************************************************************************)
CacheNeverForgets ==
  [][\A t \in revoked :
       ResourceServerRejects(t) => ResourceServerRejects(t)' \/ Expired(t)' \/ ~serving']_vars

(***************************************************************************)
(* Every revocation reaches the resource server: once reads stop failing,  *)
(* a revoked token is rejected there or has expired.                       *)
(***************************************************************************)
RevocationPropagates ==
  \A t \in Tokens : t \in revoked ~> ResourceServerRejects(t) \/ Expired(t)
=============================================================================
