-------------------------- MODULE ApplicationChange -------------------------
(***************************************************************************)
(* The life of an application and the tokens issued to its OAuth client.   *)
(* An application is an entity (its client id and its secret) and, in      *)
(* another database, an inbound client (its token configuration).  A       *)
(* change that must take tokens with it revokes by client id in a system   *)
(* flow before it writes, and in a second one moves the cutoff up once it  *)
(* has written.  Every step is a call of its own: it may fail, the process *)
(* may stop, and other administrators and token requests go on between     *)
(* two of them.                                                            *)
(*                                                                         *)
(* One tick of the clock is a second, which is what `iat` keeps.           *)
(***************************************************************************)
EXTENDS DenyList

CONSTANTS
  Admins,       \* administrators with a change under way, or idle
  Requests,     \* token requests, each of which may get one token
  Secrets,      \* client secrets
  Validities,   \* token validities that an application can be configured with
  CodeWindow,   \* oauth.authorization_code.validity_period
  MaxTime,      \* bound on the clock
  MaxChanges    \* bound on the changes that are started

ASSUME ApplicationChangeConstants ==
  /\ Secrets # {}
  /\ Validities \subseteq Nat /\ Validities # {}
  /\ CodeWindow \in Nat
  /\ MaxTime \in Nat
  /\ MaxChanges \in Nat

VARIABLES
  now,
  entity,      \* the entity exists
  client,      \* the inbound client exists
  secret,      \* the client secret of the entity
  validity,    \* the token validity of the inbound client
  row,         \* the criterion app.key of the client id
  admins,      \* the changes under way
  requests,    \* the token requests and their tokens
  changes,     \* counted for MaxChanges
  lastEnd,     \* history: when a change last ended
  promised,    \* history: the tokens that a written change is to have revoked,
               \* each with the lifetime its plan asked for
  settled      \* history: the tokens issued after the last change and before the next

appVars == <<entity, client, secret, validity>>
historyVars == <<promised, settled>>
vars == <<now, appVars, row, admins, requests, changes, lastEnd, historyVars>>

-----------------------------------------------------------------------------

Kinds == {"create", "update", "regenerate", "delete"}

\* pc: the step that comes next.  secret, validity: what is to be written.
\* revokes: the two system flows are run.  cutoff, ttl: the revocation plan they
\* share.
Change ==
  [pc: {"idle", "plan", "revoke", "client", "entity", "post"},
   kind: Kinds, secret: Secrets, validity: Validities,
   revokes: BOOLEAN, cutoff: Nat, ttl: Nat]

Idle ==
  [pc |-> "idle", kind |-> "update",
   secret |-> CHOOSE s \in Secrets : TRUE, validity |-> CHOOSE v \in Validities : TRUE,
   revokes |-> FALSE, cutoff |-> 0, ttl |-> 0]

Request ==
  [pc: {"new", "authenticated", "issued"}, validity: Validities, iat: Nat]

TypeOK ==
  /\ now \in Nat
  /\ entity \in BOOLEAN
  /\ client \in BOOLEAN
  /\ secret \in Secrets
  /\ validity \in Validities
  /\ row \in Row
  /\ admins \in [Admins -> Change]
  /\ requests \in [Requests -> Request]
  /\ changes \in Nat
  /\ lastEnd \in Nat
  /\ promised \subseteq Requests \X Nat
  /\ settled \subseteq Requests

Init ==
  /\ now = 1
  /\ entity = TRUE
  /\ client = TRUE
  /\ secret \in Secrets
  /\ validity \in Validities
  /\ row = NoRow
  /\ admins = [a \in Admins |-> Idle]
  /\ requests = [r \in Requests |-> [pc |-> "new", validity |-> validity, iat |-> 0]]
  /\ changes = 0
  /\ lastEnd = 0
  /\ promised = {}
  /\ settled = {}

Issued == {r \in Requests : requests[r].pc = "issued"}
Expired(r) == PastExpiry(requests[r].iat + requests[r].validity, now)
Rejected(r) == Matches(row, requests[r].iat, now)
Quiet == \A a \in Admins : admins[a].pc = "idle"

-----------------------------------------------------------------------------
(* Token requests *)

\* ClientAuthMiddleware: the client is loaded and its secret verified.  The
\* configuration loaded here is the one the token is built with.
Authenticate(r) ==
  /\ requests[r].pc = "new"
  /\ entity /\ client
  /\ requests' = [requests EXCEPT ![r] = [@ EXCEPT !.pc = "authenticated", !.validity = validity]]
  /\ UNCHANGED <<now, appVars, row, admins, changes, lastEnd, historyVars>>

\* The grant builds the token, whatever has become of the client.
IssueToken(r) ==
  /\ requests[r].pc = "authenticated"
  /\ requests' = [requests EXCEPT ![r] = [@ EXCEPT !.pc = "issued", !.iat = now]]
  /\ settled' = IF Quiet /\ now > lastEnd THEN settled \cup {r} ELSE settled
  /\ UNCHANGED <<now, appVars, row, admins, changes, lastEnd, promised>>

-----------------------------------------------------------------------------
(* A change starts *)

Start(a, c) ==
  /\ admins[a].pc = "idle"
  /\ changes < MaxChanges
  /\ changes' = changes + 1
  /\ admins' = [admins EXCEPT ![a] = c]
  /\ settled' = {}
  /\ UNCHANGED <<now, appVars, row, requests, lastEnd, promised>>

\* createApplication: no entity has the id or the client id.
StartCreate(a) ==
  /\ ~entity
  /\ \E s \in Secrets, v \in Validities :
       Start(a, [Idle EXCEPT !.pc = "entity", !.kind = "create", !.secret = s, !.validity = v])

\* updateApplication: the application is there, and the secret it is given is
\* compared with the stored one.
StartUpdate(a) ==
  /\ entity /\ client
  /\ \E s \in Secrets, v \in Validities :
       Start(a, [Idle EXCEPT !.pc = IF s # secret THEN "plan" ELSE "client",
                             !.secret = s, !.validity = v, !.revokes = s # secret])

\* The Console's flow: the secret is generated.
StartRegenerate(a) ==
  \E s \in Secrets \ {secret} :
    Start(a, [Idle EXCEPT !.pc = "plan", !.kind = "regenerate", !.secret = s, !.revokes = TRUE])

\* deleteApplication: without an entity nothing is revoked, the rest is removed.
StartDelete(a) ==
  Start(a, [Idle EXCEPT !.pc = IF entity THEN "plan" ELSE "client",
                        !.kind = "delete", !.revokes = entity])

-----------------------------------------------------------------------------
(* Its steps *)

Goes(a, pc) == admins' = [admins EXCEPT ![a].pc = pc]

Ends(a) ==
  /\ admins' = [admins EXCEPT ![a] = Idle]
  /\ lastEnd' = now

\* ArtifactLifetime, from the configuration the client has now.
ArtifactLifetime == validity + CodeWindow

\* ApplicationActionValidator: ValidateCredentialAction wants the entity and the
\* client; ValidateDeleteApplication takes the client id from the entity and has no
\* opinion on the lifetime if it cannot load the client.
Lifetimes(kind) ==
  CASE ~entity -> {}
    [] entity /\ kind = "delete" -> IF client THEN {ArtifactLifetime, 0} ELSE {0}
    [] OTHER -> IF client THEN {ArtifactLifetime} ELSE {}

Plan(a) ==
  /\ admins[a].pc = "plan"
  /\ \E ttl \in Lifetimes(admins[a].kind) :
       admins' = [admins EXCEPT ![a] = [@ EXCEPT !.pc = "revoke", !.cutoff = now, !.ttl = ttl]]
  /\ UNCHANGED <<now, appVars, row, requests, changes, lastEnd, historyVars>>

\* criteriaRevocationExecutor.write
WritesRowTerminal(a, cutoff) == row' = Upsert(row, TerminalRow(now, admins[a].ttl))
WritesRow(a, cutoff) == row' = Upsert(row, BoundaryRow(now, cutoff, admins[a].ttl))

\* The tokens `rs` are to be revoked by the change of a from now on.
Promises(a, rs) == promised' = promised \cup (rs \X {admins[a].ttl})

\* Mode revoke, with the cutoff of the plan.
RevokeTokens(a) ==
  /\ admins[a].pc = "revoke"
  /\ WritesRow(a, admins[a].cutoff)
  /\ Goes(a, IF admins[a].kind = "regenerate" THEN "entity" ELSE "client")
  /\ UNCHANGED <<now, appVars, requests, changes, lastEnd, historyVars>>

Covered(a) == {r \in Issued : admins[a].revokes /\ requests[r].iat <= admins[a].cutoff}

\* UpdateInboundClient, which fails if there is none.
UpdateInboundClient(a) ==
  /\ admins[a].pc = "client" /\ admins[a].kind = "update"
  /\ client
  /\ validity' = admins[a].validity
  /\ Goes(a, "entity")
  /\ UNCHANGED <<now, entity, client, secret, row, requests, changes, lastEnd, historyVars>>

\* The secret is written if it was found to differ.  A regeneration looks for the
\* entity and the client once more.
UpdateSecret(a) ==
  /\ admins[a].pc = "entity" /\ admins[a].kind \in {"update", "regenerate"}
  /\ entity
  /\ admins[a].kind = "regenerate" => client
  /\ secret' = IF admins[a].revokes THEN admins[a].secret ELSE secret
  /\ IF admins[a].revokes THEN Goes(a, "post") /\ lastEnd' = lastEnd ELSE Ends(a)
  /\ Promises(a, Covered(a))
  /\ UNCHANGED <<now, entity, client, validity, row, requests, changes, settled>>

\* DeleteInboundClient, after the dependents and the sharing policies.  It is no
\* error that there is none.
DeleteInboundClient(a) ==
  /\ admins[a].pc = "client" /\ admins[a].kind = "delete"
  /\ client' = FALSE
  /\ Goes(a, IF admins[a].revokes THEN "post" ELSE "entity")
  /\ Promises(a, Covered(a))
  /\ UNCHANGED <<now, entity, secret, validity, row, requests, changes, lastEnd, settled>>

\* Mode advance_cutoff: the same criterion, up to now.
AdvanceCutoffOfPlan(a) ==
  /\ admins[a].pc = "post"
  /\ WritesRow(a, admins[a].cutoff)
  /\ Promises(a, Issued)
  /\ IF admins[a].kind = "delete" THEN Goes(a, "entity") /\ lastEnd' = lastEnd ELSE Ends(a)
  /\ UNCHANGED <<now, appVars, requests, changes, settled>>
AdvanceCutoff(a) ==
  /\ admins[a].pc = "post"
  /\ WritesRow(a, now)
  /\ Promises(a, Issued)
  /\ IF admins[a].kind = "delete" THEN Goes(a, "entity") /\ lastEnd' = lastEnd ELSE Ends(a)
  /\ UNCHANGED <<now, appVars, requests, changes, settled>>

DeleteEntity(a) ==
  /\ admins[a].pc = "entity" /\ admins[a].kind = "delete"
  /\ entity' = FALSE
  /\ Ends(a)
  /\ UNCHANGED <<now, client, secret, validity, row, requests, changes, historyVars>>

CreateEntity(a) ==
  /\ admins[a].pc = "entity" /\ admins[a].kind = "create"
  /\ ~entity
  /\ entity' = TRUE
  /\ secret' = admins[a].secret
  /\ Goes(a, "client")
  /\ UNCHANGED <<now, client, validity, row, requests, changes, lastEnd, historyVars>>

\* CreateInboundClient; when it fails the entity is deleted again.
CreateInboundClient(a) ==
  /\ admins[a].pc = "client" /\ admins[a].kind = "create"
  /\ \/ /\ ~client
        /\ client' = TRUE
        /\ validity' = admins[a].validity
        /\ entity' = entity
     \/ /\ entity' = FALSE
        /\ UNCHANGED <<client, validity>>
  /\ Ends(a)
  /\ UNCHANGED <<now, secret, row, requests, changes, historyVars>>

\* A step is refused or fails, or the process stops.  What was done stays done.
Fails(a) ==
  /\ admins[a].pc # "idle"
  /\ Ends(a)
  /\ UNCHANGED <<now, appVars, row, requests, changes, historyVars>>

\* cleanup_expired_runtime_persistent_data
CleanUp ==
  /\ row # NoRow
  /\ row.expiry < now
  /\ row' = NoRow
  /\ UNCHANGED <<now, appVars, admins, requests, changes, lastEnd, historyVars>>

Tick ==
  /\ now < MaxTime
  /\ now' = now + 1
  /\ UNCHANGED <<appVars, row, admins, requests, changes, lastEnd, historyVars>>

Next ==
  \/ \E r \in Requests : Authenticate(r) \/ IssueToken(r)
  \/ \E a \in Admins :
       \/ StartCreate(a) \/ StartUpdate(a) \/ StartRegenerate(a) \/ StartDelete(a)
       \/ Plan(a) \/ RevokeTokens(a) \/ AdvanceCutoff(a)
       \/ UpdateInboundClient(a) \/ UpdateSecret(a)
       \/ DeleteInboundClient(a) \/ DeleteEntity(a)
       \/ CreateEntity(a) \/ CreateInboundClient(a)
       \/ Fails(a)
  \/ CleanUp
  \/ Tick

Spec == Init /\ [][Next]_vars

-----------------------------------------------------------------------------
(* Properties *)

(***************************************************************************)
(* A change takes the tokens with it.  As soon as the new secret is        *)
(* written or the client deleted, the tokens issued up to the plan are     *)
(* rejected until they expire, although nothing after the write may        *)
(* happen; once the cutoff has moved, so are all tokens issued until then. *)
(* This holds for tokens no longer valid than the row was sized for.       *)
(***************************************************************************)
ChangeTakesTokens ==
  \A p \in promised : requests[p[1]].validity <= Later(p[2], Lifetime) =>
                        Rejected(p[1]) \/ Expired(p[1])

(***************************************************************************)
(* The same for every token of a client that the plan could load, whose    *)
(* row is sized for "the longest an artifact issued to this client can     *)
(* remain valid".                                                          *)
(***************************************************************************)
ChangeTakesAllTokens ==
  \A p \in promised : p[2] # 0 => Rejected(p[1]) \/ Expired(p[1])

(***************************************************************************)
(* A change takes no more than that.  A token issued in a later second     *)
(* than a change ended, whether it succeeded or failed, and with none      *)
(* under way, is valid until the next one: that of a new secret, or of a   *)
(* new application under the client id of a deleted one.                   *)
(***************************************************************************)
LaterTokensValid == \A r \in settled : ~Rejected(r)
=============================================================================
