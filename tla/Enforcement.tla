---------------------------- MODULE Enforcement -----------------------------
(***************************************************************************)
(* The deny-list check that every presented token goes through, and the    *)
(* circuit breaker that guards it.  A check makes up to two lookups in the *)
(* runtime persistent database, first by jti, then by the criteria that    *)
(* the token carries.  It fails closed: when a lookup fails, or the        *)
(* breaker does not let it through, the token is refused.                  *)
(*                                                                         *)
(* Checks run concurrently.  allow, recordSuccess and recordFailure each   *)
(* hold the mutex of the breaker; between them other checks may run, and a *)
(* lookup may come back in a state of the breaker that is not the one it   *)
(* was admitted in.                                                        *)
(***************************************************************************)
EXTENDS Integers

CONSTANTS
  Checks,           \* EnsureNotRevoked calls in flight
  Tokens,
  NoToken,
  WithJTI,          \* the tokens that carry a jti
  WithCriteria,     \* the tokens that carry a criterion
  FailureThreshold, \* enforcementFailureThreshold
  OpenDuration      \* enforcementOpenDuration

ASSUME EnforcementConstants ==
  /\ NoToken \notin Tokens
  /\ WithJTI \subseteq Tokens
  /\ WithCriteria \subseteq Tokens
  /\ FailureThreshold \in Nat \ {0}
  /\ OpenDuration \in Nat

VARIABLES
  state,    \* of the breaker
  fails,    \* consecutiveFails
  openFor,  \* the time since openedAt
  denied,   \* tokens on the deny list by jti
  barred,   \* tokens that a criterion on the deny list covers
  check     \* the local state of each check

breakerVars == <<state, fails, openFor>>
denyVars == <<denied, barred>>
enforcementVars == <<breakerVars, denyVars, check>>

-----------------------------------------------------------------------------

\* late: the token was revoked when the check began.
Check == [pc: {"idle", "jti", "criteria"}, token: Tokens \cup {NoToken},
          late: BOOLEAN,
          verdict: {"none", "ok", "revoked", "unavailable"}]

IdleCheck == [pc |-> "idle", token |-> NoToken, late |-> FALSE,
              verdict |-> "none"]

EnforcementTypeOK ==
  /\ state \in {"closed", "open", "half_open"}
  /\ fails \in 0..FailureThreshold
  /\ openFor \in 0..OpenDuration
  /\ denied \subseteq WithJTI
  /\ barred \subseteq WithCriteria
  /\ check \in [Checks -> Check]

EnforcementInit ==
  /\ state = "closed"
  /\ fails = 0
  /\ openFor = 0
  /\ denied = {}
  /\ barred = {}
  /\ check = [c \in Checks |-> IdleCheck]

-----------------------------------------------------------------------------
(* The circuit breaker *)

\* allow: whether a call may proceed, and what it makes of the state.
Allows == state = "closed" \/ (state = "open" /\ openFor = OpenDuration)

Allow ==
  /\ Allows
  /\ state' = IF state = "open" THEN "half_open" ELSE state
  /\ UNCHANGED <<fails, openFor>>

\* Fault: a success resets the count and leaves the circuit as it is.
RecordSuccessCountOnly ==
  /\ fails' = 0
  /\ UNCHANGED <<state, openFor>>

\* recordSuccess closes the circuit, whichever state it is in.
RecordSuccess ==
  /\ state' = "closed"
  /\ fails' = 0
  /\ UNCHANGED openFor

\* Fault: the circuit opens one failure late.
RecordFailureOffByOne ==
  \/ /\ state = "half_open"
     /\ state' = "open" /\ openFor' = 0
     /\ UNCHANGED fails
  \/ /\ state # "half_open"
     /\ fails' = IF fails < FailureThreshold THEN fails + 1 ELSE fails
     /\ IF state = "closed" /\ fails >= FailureThreshold
          THEN state' = "open" /\ openFor' = 0
          ELSE UNCHANGED <<state, openFor>>

\* recordFailure.  The count is only ever compared with the threshold, so it is
\* not counted beyond it.
RecordFailure ==
  \/ /\ state = "half_open"
     /\ state' = "open" /\ openFor' = 0
     /\ UNCHANGED fails
  \/ /\ state # "half_open"
     /\ fails' = IF fails < FailureThreshold THEN fails + 1 ELSE fails
     /\ IF state = "closed" /\ fails + 1 >= FailureThreshold
          THEN state' = "open" /\ openFor' = 0
          ELSE UNCHANGED <<state, openFor>>

\* Time passes.  It matters to an open circuit only.
EnforcementTick ==
  /\ state = "open"
  /\ openFor < OpenDuration
  /\ openFor' = openFor + 1
  /\ UNCHANGED <<state, fails, denyVars, check>>

-----------------------------------------------------------------------------
(* Revocations, committed at any time *)

Revoke(t) ==
  /\ \/ t \in WithJTI \ denied /\ denied' = denied \cup {t} /\ UNCHANGED barred
     \/ t \in WithCriteria \ barred /\ barred' = barred \cup {t} /\ UNCHANGED denied
  /\ UNCHANGED <<breakerVars, check>>

-----------------------------------------------------------------------------
(* EnsureNotRevoked *)

Ends(c, late, verdict) ==
  check' = [check EXCEPT ![c] = [IdleCheck EXCEPT !.late = late, !.verdict = verdict]]

\* A token without a jti and without criteria has nothing to look up, and a check
\* that the breaker turns away fails closed.
Begin(c, t) ==
  LET late == t \in denied \cup barred IN
  /\ check[c].pc = "idle"
  /\ \/ /\ t \notin WithJTI \cup WithCriteria
        /\ Ends(c, late, "ok")
        /\ UNCHANGED breakerVars
     \/ /\ t \in WithJTI \cup WithCriteria
        /\ ~Allows
        /\ Ends(c, late, "unavailable")
        /\ UNCHANGED breakerVars
     \/ /\ t \in WithJTI \cup WithCriteria
        /\ Allow
        /\ check' = [check EXCEPT ![c] =
             [IdleCheck EXCEPT !.pc = IF t \in WithJTI THEN "jti" ELSE "criteria",
                               !.token = t, !.late = late]]
  /\ UNCHANGED denyVars

\* Fault: a token found on the deny list is refused without telling the breaker.
LookupJTIUnrecorded(c) ==
  LET t == check[c].token IN
  /\ check[c].pc = "jti"
  /\ \/ t \in denied /\ UNCHANGED breakerVars /\ Ends(c, check[c].late, "revoked")
     \/ /\ t \notin denied /\ t \in WithCriteria
        /\ check' = [check EXCEPT ![c] = [@ EXCEPT !.pc = "criteria"]]
        /\ UNCHANGED breakerVars
     \/ t \notin denied /\ t \notin WithCriteria /\ RecordSuccess /\ Ends(c, check[c].late, "ok")
  /\ UNCHANGED denyVars

\* IsTokenRevoked answers.
LookupJTI(c) ==
  LET t == check[c].token IN
  /\ check[c].pc = "jti"
  /\ \/ t \in denied /\ RecordSuccess /\ Ends(c, check[c].late, "revoked")
     \/ /\ t \notin denied /\ t \in WithCriteria
        /\ check' = [check EXCEPT ![c] = [@ EXCEPT !.pc = "criteria"]]
        /\ UNCHANGED breakerVars
     \/ t \notin denied /\ t \notin WithCriteria /\ RecordSuccess /\ Ends(c, check[c].late, "ok")
  /\ UNCHANGED denyVars

\* areCriteriaRevoked answers.
LookupCriteria(c) ==
  /\ check[c].pc = "criteria"
  /\ RecordSuccess
  /\ Ends(c, check[c].late, IF check[c].token \in barred THEN "revoked" ELSE "ok")
  /\ UNCHANGED denyVars

\* Fault: the check fails open.
LookupFailsOpen(c) ==
  /\ check[c].pc # "idle"
  /\ RecordFailure
  /\ Ends(c, check[c].late, "ok")
  /\ UNCHANGED denyVars

\* failClosed: the database does not answer, or the caller's context is cancelled.
LookupFails(c) ==
  /\ check[c].pc # "idle"
  /\ RecordFailure
  /\ Ends(c, check[c].late, "unavailable")
  /\ UNCHANGED denyVars

-----------------------------------------------------------------------------

Resolve(c) == LookupJTI(c) \/ LookupCriteria(c) \/ LookupFails(c)

EnforcementNext ==
  \/ EnforcementTick
  \/ \E t \in Tokens : Revoke(t)
  \/ \E c \in Checks : (\E t \in Tokens : Begin(c, t)) \/ Resolve(c)

EnforcementSpec == EnforcementInit /\ [][EnforcementNext]_enforcementVars

\* Time goes on, every lookup ends with an answer or an error, and requests that
\* carry a token with something to look up keep arriving.
Fairness ==
  /\ WF_enforcementVars(EnforcementTick)
  /\ \A c \in Checks :
       /\ WF_enforcementVars(Resolve(c))
       /\ WF_enforcementVars(\E t \in WithJTI \cup WithCriteria : Begin(c, t))

FairSpec == EnforcementSpec /\ Fairness

-----------------------------------------------------------------------------
(* Properties *)

\* A token that was revoked when its check began is not accepted, whatever fails
\* meanwhile and whatever the breaker does (EnsureNotRevoked, failClosed).
RevokedNeverAccepted ==
  \A c \in Checks : check[c].verdict = "ok" => ~check[c].late

\* While the circuit is half open a check is in flight whose outcome will move it
\* on: without one every later check would be refused for good (allow,
\* EnsureNotRevoked).
HalfOpenHasTrial ==
  state = "half_open" => \E c \in Checks : check[c].pc # "idle"

\* The circuit is away from closed exactly when the failures since the last
\* success have reached the threshold, outcomes of overtaken checks included
\* (recordSuccess, recordFailure).
TrippedAtThreshold == state = "closed" <=> fails < FailureThreshold

\* When lookups stop failing, the circuit closes and stays closed: neither an
\* overtaken check nor a trial can leave it open or half open (allow,
\* recordSuccess, recordFailure).
Recovers ==
  (<>[][\A c \in Checks : ~LookupFails(c)]_enforcementVars) => <>[](state = "closed")
=============================================================================
