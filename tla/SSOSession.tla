----------------------------- MODULE SSOSession -----------------------------
(***************************************************************************)
(* The SSO sessions of one flow.  A sign-in finds a session to reuse, or   *)
(* authenticates and saves a checkpoint into a session; either way the     *)
(* application becomes a participant of the session and its tokens carry a *)
(* token family.  Sign-out, the revocation of a subject and the detachment *)
(* of an application end sessions and revoke the families they list.       *)
(*                                                                         *)
(* Every statement is a step, and so is every transaction whose reads do   *)
(* not matter.  Transactions run at the default isolation of the database, *)
(* read committed on PostgreSQL: a sign-out may miss what is committed     *)
(* after it has read.  There are no foreign keys.                          *)
(*                                                                         *)
(* A join is one submission that reaches the session node of an execution, *)
(* and stands for what is generated in it: its token family, and the       *)
(* session, handle and cookie if it mints one.                             *)
(***************************************************************************)
EXTENDS Naturals, FiniteSets

CONSTANTS
  Joins,              \* submissions
  First,              \* the submission of a login that is over
  Executions,         \* flow executions
  ExecutionOf,        \* the execution of a submission
  AppOf,              \* the application that an execution signs in to
  Subjects,
  SignOuts,           \* sign-out requests
  SubjectRevocations, \* revocations of a subject
  Detachments,        \* detachments of an application
  None,
  Idle, Absolute, ActivityRefresh,   \* timeouts
  MaxEnds,            \* bound on the ends that are started
  MaxTime             \* bound on the clock

Ends == SignOuts \cup SubjectRevocations \cup Detachments
Apps == {AppOf[e] : e \in Executions}

ASSUME SSOSessionConstants ==
  /\ First \in Joins
  /\ ExecutionOf \in [Joins -> Executions]
  /\ SignOuts \cap SubjectRevocations = {}
  /\ (SignOuts \cup SubjectRevocations) \cap Detachments = {}
  /\ None \notin Joins \cup Subjects \cup Ends
  /\ Idle \in Nat /\ Absolute \in Nat /\ ActivityRefresh \in Nat
  /\ ActivityRefresh < Idle /\ Idle <= Absolute

VARIABLES
  now,
  sessions,      \* SESSION, by the join that minted the session
  contexts,      \* SSO_SESSION_CONTEXT: the subject of the saved checkpoint
  participants,  \* SESSION_PARTICIPANT: the family of an application in a session
  revoked,       \* the families whose tokens are revoked
  cookie,        \* the handle the browser has
  joins,
  ends,
  notified,      \* history: how often the end of a session was told
  superseded,    \* history: families whose row went to a later sign-in to the application
  lost           \* history: families whose row an end or the sweep removed unrevoked

tables == <<sessions, contexts, participants, revoked>>
historyVars == <<notified, superseded, lost>>
vars == <<now, tables, cookie, joins, ends, historyVars>>

-----------------------------------------------------------------------------

Session ==
  [subject: Subjects, execution: Executions,
   authenticatedAt: Nat, lastActive: Nat, idle: Nat, absolute: Nat, version: Nat]

\* hint: the handle that the check shared.  target: the session to join, with its
\* version and lastActive as they were read.  at: when the subject authenticated.
\* session: the one the tokens name.
Join ==
  [pc: {"new", "authenticate", "target", "insert", "reread", "touch", "save",
        "slide", "record", "issue", "done", "failed"},
   subject: Subjects \cup {None}, hint: Joins \cup {None}, target: Joins \cup {None},
   version: Nat, lastActive: Nat, at: Nat, session: Joins \cup {None}]

\* listed: what was read before it ends.  granted: history, the tokens of the session
\* when the sign-out found it.
End ==
  [pc: {"new", "list", "end", "done", "failed"}, session: Joins \cup {None},
   subject: Subjects \cup {None}, app: Apps \cup {None},
   listed: SUBSET (Joins \X Joins), granted: SUBSET Joins]

TypeOK ==
  /\ now \in Nat
  /\ sessions \in [Joins -> Session \cup {None}]
  /\ contexts \in [Joins -> Subjects \cup {None}]
  /\ participants \in [Joins -> [Apps -> Joins \cup {None}]]
  /\ revoked \subseteq Joins
  /\ cookie \in Joins \cup {None}
  /\ joins \in [Joins -> Join]
  /\ ends \in [Ends -> End]
  /\ notified \in [Joins -> Nat]
  /\ superseded \subseteq Joins
  /\ lost \subseteq Joins \X (Ends \cup {None})

NewJoin ==
  [pc |-> "new", subject |-> None, hint |-> None, target |-> None,
   version |-> 0, lastActive |-> 0, at |-> 0, session |-> None]

NewEnd ==
  [pc |-> "new", session |-> None, subject |-> None, app |-> None,
   listed |-> {}, granted |-> {}]

NoParticipants == [a \in Apps |-> None]

App(j) == AppOf[ExecutionOf[j]]

\* Minted by j for the subject u.
NewSession(j, u) ==
  [subject |-> u, execution |-> ExecutionOf[j], authenticatedAt |-> now, lastActive |-> now,
   idle |-> now + Idle, absolute |-> now + Absolute, version |-> 1]

\* The tokens of a join are issued to u and name the session s.
Done(u, s) == [NewJoin EXCEPT !.pc = "done", !.subject = u, !.session = s]

\* A login is over.
Init ==
  /\ now = 1
  /\ \E u \in Subjects :
       /\ sessions = [s \in Joins |-> IF s = First THEN NewSession(First, u) ELSE None]
       /\ contexts = [s \in Joins |-> IF s = First THEN u ELSE None]
       /\ joins = [j \in Joins |-> IF j = First THEN Done(u, First) ELSE NewJoin]
  /\ participants = [s \in Joins |-> IF s = First THEN [NoParticipants EXCEPT ![App(First)] = First]
                                     ELSE NoParticipants]
  /\ revoked = {}
  /\ cookie = First
  /\ ends = [e \in Ends |-> NewEnd]
  /\ notified = [s \in Joins |-> 0]
  /\ superseded = {}
  /\ lost = {}

Exists(s) == s # None /\ sessions[s] # None
Live(s) == Exists(s) /\ now < sessions[s].idle /\ now < sessions[s].absolute
Granted(j) == joins[j].pc = "done"
Families(s) == {participants[s][a] : a \in Apps} \ {None}

\* GetByExecutionID: FLOW_EXECUTION_ID is unique.
SessionOf(e) ==
  IF \E s \in Joins : Exists(s) /\ sessions[s].execution = e
  THEN CHOOSE s \in Joins : Exists(s) /\ sessions[s].execution = e
  ELSE None

Becomes(j, new) == joins' = [joins EXCEPT ![j] = new]
Goes(j, pc) == joins' = [joins EXCEPT ![j].pc = pc]

\* j leaves the Session node with s as the session of its tokens.
Leaves(j, s) == Becomes(j, [Done(joins[j].subject, s) EXCEPT !.pc = "issue"])

-----------------------------------------------------------------------------
(* The SSO-Check node *)

\* Resolve and FindCheckpoint.  The browser may be another one, the flow another
\* version; prompt, max_age or the organization unit may ask to authenticate again.
CheckSession(j) ==
  /\ joins[j].pc = "new"
  /\ \/ Goes(j, "authenticate")
     \/ /\ Live(cookie)
        /\ Becomes(j, [NewJoin EXCEPT !.pc = "authenticate", !.hint = cookie])
     \/ /\ Live(cookie) /\ contexts[cookie] # None
        /\ Becomes(j, [NewJoin EXCEPT !.pc = "slide", !.subject = contexts[cookie],
                                      !.target = cookie,
                                      !.version = sessions[cookie].version,
                                      !.lastActive = sessions[cookie].lastActive])
  /\ UNCHANGED <<now, tables, cookie, ends, historyVars>>

\* The nodes between: the user signs in.
Authenticate(j) ==
  /\ joins[j].pc = "authenticate"
  /\ \E u \in Subjects : Becomes(j, [joins[j] EXCEPT !.pc = "target", !.subject = u])
  /\ UNCHANGED <<now, tables, cookie, ends, historyVars>>

-----------------------------------------------------------------------------
(* The Session node saves a checkpoint *)

\* TouchAuthenticatedAt is called with the time it is now.
Attaches(j, s) == Becomes(j, [joins[j] EXCEPT !.pc = "touch", !.hint = None, !.target = s, !.at = now])

SameSubjectAssumed(j, s) == TRUE
SameSubject(j, s) == sessions[s].subject = joins[j].subject

\* targetSession: the session of the hint, whose deadlines are not looked at, or of
\* the execution.  That of another subject is left alone, and the login goes on.
FindTarget(j) ==
  /\ joins[j].pc = "target"
  /\ LET hint == joins[j].hint
         s == IF hint # None THEN (IF Exists(hint) THEN hint ELSE None)
              ELSE SessionOf(ExecutionOf[j])
     IN \/ s = None /\ Becomes(j, [joins[j] EXCEPT !.pc = "insert", !.hint = None])
        \/ s # None /\ SameSubject(j, s) /\ Attaches(j, s)
        \/ s # None /\ ~SameSubject(j, s) /\ Leaves(j, None)
  /\ UNCHANGED <<now, tables, cookie, ends, historyVars>>

\* establishSession: Create does nothing if the execution has a session.
InsertSession(j) ==
  /\ joins[j].pc = "insert"
  /\ sessions' = IF SessionOf(ExecutionOf[j]) # None THEN sessions
                 ELSE [sessions EXCEPT ![j] = NewSession(j, joins[j].subject)]
  /\ Goes(j, "reread")
  /\ UNCHANGED <<now, contexts, participants, revoked, cookie, ends, historyVars>>

\* establishSession returns the session of the execution, whoever minted it.
RereadSession(j) ==
  /\ joins[j].pc = "reread"
  /\ LET s == SessionOf(ExecutionOf[j])
     IN \/ s = None /\ Leaves(j, None)
        \/ s = j /\ Becomes(j, [joins[j] EXCEPT !.pc = "save", !.target = j])
        \/ s \notin {None, j} /\ Attaches(j, s)
  /\ UNCHANGED <<now, tables, cookie, ends, historyVars>>

\* The session s as an activity at t leaves it.
ActiveAt(s, t) ==
  [sessions[s] EXCEPT !.lastActive = t, !.idle = t + Idle, !.version = sessions[s].version + 1]

\* The guard of TouchAuthenticatedAt.  Its failure is logged.
TouchesAlways(j) == Exists(joins[j].target)
Touches(j) ==
  /\ Exists(joins[j].target)
  /\ sessions[joins[j].target].authenticatedAt <= joins[j].at

TouchSession(j) ==
  /\ joins[j].pc = "touch"
  /\ \/ /\ Touches(j)
        /\ sessions' = [sessions EXCEPT ![joins[j].target] =
             [ActiveAt(joins[j].target, joins[j].at) EXCEPT !.authenticatedAt = joins[j].at]]
     \/ sessions' = sessions
  /\ Becomes(j, [joins[j] EXCEPT !.pc = "save", !.at = 0])
  /\ UNCHANGED <<now, contexts, participants, revoked, cookie, ends, historyVars>>

\* recordParticipant: the row of the application takes the new family.
Records(j) ==
  /\ participants' = [participants EXCEPT ![joins[j].target][App(j)] = j]
  /\ superseded' = superseded \cup ({participants[joins[j].target][App(j)]} \ {None})

\* CreateContext and recordParticipant in one transaction.  When it fails the login
\* goes on, with its family, and its tokens name no session.
SaveCheckpoint(j) ==
  /\ joins[j].pc = "save"
  /\ \/ /\ contexts' = [contexts EXCEPT ![joins[j].target] = joins[j].subject]
        /\ Records(j)
        /\ Leaves(j, joins[j].target)
     \/ /\ Leaves(j, None)
        /\ UNCHANGED <<contexts, participants, superseded>>
  /\ UNCHANGED <<now, sessions, revoked, cookie, ends, notified, lost>>

-----------------------------------------------------------------------------
(* The Session node loads a checkpoint *)

\* The activity refresh with the session that the check read, under its version;
\* throttled, and only logged when it fails.
SlideSession(j) ==
  LET s == joins[j].target IN
  /\ joins[j].pc = "slide"
  /\ \/ /\ now - joins[j].lastActive >= ActivityRefresh
        /\ Exists(s) /\ sessions[s].version = joins[j].version
        /\ sessions' = [sessions EXCEPT ![s] = ActiveAt(s, now)]
     \/ sessions' = sessions
  /\ Becomes(j, [joins[j] EXCEPT !.pc = "record", !.version = 0, !.lastActive = 0])
  /\ UNCHANGED <<now, contexts, participants, revoked, cookie, ends, historyVars>>

\* The participant must be recorded, or the flow fails.
RecordParticipant(j) ==
  /\ joins[j].pc = "record"
  /\ \/ /\ Records(j)
        /\ Leaves(j, joins[j].target)
     \/ /\ Becomes(j, [NewJoin EXCEPT !.pc = "failed"])
        /\ UNCHANGED <<participants, superseded>>
  /\ UNCHANGED <<now, sessions, contexts, revoked, cookie, ends, notified, lost>>

\* The flow ends and the tokens are issued.  The browser gets a cookie for a session
\* that this join has minted and saved.
IssueGrantEarlyCookie(j) ==
  /\ joins[j].pc = "issue"
  /\ Becomes(j, Done(joins[j].subject, joins[j].session))
  /\ cookie' = IF Exists(j) THEN j ELSE cookie
  /\ UNCHANGED <<now, tables, ends, historyVars>>
IssueGrant(j) ==
  /\ joins[j].pc = "issue"
  /\ Becomes(j, Done(joins[j].subject, joins[j].session))
  /\ cookie' = IF joins[j].session = j THEN j ELSE cookie
  /\ UNCHANGED <<now, tables, ends, historyVars>>

\* A refresh of the tokens calls SlideIdleDeadline.
RecordActivity(j) ==
  LET s == joins[j].session IN
  /\ Granted(j)
  /\ Live(s)
  /\ sessions[s].lastActive + ActivityRefresh <= now
  /\ sessions' = [sessions EXCEPT ![s] = ActiveAt(s, now)]
  /\ UNCHANGED <<now, contexts, participants, revoked, cookie, joins, ends, historyVars>>

-----------------------------------------------------------------------------
(* The end of sessions *)

EndBecomes(e, new) == ends' = [ends EXCEPT ![e] = new]
MayStart(e) ==
  /\ ends[e].pc = "new"
  /\ Cardinality({f \in Ends : ends[f].pc # "new"}) < MaxEnds

\* The sessions `ss` go with their contexts and participants, by e, which revokes
\* `families` in the same transaction.
Removes(e, ss, families) ==
  /\ revoked' = revoked \cup families
  /\ lost' = lost \cup (((UNION {Families(s) : s \in ss}) \ revoked') \X {e})
  /\ sessions' = [s \in Joins |-> IF s \in ss THEN None ELSE sessions[s]]
  /\ contexts' = [s \in Joins |-> IF s \in ss THEN None ELSE contexts[s]]
  /\ participants' = [s \in Joins |-> IF s \in ss THEN NoParticipants ELSE participants[s]]

\* Only the node that removed the row notifies.
NotifiesAll(ss) == notified' = [s \in Joins |-> IF s \in ss THEN notified[s] + 1 ELSE notified[s]]
Notifies(ss) ==
  notified' = [s \in Joins |-> IF s \in ss /\ Exists(s) THEN notified[s] + 1 ELSE notified[s]]

\* Terminate finds the session of the handle.
FindSession(o) ==
  /\ MayStart(o)
  /\ Exists(cookie)
  /\ EndBecomes(o, [NewEnd EXCEPT !.pc = "list", !.session = cookie,
       !.granted = {j \in Joins : Granted(j) /\ joins[j].session = cookie}])
  /\ UNCHANGED <<now, tables, cookie, joins, historyVars>>

\* Its transaction reads the participants ...
ListParticipantsOfApp(o) ==
  /\ ends[o].pc = "list"
  /\ EndBecomes(o, [ends[o] EXCEPT !.pc = "end",
       !.listed = {ends[o].session} \X {f \in Families(ends[o].session) : f = ends[o].session}])
  /\ UNCHANGED <<now, tables, cookie, joins, historyVars>>
ListParticipants(o) ==
  /\ ends[o].pc = "list"
  /\ EndBecomes(o, [ends[o] EXCEPT !.pc = "end",
       !.listed = {ends[o].session} \X Families(ends[o].session)])
  /\ UNCHANGED <<now, tables, cookie, joins, historyVars>>

\* ... and revokes and deletes.
Terminate(o) ==
  /\ ends[o].pc = "end"
  /\ Removes(o, {ends[o].session}, {l[2] : l \in ends[o].listed})
  /\ Notifies({ends[o].session})
  /\ EndBecomes(o, [NewEnd EXCEPT !.pc = "done", !.granted = ends[o].granted])
  /\ UNCHANGED <<now, cookie, joins, superseded>>

\* CriteriaRevocationExecutor revokes what the subject has been issued ...
RevokeSubject(e) ==
  /\ MayStart(e)
  /\ \E u \in Subjects :
       /\ EndBecomes(e, [NewEnd EXCEPT !.pc = "list", !.subject = u])
       /\ revoked' = revoked \cup {j \in Joins : Granted(j) /\ joins[j].subject = u}
  /\ UNCHANGED <<now, sessions, contexts, participants, cookie, joins, historyVars>>

\* ... before TerminateBySubject lists the sessions ...
ListSessions(e) ==
  /\ ends[e].pc = "list"
  /\ LET ss == {s \in Joins : Exists(s) /\ sessions[s].subject = ends[e].subject}
     IN EndBecomes(e, [ends[e] EXCEPT !.pc = "end", !.listed = {<<s, s>> : s \in ss}])
  /\ UNCHANGED <<now, tables, cookie, joins, historyVars>>

\* ... and deletes them in a transaction.
TerminateBySubject(e) ==
  /\ ends[e].pc = "end"
  /\ LET ss == {l[1] : l \in ends[e].listed} IN Removes(e, ss, {}) /\ Notifies(ss)
  /\ EndBecomes(e, [NewEnd EXCEPT !.pc = "done"])
  /\ UNCHANGED <<now, cookie, joins, superseded>>

\* DetachApplication lists the rows of the application ...
ListParticipations(e) ==
  /\ MayStart(e)
  /\ \E a \in Apps :
       EndBecomes(e, [NewEnd EXCEPT !.pc = "end", !.app = a,
         !.listed = {<<s, participants[s][a]>> : s \in {t \in Joins : participants[t][a] # None}}])
  /\ UNCHANGED <<now, tables, cookie, joins, historyVars>>

\* ... revokes the families it has listed and deletes the rows, whatever family they
\* have by now, and the sessions that are left with none.
DetachApplication(e) ==
  LET a == ends[e].app
      ss == {l[1] : l \in ends[e].listed}
      left == [s \in Joins |-> IF s \in ss THEN [participants[s] EXCEPT ![a] = None]
                               ELSE participants[s]]
      empty == {s \in ss : left[s] = NoParticipants}
  IN
  /\ ends[e].pc = "end"
  /\ revoked' = revoked \cup {l[2] : l \in ends[e].listed}
  /\ lost' = lost \cup (({participants[s][a] : s \in ss} \ (revoked' \cup {None})) \X {e})
  /\ participants' = left
  /\ sessions' = [s \in Joins |-> IF s \in empty THEN None ELSE sessions[s]]
  /\ contexts' = [s \in Joins |-> IF s \in empty THEN None ELSE contexts[s]]
  /\ EndBecomes(e, [NewEnd EXCEPT !.pc = "done"])
  /\ UNCHANGED <<now, cookie, joins, notified, superseded>>

\* A call fails; a transaction is rolled back.
EndFails(e) ==
  /\ ends[e].pc \in {"list", "end"}
  /\ EndBecomes(e, [NewEnd EXCEPT !.pc = "failed"])
  /\ UNCHANGED <<now, tables, cookie, joins, historyVars>>

\* cleanup_expired_runtime_persistent_data removes a session past its absolute
\* deadline with its contexts and participants.
CleanUp ==
  /\ \E s \in Joins : Exists(s) /\ sessions[s].absolute <= now /\ Removes(None, {s}, {})
  /\ UNCHANGED <<now, cookie, joins, ends, notified, superseded>>

Tick ==
  /\ now < MaxTime
  /\ now' = now + 1
  /\ UNCHANGED <<tables, cookie, joins, ends, historyVars>>

Next ==
  \/ \E j \in Joins :
       \/ CheckSession(j) \/ Authenticate(j)
       \/ FindTarget(j) \/ InsertSession(j) \/ RereadSession(j)
       \/ TouchSession(j) \/ SaveCheckpoint(j)
       \/ SlideSession(j) \/ RecordParticipant(j)
       \/ IssueGrant(j) \/ RecordActivity(j)
  \/ \E e \in SignOuts : FindSession(e) \/ ListParticipants(e) \/ Terminate(e)
  \/ \E e \in SubjectRevocations : RevokeSubject(e) \/ ListSessions(e) \/ TerminateBySubject(e)
  \/ \E e \in Detachments : ListParticipations(e) \/ DetachApplication(e)
  \/ \E e \in Ends : EndFails(e)
  \/ CleanUp
  \/ Tick

Spec == Init /\ [][Next]_vars

-----------------------------------------------------------------------------
(* Properties *)

(***************************************************************************)
(* A sign-out takes the grants of the login with it: every token issued    *)
(* under the session when the sign-out found it is revoked once it is      *)
(* done.  What escapes is a family whose row a later sign-in to the same   *)
(* application took over, and one whose row another end, or the sweep of   *)
(* expired sessions, had removed without revoking it.                      *)
(***************************************************************************)
SignOutTakesGrants ==
  \A o \in SignOuts :
    ends[o].pc = "done" =>
      \A f \in ends[o].granted :
        f \in revoked \cup superseded \/ \E e \in (Ends \cup {None}) \ {o} : <<f, e>> \in lost

(***************************************************************************)
(* The end of a session is told to the listeners once, however many        *)
(* sign-outs and revocations of its subject end it at the same time.       *)
(***************************************************************************)
NotifiedOnce == \A s \in Joins : notified[s] <= 1

(***************************************************************************)
(* The checkpoint saved in a session, which a reuse takes its user from,   *)
(* is of the subject of the session.                                       *)
(***************************************************************************)
CheckpointOfSubject ==
  \A s \in Joins : Exists(s) /\ contexts[s] # None => contexts[s] = sessions[s].subject

\* Two submissions of one execution have authenticated different users.
SplitExecution(e) ==
  \E j, k \in Joins :
    /\ ExecutionOf[j] = e /\ ExecutionOf[k] = e
    /\ joins[j].subject # joins[k].subject /\ None \notin {joins[j].subject, joins[k].subject}

(***************************************************************************)
(* The same as long as the submissions of the session's execution agree on *)
(* the user: no other sign-in, with whatever handle, gets a checkpoint of  *)
(* another user into it, although it was ended and minted anew meanwhile.  *)
(***************************************************************************)
SessionHasOneSubject ==
  \A s \in Joins :
    Exists(s) /\ contexts[s] # None /\ ~SplitExecution(ExecutionOf[s]) =>
      contexts[s] = sessions[s].subject

(***************************************************************************)
(* The browser is never given the handle of a session without a            *)
(* checkpoint, although the save may fail and other submissions join.      *)
(***************************************************************************)
CookieHasCheckpoint == Exists(cookie) => contexts[cookie] # None

(***************************************************************************)
(* The authentication time of a session never goes back: not when an older *)
(* authentication is recorded late, nor when an activity refresh writes    *)
(* what it read before.                                                    *)
(***************************************************************************)
AuthTimeNeverGoesBack ==
  [][\A s \in Joins : Exists(s) /\ Exists(s)' =>
       sessions[s].authenticatedAt <= sessions'[s].authenticatedAt]_vars
=============================================================================
