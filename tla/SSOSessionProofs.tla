-------------------------- MODULE SSOSessionProofs --------------------------
(***************************************************************************)
(* Proofs about SSOSession: the types, and what SSOSession states of       *)
(* sign-outs, notifications, checkpoints, the cookie and the time of       *)
(* authentication, for any number of submissions, executions, subjects and *)
(* ends of sessions that run at the same time.                             *)
(***************************************************************************)
EXTENDS SSOSession, TLAPS

\* A submission that has minted no session yet.
Early == {"new", "authenticate", "target", "insert"}

\* It has a target.
Bound == {"touch", "save", "slide", "record"}

JoinInv(j) ==
  /\ joins[j].pc \notin {"new", "authenticate", "failed"} => joins[j].subject \in Subjects
  /\ joins[j].pc \in Bound => joins[j].target \in Joins

EndInv(e) ==
  /\ e \in SignOuts /\ ends[e].pc \in {"list", "end"} => ends[e].session \in Joins
  /\ e \in Detachments /\ ends[e].pc = "end" => ends[e].app \in Apps

\* A session is minted once, for the user of the submission that mints it.
MintInv(s) ==
  /\ joins[s].pc \in Early => contexts[s] = None /\ notified[s] = 0
  /\ notified[s] <= 1
  /\ Exists(s) =>
       /\ notified[s] = 0
       /\ joins[s].pc \notin Early \cup {"slide", "record", "failed"}
       /\ sessions[s].subject = joins[s].subject /\ sessions[s].execution = ExecutionOf[s]

TargetInv(j) == joins[j].pc \in Bound => joins[joins[j].target].pc \notin Early

\* The session of the handle s is gone for good or has a checkpoint.
Checkpointed(s) == joins[s].pc \notin Early /\ (Exists(s) => contexts[s] # None)

CookieInv ==
  /\ cookie # None => Checkpointed(cookie)
  /\ \A j \in Joins :
       /\ joins[j].pc \in {"slide", "record"} => Checkpointed(joins[j].target)
       /\ joins[j].pc \in {"issue", "done"} /\ joins[j].session # None =>
            Checkpointed(joins[j].session)

\* Whoever saves a checkpoint is the subject of the session or submits to the
\* execution that minted it.
SaverInv(j) ==
  joins[j].pc \in {"touch", "save"} /\ Exists(joins[j].target) =>
    \/ joins[j].subject = sessions[joins[j].target].subject
    \/ ExecutionOf[j] = ExecutionOf[joins[j].target]

SubjectInv(s) ==
  Exists(s) /\ contexts[s] # None =>
    \/ contexts[s] = sessions[s].subject
    \/ \E j \in Joins : /\ ExecutionOf[j] = ExecutionOf[s] /\ joins[j].subject = contexts[s]
                        /\ joins[j].pc \in {"issue", "done"}

\* A family whose row was taken over, or went with an end other than o.
Elsewhere(f, o) ==
  f \in revoked \cup superseded \/ \E e \in (Ends \cup {None}) \ {o} : <<f, e>> \in lost

Accounted(f) == f \in revoked \cup superseded \/ \E e \in Ends \cup {None} : <<f, e>> \in lost

FamilyInv(f) ==
  joins[f].pc \in {"issue", "done"} /\ joins[f].session # None =>
    participants[joins[f].session][App(f)] = f \/ Accounted(f)

SignOutInv(o) ==
  /\ ends[o].pc # "done" => \A f \in Joins : <<f, o>> \notin lost
  /\ ends[o].pc = "list" =>
       \A f \in ends[o].granted : Granted(f) /\ joins[f].session = ends[o].session
  /\ ends[o].pc = "end" =>
       \A f \in ends[o].granted : (\E l \in ends[o].listed : l[2] = f) \/ Elsewhere(f, o)
  /\ ends[o].pc = "done" => \A f \in ends[o].granted : Elsewhere(f, o)

-----------------------------------------------------------------------------
(* What the steps of a submission do to it *)

\* A submission that goes on from the Session node, or ends in failure.
Out(u, s) == [Done(u, s) EXCEPT !.pc = "issue"]
Failed == [NewJoin EXCEPT !.pc = "failed"]

LEMMA JoinValues ==
  ASSUME NEW u \in Subjects \cup {None}, NEW s \in Joins \cup {None}
  PROVE  /\ Done(u, s) \in Join /\ Done(u, s).pc = "done" /\ Done(u, s).subject = u
         /\ Done(u, s).session = s
         /\ Out(u, s) \in Join /\ Out(u, s).pc = "issue" /\ Out(u, s).subject = u
         /\ Out(u, s).session = s
         /\ Failed \in Join /\ Failed.pc = "failed"
         /\ NewJoin \in Join /\ NewJoin.pc = "new"
BY DEF Done, Out, Failed, NewJoin, Join

Moves(j) ==
  joins' \in [Joins -> Join] /\ \A k \in Joins \ {j} : joins'[k] = joins[k]

LEMMA BecomesFacts ==
  ASSUME TypeOK, NEW j \in Joins, NEW new \in Join, Becomes(j, new)
  PROVE  Moves(j) /\ joins'[j] = new
BY DEF TypeOK, Becomes, Moves

LEMMA GoesFacts ==
  ASSUME TypeOK, NEW j \in Joins, NEW pc \in {"authenticate", "reread"}, Goes(j, pc)
  PROVE  /\ Moves(j) /\ joins'[j].pc = pc /\ joins'[j].subject = joins[j].subject
<1>1. joins \in [Joins -> Join] /\ joins[j] \in Join
  BY DEF TypeOK
<1>2. joins' = [joins EXCEPT ![j] = [joins[j] EXCEPT !.pc = pc]]
  BY DEF Goes
<1>3. [joins[j] EXCEPT !.pc = pc] \in Join
  BY <1>1 DEF Join
<1>4. joins'[j] = [joins[j] EXCEPT !.pc = pc]
  BY <1>1, <1>2
<1> QED
  BY <1>1, <1>2, <1>3, <1>4 DEF Moves, Join

LEMMA LeavesFacts ==
  ASSUME TypeOK, NEW j \in Joins, NEW s \in Joins \cup {None}, Leaves(j, s)
  PROVE  /\ Moves(j) /\ joins'[j].pc = "issue" /\ joins'[j].subject = joins[j].subject
         /\ joins'[j].session = s
<1>1. joins[j].subject \in Subjects \cup {None}
  BY DEF TypeOK, Join
<1>2. Becomes(j, Out(joins[j].subject, s))
  BY DEF Leaves, Out
<1> QED
  BY <1>1, <1>2, JoinValues, BecomesFacts

LEMMA CheckFacts ==
  ASSUME TypeOK, NEW j \in Joins, CheckSession(j)
  PROVE  /\ Moves(j) /\ joins[j].pc = "new"
         /\ \/ joins'[j].pc = "authenticate"
            \/ /\ joins'[j].pc = "slide" /\ cookie \in Joins /\ Exists(cookie)
               /\ contexts[cookie] # None /\ joins'[j].target = cookie
               /\ joins'[j].subject = contexts[cookie]
<1>1. CASE Goes(j, "authenticate")
  BY <1>1, GoesFacts DEF CheckSession
<1>2. ASSUME Live(cookie) PROVE cookie \in Joins /\ Exists(cookie) /\ sessions[cookie] \in Session
  BY <1>2 DEF Live, Exists, TypeOK
<1>3. CASE Live(cookie) /\ Becomes(j, [NewJoin EXCEPT !.pc = "authenticate", !.hint = cookie])
  <2>1. [NewJoin EXCEPT !.pc = "authenticate", !.hint = cookie] \in Join
    BY <1>2, <1>3 DEF NewJoin, Join
  <2>2. joins'[j] = [NewJoin EXCEPT !.pc = "authenticate", !.hint = cookie] /\ Moves(j)
    BY <1>3, <2>1, BecomesFacts
  <2> QED BY <2>2 DEF CheckSession, NewJoin
<1>4. ASSUME Live(cookie), contexts[cookie] # None,
             Becomes(j, [NewJoin EXCEPT !.pc = "slide", !.subject = contexts[cookie],
                                        !.target = cookie,
                                        !.version = sessions[cookie].version,
                                        !.lastActive = sessions[cookie].lastActive])
      PROVE  /\ Moves(j) /\ joins'[j].pc = "slide" /\ joins'[j].target = cookie
             /\ joins'[j].subject = contexts[cookie]
  <2> DEFINE new == [NewJoin EXCEPT !.pc = "slide", !.subject = contexts[cookie],
                                    !.target = cookie,
                                    !.version = sessions[cookie].version,
                                    !.lastActive = sessions[cookie].lastActive]
  <2>1. /\ contexts[cookie] \in Subjects \cup {None} /\ cookie \in Joins
        /\ sessions[cookie].version \in Nat /\ sessions[cookie].lastActive \in Nat
    BY <1>2, <1>4 DEF TypeOK, Session
  <2>2. new \in Join
    BY <2>1 DEF NewJoin, Join
  <2>3. new.pc = "slide" /\ new.target = cookie /\ new.subject = contexts[cookie]
    BY DEF NewJoin
  <2> HIDE DEF new
  <2>4. joins'[j] = new /\ Moves(j)
    BY <1>4, <2>2, BecomesFacts DEF new
  <2> QED BY <2>3, <2>4
<1> QED
  BY <1>1, <1>2, <1>3, <1>4 DEF CheckSession

LEMMA AuthenticateFacts ==
  ASSUME TypeOK, NEW j \in Joins, Authenticate(j)
  PROVE  /\ Moves(j) /\ joins[j].pc = "authenticate"
         /\ joins'[j].pc = "target" /\ joins'[j].subject \in Subjects
<1>1. PICK u \in Subjects : Becomes(j, [joins[j] EXCEPT !.pc = "target", !.subject = u])
  BY DEF Authenticate
<1>2. joins[j] \in Join
  BY DEF TypeOK
<1>3. [joins[j] EXCEPT !.pc = "target", !.subject = u] \in Join
  BY <1>2 DEF Join
<1>4. Moves(j) /\ joins'[j] = [joins[j] EXCEPT !.pc = "target", !.subject = u]
  BY <1>1, <1>3, BecomesFacts
<1> QED
  BY <1>2, <1>4 DEF Authenticate, Join

LEMMA AttachesFacts ==
  ASSUME TypeOK, NEW j \in Joins, NEW s \in Joins, Attaches(j, s)
  PROVE  /\ Moves(j) /\ joins'[j].pc = "touch" /\ joins'[j].target = s
         /\ joins'[j].subject = joins[j].subject
<1> DEFINE new == [joins[j] EXCEPT !.pc = "touch", !.hint = None, !.target = s, !.at = now]
<1>1. joins[j] \in Join /\ now \in Nat
  BY DEF TypeOK
<1>2. new \in Join
  BY <1>1 DEF Join
<1>3. Becomes(j, new)
  BY DEF Attaches
<1>4. new.pc = "touch" /\ new.target = s /\ new.subject = joins[j].subject
  BY <1>1 DEF Join
<1> HIDE DEF new
<1> QED
  BY <1>2, <1>3, <1>4, BecomesFacts

LEMMA SessionOfFacts ==
  ASSUME NEW e
  PROVE  \/ SessionOf(e) = None
         \/ /\ SessionOf(e) \in Joins /\ Exists(SessionOf(e))
            /\ sessions[SessionOf(e)].execution = e
<1>1. CASE \E s \in Joins : Exists(s) /\ sessions[s].execution = e
  <2> DEFINE P(s) == Exists(s) /\ sessions[s].execution = e
  <2>1. \E s \in Joins : P(s)
    BY <1>1
  <2>2. SessionOf(e) = CHOOSE s \in Joins : P(s)
    BY <1>1 DEF SessionOf
  <2> HIDE DEF P
  <2>3. SessionOf(e) \in Joins /\ P(SessionOf(e))
    BY <2>1, <2>2
  <2> QED BY <2>3 DEF P
<1>2. CASE ~\E s \in Joins : Exists(s) /\ sessions[s].execution = e
  BY <1>2 DEF SessionOf
<1> QED
  BY <1>1, <1>2

LEMMA FindTargetFacts ==
  ASSUME TypeOK, NEW j \in Joins, FindTarget(j)
  PROVE  /\ Moves(j) /\ joins[j].pc = "target" /\ joins'[j].subject = joins[j].subject
         /\ \/ joins'[j].pc = "insert"
            \/ /\ joins'[j].pc = "touch" /\ joins'[j].target \in Joins
               /\ Exists(joins'[j].target)
               /\ sessions[joins'[j].target].subject = joins[j].subject
            \/ joins'[j].pc = "issue" /\ joins'[j].session = None
<1>0. joins[j] \in Join
  BY DEF TypeOK
<1> DEFINE s == IF joins[j].hint # None
                THEN (IF Exists(joins[j].hint) THEN joins[j].hint ELSE None)
                ELSE SessionOf(ExecutionOf[j])
<1>1. s = None \/ (s \in Joins /\ Exists(s))
  <2>1. joins[j].hint \in Joins \cup {None}
    BY <1>0 DEF Join
  <2>2. CASE joins[j].hint # None
    BY <2>1, <2>2
  <2>3. CASE joins[j].hint = None
    BY <2>3, SessionOfFacts
  <2> QED BY <2>2, <2>3
<1>2. /\ joins[j].pc = "target"
      /\ \/ s = None /\ Becomes(j, [joins[j] EXCEPT !.pc = "insert", !.hint = None])
         \/ s # None /\ SameSubject(j, s) /\ Attaches(j, s)
         \/ s # None /\ ~SameSubject(j, s) /\ Leaves(j, None)
  BY DEF FindTarget
<1> HIDE DEF s
<1>3. CASE Becomes(j, [joins[j] EXCEPT !.pc = "insert", !.hint = None])
  <2>1. [joins[j] EXCEPT !.pc = "insert", !.hint = None] \in Join
    BY <1>0 DEF Join
  <2>2. Moves(j) /\ joins'[j] = [joins[j] EXCEPT !.pc = "insert", !.hint = None]
    BY <1>3, <2>1, BecomesFacts
  <2> QED BY <1>0, <1>2, <2>2 DEF Join
<1>4. CASE s # None /\ SameSubject(j, s) /\ Attaches(j, s)
  <2>1. /\ Moves(j) /\ joins'[j].pc = "touch" /\ joins'[j].target = s
        /\ joins'[j].subject = joins[j].subject
    BY <1>1, <1>4, AttachesFacts
  <2> QED BY <1>1, <1>2, <1>4, <2>1 DEF SameSubject
<1>5. CASE Leaves(j, None)
  BY <1>2, <1>5, LeavesFacts
<1> QED
  BY <1>2, <1>3, <1>4, <1>5

LEMMA RereadFacts ==
  ASSUME TypeOK, NEW j \in Joins, RereadSession(j)
  PROVE  /\ Moves(j) /\ joins[j].pc = "reread" /\ joins'[j].subject = joins[j].subject
         /\ \/ joins'[j].pc = "issue" /\ joins'[j].session = None
            \/ joins'[j].pc = "save" /\ joins'[j].target = j
            \/ /\ joins'[j].pc = "touch" /\ joins'[j].target \in Joins
               /\ Exists(joins'[j].target)
               /\ sessions[joins'[j].target].execution = ExecutionOf[j]
<1>0. joins[j] \in Join
  BY DEF TypeOK
<1> DEFINE s == SessionOf(ExecutionOf[j])
<1>1. s = None \/ (s \in Joins /\ Exists(s) /\ sessions[s].execution = ExecutionOf[j])
  BY SessionOfFacts
<1>2. /\ joins[j].pc = "reread"
      /\ \/ s = None /\ Leaves(j, None)
         \/ s = j /\ Becomes(j, [joins[j] EXCEPT !.pc = "save", !.target = j])
         \/ s \notin {None, j} /\ Attaches(j, s)
  BY DEF RereadSession
<1> HIDE DEF s
<1>3. CASE Leaves(j, None)
  BY <1>2, <1>3, LeavesFacts
<1>4. CASE Becomes(j, [joins[j] EXCEPT !.pc = "save", !.target = j])
  <2>1. [joins[j] EXCEPT !.pc = "save", !.target = j] \in Join
    BY <1>0 DEF Join
  <2>2. Moves(j) /\ joins'[j] = [joins[j] EXCEPT !.pc = "save", !.target = j]
    BY <1>4, <2>1, BecomesFacts
  <2> QED BY <1>0, <1>2, <2>2 DEF Join
<1>5. CASE s # None /\ Attaches(j, s)
  BY <1>1, <1>2, <1>5, AttachesFacts
<1> QED
  BY <1>2, <1>3, <1>4, <1>5

LEMMA TouchFacts ==
  ASSUME TypeOK, NEW j \in Joins, TouchSession(j)
  PROVE  /\ Moves(j) /\ joins[j].pc = "touch" /\ joins'[j].pc = "save"
         /\ joins'[j].subject = joins[j].subject /\ joins'[j].target = joins[j].target
<1>0. joins[j] \in Join
  BY DEF TypeOK
<1>1. [joins[j] EXCEPT !.pc = "save", !.at = 0] \in Join
  BY <1>0 DEF Join
<1>2. Moves(j) /\ joins'[j] = [joins[j] EXCEPT !.pc = "save", !.at = 0]
  BY <1>1, BecomesFacts DEF TouchSession
<1> QED
  BY <1>0, <1>2 DEF TouchSession, Join

LEMMA SlideFacts ==
  ASSUME TypeOK, NEW j \in Joins, SlideSession(j)
  PROVE  /\ Moves(j) /\ joins[j].pc = "slide" /\ joins'[j].pc = "record"
         /\ joins'[j].subject = joins[j].subject /\ joins'[j].target = joins[j].target
<1>0. joins[j] \in Join
  BY DEF TypeOK
<1> DEFINE new == [joins[j] EXCEPT !.pc = "record", !.version = 0, !.lastActive = 0]
<1>1. new \in Join
  BY <1>0 DEF Join
<1>2. Becomes(j, new) /\ joins[j].pc = "slide"
  BY DEF SlideSession
<1>3. new.pc = "record" /\ new.subject = joins[j].subject /\ new.target = joins[j].target
  BY <1>0 DEF Join
<1> HIDE DEF new
<1> QED
  BY <1>1, <1>2, <1>3, BecomesFacts

LEMMA SaveFacts ==
  ASSUME TypeOK, NEW j \in Joins, JoinInv(j), SaveCheckpoint(j)
  PROVE  /\ Moves(j) /\ joins[j].pc = "save" /\ joins[j].target \in Joins
         /\ joins'[j].pc = "issue" /\ joins'[j].subject = joins[j].subject
         /\ joins'[j].session \in {None, joins[j].target}
<1>1. joins[j].pc = "save" /\ joins[j].target \in Joins
  BY DEF SaveCheckpoint, JoinInv, Bound
<1> QED
  BY <1>1, LeavesFacts DEF SaveCheckpoint

LEMMA RecordFacts ==
  ASSUME TypeOK, NEW j \in Joins, JoinInv(j), RecordParticipant(j)
  PROVE  /\ Moves(j) /\ joins[j].pc = "record" /\ joins[j].target \in Joins
         /\ \/ /\ Records(j) /\ joins'[j].pc = "issue" /\ joins'[j].subject = joins[j].subject
               /\ joins'[j].session = joins[j].target
            \/ joins'[j].pc = "failed" /\ UNCHANGED <<participants, superseded>>
<1>1. joins[j].pc = "record" /\ joins[j].target \in Joins
  BY DEF RecordParticipant, JoinInv, Bound
<1>2. CASE Records(j) /\ Leaves(j, joins[j].target)
  BY <1>1, <1>2, LeavesFacts
<1>3. CASE Becomes(j, Failed) /\ UNCHANGED <<participants, superseded>>
  BY <1>1, <1>3, JoinValues, BecomesFacts
<1> QED
  BY <1>2, <1>3 DEF RecordParticipant, Failed

LEMMA IssueFacts ==
  ASSUME TypeOK, NEW j \in Joins, IssueGrant(j)
  PROVE  /\ Moves(j) /\ joins[j].pc = "issue" /\ joins'[j].pc = "done"
         /\ joins'[j].subject = joins[j].subject /\ joins'[j].session = joins[j].session
<1>1. joins[j].subject \in Subjects \cup {None} /\ joins[j].session \in Joins \cup {None}
  BY DEF TypeOK, Join
<1>2. Becomes(j, Done(joins[j].subject, joins[j].session)) /\ joins[j].pc = "issue"
  BY DEF IssueGrant
<1> QED
  BY <1>1, <1>2, JoinValues, BecomesFacts

LEMMA InsertFacts ==
  ASSUME TypeOK, NEW j \in Joins, JoinInv(j), InsertSession(j)
  PROVE  /\ Moves(j) /\ joins[j].pc = "insert" /\ joins'[j].pc = "reread"
         /\ joins'[j].subject = joins[j].subject
         /\ sessions' \in [Joins -> Session \cup {None}]
         /\ \A s \in Joins :
              \/ sessions'[s] = sessions[s]
              \/ /\ s = j /\ sessions'[s].subject = joins[j].subject
                 /\ sessions'[s].execution = ExecutionOf[j]
<1>1. joins[j].pc = "insert" /\ Goes(j, "reread")
  BY DEF InsertSession
<1>2. /\ Moves(j) /\ joins'[j].pc = "reread" /\ joins'[j].subject = joins[j].subject
  BY <1>1, GoesFacts
<1> DEFINE new == NewSession(j, joins[j].subject)
<1>3. joins[j].subject \in Subjects /\ ExecutionOf[j] \in Executions /\ now \in Nat
  BY <1>1, SSOSessionConstants DEF JoinInv, TypeOK
<1>4. /\ new \in Session /\ new.subject = joins[j].subject /\ new.execution = ExecutionOf[j]
  BY <1>3, SSOSessionConstants DEF NewSession, Session
<1>5. sessions' = sessions \/ sessions' = [sessions EXCEPT ![j] = new]
  BY DEF InsertSession
<1>6. sessions \in [Joins -> Session \cup {None}]
  BY DEF TypeOK
<1> HIDE DEF new
<1> QED
  BY <1>1, <1>2, <1>4, <1>5, <1>6

-----------------------------------------------------------------------------
(* What the steps do to the sessions *)

\* The session s stays, with its user and its execution, and its time of
\* authentication does not go back.
Kept(s) ==
  /\ Exists(s)
  /\ sessions'[s].subject = sessions[s].subject
  /\ sessions'[s].execution = sessions[s].execution
  /\ sessions[s].authenticatedAt <= sessions'[s].authenticatedAt

Refreshed ==
  /\ sessions' \in [Joins -> Session \cup {None}]
  /\ \A s \in Joins : Exists(s)' => Kept(s)

\* A session that is written as it was, but for its times and its version.
LEMMA RefreshedFacts ==
  ASSUME TypeOK, NEW t \in Joins, Exists(t), NEW new \in Session,
         new.subject = sessions[t].subject, new.execution = sessions[t].execution,
         sessions[t].authenticatedAt <= new.authenticatedAt,
         sessions' = [sessions EXCEPT ![t] = new]
  PROVE  Refreshed
<1>1. sessions \in [Joins -> Session \cup {None}]
  BY DEF TypeOK
<1>2. sessions' \in [Joins -> Session \cup {None}]
  BY <1>1
<1>3. ASSUME NEW s \in Joins, Exists(s)' PROVE Kept(s)
  <2>1. CASE s = t
    BY <1>1, <2>1 DEF Kept
  <2>2. CASE s # t
    <3>1. sessions'[s] = sessions[s] /\ Exists(s)
      BY <1>1, <1>3, <2>2 DEF Exists
    <3>2. sessions[s] \in Session
      BY <1>1, <3>1 DEF Exists
    <3>3. sessions[s].authenticatedAt \in Nat
      BY <3>2 DEF Session
    <3> QED BY <3>1, <3>3 DEF Kept
  <2> QED BY <2>1, <2>2
<1> QED
  BY <1>2, <1>3 DEF Refreshed

LEMMA UnchangedSessions ==
  ASSUME TypeOK, sessions' = sessions
  PROVE  Refreshed
<1>1. sessions \in [Joins -> Session \cup {None}]
  BY DEF TypeOK
<1>2. ASSUME NEW s \in Joins, Exists(s)' PROVE Kept(s)
  <2>1. Exists(s) /\ sessions'[s] = sessions[s]
    BY <1>2 DEF Exists
  <2>2. sessions[s] \in Session
    BY <1>1, <2>1 DEF Exists
  <2>3. sessions[s].authenticatedAt \in Nat
    BY <2>2 DEF Session
  <2> QED BY <2>1, <2>3 DEF Kept
<1> QED
  BY <1>1, <1>2 DEF Refreshed

LEMMA ActiveAtFacts ==
  ASSUME NEW s, sessions[s] \in Session, NEW t \in Nat
  PROVE  /\ ActiveAt(s, t) \in Session
         /\ ActiveAt(s, t).subject = sessions[s].subject
         /\ ActiveAt(s, t).execution = sessions[s].execution
         /\ ActiveAt(s, t).authenticatedAt = sessions[s].authenticatedAt
<1>1. sessions[s].version \in Nat
  BY DEF Session
<1>2. sessions[s].version + 1 \in Nat /\ t + Idle \in Nat
  BY <1>1, SSOSessionConstants
<1>3. PICK v \in Nat, d \in Nat : v = sessions[s].version + 1 /\ d = t + Idle
  BY <1>2
<1>4. ActiveAt(s, t) = [sessions[s] EXCEPT !.lastActive = t, !.idle = d, !.version = v]
  BY <1>3 DEF ActiveAt
<1> QED
  BY <1>4 DEF Session

LEMMA TouchRefreshes ==
  ASSUME TypeOK, NEW j \in Joins, JoinInv(j), TouchSession(j)
  PROVE  Refreshed
<1> DEFINE t == joins[j].target
           new == [ActiveAt(t, joins[j].at) EXCEPT !.authenticatedAt = joins[j].at]
<1>1. CASE Touches(j) /\ sessions' = [sessions EXCEPT ![t] = new]
  <2>1. t \in Joins /\ joins[j].at \in Nat
    BY DEF TouchSession, JoinInv, Bound, TypeOK, Join
  <2>2. Exists(t) /\ sessions[t].authenticatedAt <= joins[j].at
    BY <1>1 DEF Touches
  <2>3. sessions[t] \in Session
    BY <2>1, <2>2 DEF TypeOK, Exists
  <2>4. PICK r \in Session : /\ r = ActiveAt(t, joins[j].at)
                             /\ r.subject = sessions[t].subject
                             /\ r.execution = sessions[t].execution
    BY <2>1, <2>3, ActiveAtFacts
  <2>5. /\ new \in Session /\ new.subject = r.subject /\ new.execution = r.execution
        /\ new.authenticatedAt = joins[j].at
    BY <2>1, <2>4 DEF Session
  <2> HIDE DEF new, t
  <2> QED
    BY <1>1, <2>1, <2>2, <2>4, <2>5, RefreshedFacts
<1>2. CASE sessions' = sessions
  BY <1>2, UnchangedSessions
<1> QED
  BY <1>1, <1>2 DEF TouchSession

LEMMA ActivityRefreshes ==
  ASSUME TypeOK, NEW t \in Joins, Exists(t), sessions' = [sessions EXCEPT ![t] = ActiveAt(t, now)]
  PROVE  Refreshed
<1>1. sessions[t] \in Session /\ now \in Nat
  BY DEF TypeOK, Exists
<1>2. sessions[t].authenticatedAt <= sessions[t].authenticatedAt
  BY <1>1 DEF Session
<1> QED
  BY <1>1, <1>2, ActiveAtFacts, RefreshedFacts

LEMMA SlideRefreshes ==
  ASSUME TypeOK, NEW j \in Joins, JoinInv(j), SlideSession(j)
  PROVE  Refreshed
<1>1. joins[j].target \in Joins
  BY DEF SlideSession, JoinInv, Bound
<1> QED
  BY <1>1, ActivityRefreshes, UnchangedSessions DEF SlideSession

LEMMA RecordActivityRefreshes ==
  ASSUME TypeOK, NEW j \in Joins, RecordActivity(j)
  PROVE  Refreshed
<1>1. joins[j].session \in Joins \cup {None} /\ Exists(joins[j].session)
  BY DEF RecordActivity, Live, TypeOK, Join
<1>2. joins[j].session \in Joins
  BY <1>1 DEF Exists
<1> QED
  BY <1>1, <1>2, ActivityRefreshes DEF RecordActivity

-----------------------------------------------------------------------------
(* What the ends of sessions do *)

\* Rows go by e: what is left of a session is as it was, and a family that loses its
\* row is revoked or counted as lost.
Cleared(e) ==
  /\ sessions' \in [Joins -> Session \cup {None}]
  /\ contexts' \in [Joins -> Subjects \cup {None}]
  /\ participants' \in [Joins -> [Apps -> Joins \cup {None}]]
  /\ revoked' \subseteq Joins /\ revoked \subseteq revoked'
  /\ lost' \subseteq Joins \X (Ends \cup {None}) /\ lost \subseteq lost'
  /\ \A l \in lost' \ lost : l[2] = e
  /\ \A s \in Joins : Exists(s)' => sessions'[s] = sessions[s] /\ contexts'[s] = contexts[s]
  /\ \A s \in Joins : contexts'[s] \in {contexts[s], None}
  /\ \A s \in Joins, a \in Apps :
       \/ participants'[s][a] = participants[s][a]
       \/ participants[s][a] \in revoked' \cup {None}
       \/ <<participants[s][a], e>> \in lost'

LEMMA FamiliesAreJoins ==
  ASSUME TypeOK, NEW s \in Joins
  PROVE  Families(s) \subseteq Joins
BY DEF TypeOK, Families

LEMMA NoParticipantsType == NoParticipants \in [Apps -> Joins \cup {None}]
BY DEF NoParticipants

LEMMA RemovesFacts ==
  ASSUME TypeOK, NEW e \in Ends \cup {None}, NEW ss \in SUBSET Joins, NEW families \in SUBSET Joins,
         Removes(e, ss, families)
  PROVE  /\ Cleared(e) /\ revoked' = revoked \cup families
         /\ \A s \in ss : ~Exists(s)'
<1>1. /\ revoked' = revoked \cup families
      /\ lost' = lost \cup (((UNION {Families(s) : s \in ss}) \ revoked') \X {e})
      /\ sessions' = [s \in Joins |-> IF s \in ss THEN None ELSE sessions[s]]
      /\ contexts' = [s \in Joins |-> IF s \in ss THEN None ELSE contexts[s]]
      /\ participants' = [s \in Joins |-> IF s \in ss THEN NoParticipants ELSE participants[s]]
  BY DEF Removes
<1>2. UNION {Families(s) : s \in ss} \subseteq Joins
  BY FamiliesAreJoins
<1>3. /\ sessions' \in [Joins -> Session \cup {None}]
      /\ contexts' \in [Joins -> Subjects \cup {None}]
      /\ revoked' \subseteq Joins /\ revoked \subseteq revoked'
  BY <1>1 DEF TypeOK
<1>4. participants' \in [Joins -> [Apps -> Joins \cup {None}]]
  BY <1>1, NoParticipantsType DEF TypeOK
<1>5. /\ lost' \subseteq Joins \X (Ends \cup {None}) /\ lost \subseteq lost'
      /\ \A l \in lost' \ lost : l[2] = e
  <2>1. lost \subseteq Joins \X (Ends \cup {None})
    BY DEF TypeOK
  <2>2. PICK F \in SUBSET Joins : lost' = lost \cup (F \X {e})
    BY <1>1, <1>2
  <2> QED BY <2>1, <2>2
<1>6. \A s \in Joins : Exists(s)' => sessions'[s] = sessions[s] /\ contexts'[s] = contexts[s]
  BY <1>1 DEF Exists
<1>7. /\ \A s \in Joins : contexts'[s] \in {contexts[s], None}
      /\ \A s \in ss : ~Exists(s)'
  BY <1>1 DEF Exists
<1>8. ASSUME NEW s \in Joins, NEW a \in Apps,
             participants'[s][a] # participants[s][a],
             participants[s][a] \notin revoked' \cup {None}
      PROVE  <<participants[s][a], e>> \in lost'
  <2>1. s \in ss
    BY <1>1, <1>8
  <2>2. participants[s][a] \in Families(s)
    BY <1>8 DEF Families
  <2>3. PICK F : F = (UNION {Families(t) : t \in ss}) \ revoked' /\ lost' = lost \cup (F \X {e})
    BY <1>1
  <2>4. PICK f : f = participants[s][a] /\ f \in Families(s) /\ f \notin revoked'
    BY <1>8, <2>2
  <2>5. f \in UNION {Families(t) : t \in ss}
    BY <2>1, <2>4
  <2>6. f \in F
    BY <2>3, <2>4, <2>5
  <2>7. <<f, e>> \in F \X {e}
    BY <2>6
  <2> QED BY <2>3, <2>4, <2>7
<1> QED
  BY <1>1, <1>3, <1>4, <1>5, <1>6, <1>7, <1>8 DEF Cleared

EndMoves(e) ==
  ends' \in [Ends -> End] /\ \A d \in Ends \ {e} : ends'[d] = ends[d]

LEMMA EndBecomesFacts ==
  ASSUME TypeOK, NEW e \in Ends, NEW new \in End, EndBecomes(e, new)
  PROVE  EndMoves(e) /\ ends'[e] = new
BY DEF TypeOK, EndBecomes, EndMoves

LEMMA FindSessionFacts ==
  ASSUME TypeOK, NEW o \in Ends, FindSession(o)
  PROVE  /\ EndMoves(o) /\ ends[o].pc = "new" /\ ends'[o].pc = "list"
         /\ ends'[o].session = cookie /\ cookie \in Joins
         /\ ends'[o].granted = {j \in Joins : Granted(j) /\ joins[j].session = cookie}
<1> DEFINE g == {j \in Joins : Granted(j) /\ joins[j].session = cookie}
           new == [NewEnd EXCEPT !.pc = "list", !.session = cookie, !.granted = g]
<1>1. cookie \in Joins
  BY DEF FindSession, Exists, TypeOK
<1>2. EndBecomes(o, new) /\ ends[o].pc = "new"
  BY DEF FindSession, MayStart
<1>3. g \in SUBSET Joins
  OBVIOUS
<1> HIDE DEF g
<1>4. new \in End /\ new.pc = "list" /\ new.session = cookie /\ new.granted = g
  BY <1>1, <1>3 DEF NewEnd, End
<1> HIDE DEF new
<1> QED
  BY <1>1, <1>2, <1>4, EndBecomesFacts DEF g

LEMMA ListParticipantsFacts ==
  ASSUME TypeOK, NEW o \in SignOuts, EndInv(o), ListParticipants(o)
  PROVE  /\ EndMoves(o) /\ ends[o].pc = "list" /\ ends'[o].pc = "end"
         /\ ends[o].session \in Joins
         /\ ends'[o].session = ends[o].session /\ ends'[o].granted = ends[o].granted
         /\ ends'[o].listed = {ends[o].session} \X Families(ends[o].session)
<1> DEFINE l == {ends[o].session} \X Families(ends[o].session)
           new == [ends[o] EXCEPT !.pc = "end", !.listed = l]
<1>1. o \in Ends /\ ends[o] \in End
  BY DEF TypeOK, Ends
<1>2. EndBecomes(o, new) /\ ends[o].pc = "list"
  BY DEF ListParticipants
<1>3. ends[o].session \in Joins
  BY <1>2 DEF EndInv
<1>4. l \in SUBSET (Joins \X Joins)
  BY <1>3, FamiliesAreJoins
<1> HIDE DEF l
<1>5. new \in End
  BY <1>1, <1>4 DEF End
<1>6. /\ new.pc = "end" /\ new.session = ends[o].session /\ new.granted = ends[o].granted
      /\ new.listed = l
  BY <1>1 DEF End
<1> HIDE DEF new
<1> QED
  BY <1>1, <1>2, <1>3, <1>5, <1>6, EndBecomesFacts DEF l

\* An end that is over.
LEMMA OverFacts ==
  ASSUME NEW g \in SUBSET Joins, NEW pc \in {"done", "failed"}
  PROVE  /\ [NewEnd EXCEPT !.pc = pc] \in End /\ [NewEnd EXCEPT !.pc = pc].pc = pc
         /\ [NewEnd EXCEPT !.pc = pc, !.granted = g] \in End
         /\ [NewEnd EXCEPT !.pc = pc, !.granted = g].pc = pc
         /\ [NewEnd EXCEPT !.pc = pc, !.granted = g].granted = g
BY DEF NewEnd, End

LEMMA NotifiesFacts ==
  ASSUME TypeOK, NEW ss, Notifies(ss)
  PROVE  /\ notified' \in [Joins -> Nat]
         /\ \A s \in Joins : \/ notified'[s] = notified[s]
                             \/ s \in ss /\ Exists(s) /\ notified'[s] = notified[s] + 1
BY DEF TypeOK, Notifies

LEMMA TerminateFacts ==
  ASSUME TypeOK, NEW o \in SignOuts, EndInv(o), Terminate(o)
  PROVE  /\ EndMoves(o) /\ ends[o].pc = "end" /\ ends'[o].pc = "done"
         /\ ends'[o].granted = ends[o].granted
         /\ Cleared(o) /\ \A l \in ends[o].listed : l[2] \in revoked'
         /\ notified' \in [Joins -> Nat]
         /\ \A s \in Joins : \/ notified'[s] = notified[s]
                             \/ ~Exists(s)' /\ Exists(s) /\ notified'[s] = notified[s] + 1
<1>1. o \in Ends /\ ends[o] \in End /\ ends[o].pc = "end"
  BY DEF TypeOK, Ends, Terminate
<1>2. ends[o].session \in Joins
  BY <1>1 DEF EndInv
<1>3. ends[o].listed \in SUBSET (Joins \X Joins) /\ ends[o].granted \in SUBSET Joins
  BY <1>1 DEF End
<1> DEFINE fs == {l[2] : l \in ends[o].listed}
<1>4. fs \in SUBSET Joins
  BY <1>3
<1>5. Removes(o, {ends[o].session}, fs) /\ Notifies({ends[o].session})
  BY DEF Terminate
<1>6. \A l \in ends[o].listed : l[2] \in fs
  OBVIOUS
<1> HIDE DEF fs
<1>7. Cleared(o) /\ revoked' = revoked \cup fs /\ \A s \in {ends[o].session} : ~Exists(s)'
  BY <1>1, <1>2, <1>4, <1>5, RemovesFacts
<1>8. /\ notified' \in [Joins -> Nat]
      /\ \A s \in Joins : \/ notified'[s] = notified[s]
                          \/ /\ s \in {ends[o].session} /\ Exists(s)
                             /\ notified'[s] = notified[s] + 1
  BY <1>5, NotifiesFacts
<1>9. EndMoves(o) /\ ends'[o].pc = "done" /\ ends'[o].granted = ends[o].granted
  <2>1. PICK new \in End : /\ EndBecomes(o, new)
                           /\ new.pc = "done" /\ new.granted = ends[o].granted
    BY <1>3, OverFacts DEF Terminate
  <2> QED BY <1>1, <2>1, EndBecomesFacts
<1> QED
  BY <1>1, <1>6, <1>7, <1>8, <1>9

LEMMA RevokeSubjectFacts ==
  ASSUME TypeOK, NEW e \in Ends, RevokeSubject(e)
  PROVE  /\ EndMoves(e) /\ ends[e].pc = "new" /\ ends'[e].pc = "list"
         /\ revoked' \subseteq Joins /\ revoked \subseteq revoked'
<1>1. PICK u \in Subjects :
        /\ EndBecomes(e, [NewEnd EXCEPT !.pc = "list", !.subject = u])
        /\ revoked' = revoked \cup {j \in Joins : Granted(j) /\ joins[j].subject = u}
  BY DEF RevokeSubject
<1>2. PICK new \in End : EndBecomes(e, new) /\ new.pc = "list"
  <2>1. /\ [NewEnd EXCEPT !.pc = "list", !.subject = u] \in End
        /\ [NewEnd EXCEPT !.pc = "list", !.subject = u].pc = "list"
    BY DEF NewEnd, End
  <2> QED BY <1>1, <2>1
<1>3. EndMoves(e) /\ ends'[e].pc = "list"
  BY <1>2, EndBecomesFacts
<1>4. ends[e].pc = "new"
  BY DEF RevokeSubject, MayStart
<1>5. revoked' \subseteq Joins /\ revoked \subseteq revoked'
  BY <1>1 DEF TypeOK
<1> QED
  BY <1>3, <1>4, <1>5

LEMMA ListSessionsFacts ==
  ASSUME TypeOK, NEW e \in Ends, ListSessions(e)
  PROVE  EndMoves(e) /\ ends[e].pc = "list" /\ ends'[e].pc = "end"
<1> DEFINE ss == {s \in Joins : Exists(s) /\ sessions[s].subject = ends[e].subject}
           l == {<<s, s>> : s \in ss}
           new == [ends[e] EXCEPT !.pc = "end", !.listed = l]
<1>1. EndBecomes(e, new) /\ ends[e].pc = "list" /\ ends[e] \in End
  BY DEF ListSessions, TypeOK
<1>2. ss \in SUBSET Joins
  OBVIOUS
<1> HIDE DEF ss
<1>3. l \in SUBSET (Joins \X Joins)
  BY <1>2
<1> HIDE DEF l
<1>4. new \in End /\ new.pc = "end"
  BY <1>1, <1>3 DEF End
<1> HIDE DEF new
<1> QED
  BY <1>1, <1>4, EndBecomesFacts

LEMMA TerminateBySubjectFacts ==
  ASSUME TypeOK, NEW e \in Ends, TerminateBySubject(e)
  PROVE  /\ EndMoves(e) /\ ends[e].pc = "end" /\ ends'[e].pc = "done"
         /\ Cleared(e)
         /\ notified' \in [Joins -> Nat]
         /\ \A s \in Joins : \/ notified'[s] = notified[s]
                             \/ ~Exists(s)' /\ Exists(s) /\ notified'[s] = notified[s] + 1
<1>1. ends[e] \in End /\ ends[e].pc = "end"
  BY DEF TypeOK, TerminateBySubject
<1>2. ends[e].listed \in SUBSET (Joins \X Joins)
  BY <1>1 DEF End
<1> DEFINE ss == {l[1] : l \in ends[e].listed}
<1>3. ss \in SUBSET Joins
  BY <1>2
<1>4. Removes(e, ss, {}) /\ Notifies(ss)
  BY DEF TerminateBySubject
<1> HIDE DEF ss
<1>5. Cleared(e) /\ \A s \in ss : ~Exists(s)'
  BY <1>3, <1>4, RemovesFacts
<1>6. /\ notified' \in [Joins -> Nat]
      /\ \A s \in Joins : \/ notified'[s] = notified[s]
                          \/ s \in ss /\ Exists(s) /\ notified'[s] = notified[s] + 1
  BY <1>4, NotifiesFacts
<1>7. EndMoves(e) /\ ends'[e].pc = "done"
  <2>1. PICK new \in End : EndBecomes(e, new) /\ new.pc = "done"
    BY OverFacts DEF TerminateBySubject
  <2> QED BY <2>1, EndBecomesFacts
<1> QED
  BY <1>1, <1>5, <1>6, <1>7

LEMMA ListParticipationsFacts ==
  ASSUME TypeOK, NEW e \in Ends, ListParticipations(e)
  PROVE  EndMoves(e) /\ ends[e].pc = "new" /\ ends'[e].pc = "end" /\ ends'[e].app \in Apps
<1>1. PICK a \in Apps :
        EndBecomes(e, [NewEnd EXCEPT !.pc = "end", !.app = a,
          !.listed = {<<s, participants[s][a]>> : s \in {t \in Joins : participants[t][a] # None}}])
  BY DEF ListParticipations
<1> DEFINE l == {<<s, participants[s][a]>> : s \in {t \in Joins : participants[t][a] # None}}
           new == [NewEnd EXCEPT !.pc = "end", !.app = a, !.listed = l]
<1>2. l \in SUBSET (Joins \X Joins)
  BY DEF TypeOK
<1>3. EndBecomes(e, new) /\ ends[e].pc = "new"
  BY <1>1 DEF ListParticipations, MayStart
<1> HIDE DEF l
<1>4. new \in End /\ new.pc = "end" /\ new.app = a
  BY <1>2 DEF NewEnd, End
<1> HIDE DEF new
<1> QED
  BY <1>3, <1>4, EndBecomesFacts

LEMMA DetachFacts ==
  ASSUME TypeOK, NEW e \in Detachments, EndInv(e), DetachApplication(e)
  PROVE  EndMoves(e) /\ ends[e].pc = "end" /\ ends'[e].pc = "done" /\ Cleared(e)
<1>1. e \in Ends /\ ends[e] \in End /\ ends[e].pc = "end"
  BY DEF TypeOK, Ends, DetachApplication
<1>2. ends[e].listed \in SUBSET (Joins \X Joins) /\ ends[e].app \in Apps
  BY <1>1 DEF End, EndInv
<1> DEFINE a == ends[e].app
           ss == {l[1] : l \in ends[e].listed}
           fs == {l[2] : l \in ends[e].listed}
           left == [s \in Joins |-> IF s \in ss THEN [participants[s] EXCEPT ![a] = None]
                                    ELSE participants[s]]
           empty == {s \in ss : left[s] = NoParticipants}
           F == {participants[s][a] : s \in ss} \ (revoked' \cup {None})
<1>3. ss \in SUBSET Joins /\ fs \in SUBSET Joins
  BY <1>2
<1>4. /\ revoked' = revoked \cup fs
      /\ lost' = lost \cup (F \X {e})
      /\ participants' = left
      /\ sessions' = [s \in Joins |-> IF s \in empty THEN None ELSE sessions[s]]
      /\ contexts' = [s \in Joins |-> IF s \in empty THEN None ELSE contexts[s]]
  BY DEF DetachApplication
<1>5. EndMoves(e) /\ ends'[e].pc = "done"
  <2>1. PICK new \in End : EndBecomes(e, new) /\ new.pc = "done"
    BY OverFacts DEF DetachApplication
  <2> QED BY <1>1, <2>1, EndBecomesFacts
<1> HIDE DEF ss, fs
<1>6. left \in [Joins -> [Apps -> Joins \cup {None}]]
  BY <1>2 DEF TypeOK
<1>7. F \in SUBSET Joins
  BY <1>2, <1>3 DEF TypeOK
<1>8. ASSUME NEW s \in Joins, NEW b \in Apps,
             participants'[s][b] # participants[s][b],
             participants[s][b] \notin revoked' \cup {None}
      PROVE  <<participants[s][b], e>> \in lost'
  <2>1. participants[s] \in [Apps -> Joins \cup {None}]
    BY DEF TypeOK
  <2>2. s \in ss /\ b = a
    BY <1>4, <1>8, <2>1
  <2>3. participants[s][b] \in F
    BY <1>8, <2>2
  <2> HIDE DEF F
  <2> QED BY <1>4, <2>3
<1> HIDE DEF left, empty, F
<1>9. /\ sessions' \in [Joins -> Session \cup {None}]
      /\ contexts' \in [Joins -> Subjects \cup {None}]
      /\ participants' \in [Joins -> [Apps -> Joins \cup {None}]]
      /\ revoked' \subseteq Joins /\ revoked \subseteq revoked'
  BY <1>3, <1>4, <1>6 DEF TypeOK
<1>10. /\ lost' \subseteq Joins \X (Ends \cup {None}) /\ lost \subseteq lost'
       /\ \A l \in lost' \ lost : l[2] = e
  <2>1. lost \subseteq Joins \X (Ends \cup {None})
    BY DEF TypeOK
  <2> QED BY <1>1, <1>4, <1>7, <2>1
<1>11. \A s \in Joins : Exists(s)' => sessions'[s] = sessions[s] /\ contexts'[s] = contexts[s]
  BY <1>4 DEF Exists
<1>12. \A s \in Joins : contexts'[s] \in {contexts[s], None}
  BY <1>4
<1> QED
  BY <1>1, <1>5, <1>8, <1>9, <1>10, <1>11, <1>12 DEF Cleared

LEMMA EndFailsFacts ==
  ASSUME TypeOK, NEW e \in Ends, EndFails(e)
  PROVE  EndMoves(e) /\ ends[e].pc \in {"list", "end"} /\ ends'[e].pc = "failed"
<1>1. PICK new \in End : EndBecomes(e, new) /\ new.pc = "failed"
  BY OverFacts DEF EndFails
<1>2. ends[e].pc \in {"list", "end"}
  BY DEF EndFails
<1> QED
  BY <1>1, <1>2, EndBecomesFacts

LEMMA CleanUpFacts ==
  ASSUME TypeOK, CleanUp
  PROVE  Cleared(None)
<1>1. PICK s \in Joins : Removes(None, {s}, {})
  BY DEF CleanUp
<1> QED
  BY <1>1, RemovesFacts

LEMMA AppIsApp ==
  ASSUME NEW j \in Joins
  PROVE  App(j) \in Apps
BY SSOSessionConstants DEF App, Apps

LEMMA RecordsFacts ==
  ASSUME TypeOK, NEW j \in Joins, joins[j].target \in Joins, Records(j)
  PROVE  /\ participants' \in [Joins -> [Apps -> Joins \cup {None}]]
         /\ participants'[joins[j].target][App(j)] = j
         /\ superseded' \subseteq Joins /\ superseded \subseteq superseded'
         /\ \A s \in Joins, a \in Apps :
              \/ participants'[s][a] = participants[s][a]
              \/ participants[s][a] \in superseded' \cup {None}
<1>1. PICK t \in Joins : t = joins[j].target
  OBVIOUS
<1>2. PICK b \in Apps : b = App(j)
  BY AppIsApp
<1>3. participants \in [Joins -> [Apps -> Joins \cup {None}]]
  BY DEF TypeOK
<1>4. /\ participants' = [participants EXCEPT ![t] = [participants[t] EXCEPT ![b] = j]]
      /\ superseded' = superseded \cup ({participants[t][b]} \ {None})
  BY <1>1, <1>2 DEF Records
<1>5. participants' \in [Joins -> [Apps -> Joins \cup {None}]] /\ participants'[t][b] = j
  BY <1>3, <1>4
<1>6. superseded' \subseteq Joins /\ superseded \subseteq superseded'
  BY <1>3, <1>4 DEF TypeOK
<1>7. ASSUME NEW s \in Joins, NEW a \in Apps
      PROVE  participants'[s][a] = participants[s][a] \/ participants[s][a] \in superseded' \cup {None}
  <2>1. CASE s = t /\ a = b
    BY <1>4, <2>1
  <2>2. CASE ~(s = t /\ a = b)
    BY <1>3, <1>4, <2>2
  <2> QED BY <2>1, <2>2
<1> QED
  BY <1>1, <1>2, <1>5, <1>6, <1>7

-----------------------------------------------------------------------------
(* Types *)

Typed == TypeOK /\ (\A j \in Joins : JoinInv(j)) /\ (\A e \in Ends : EndInv(e))

LEMMA JoinInvMoves ==
  ASSUME \A k \in Joins : JoinInv(k), NEW j \in Joins, Moves(j), JoinInv(j)'
  PROVE  (\A k \in Joins : JoinInv(k))'
BY DEF Moves, JoinInv

LEMMA EndInvMoves ==
  ASSUME \A d \in Ends : EndInv(d), NEW e \in Ends, EndMoves(e), EndInv(e)'
  PROVE  (\A d \in Ends : EndInv(d))'
BY DEF EndMoves, EndInv

LEMMA EndKinds ==
  /\ SignOuts \subseteq Ends /\ SubjectRevocations \subseteq Ends /\ Detachments \subseteq Ends
  /\ \A e \in SubjectRevocations : e \notin SignOuts /\ e \notin Detachments
  /\ \A e \in Detachments : e \notin SignOuts
BY SSOSessionConstants DEF Ends

LEMMA TypedInit == ASSUME Init PROVE Typed
<1>1. PICK u \in Subjects :
        /\ sessions = [s \in Joins |-> IF s = First THEN NewSession(First, u) ELSE None]
        /\ contexts = [s \in Joins |-> IF s = First THEN u ELSE None]
        /\ joins = [j \in Joins |-> IF j = First THEN Done(u, First) ELSE NewJoin]
  BY DEF Init
<1>2. First \in Joins /\ ExecutionOf[First] \in Executions /\ App(First) \in Apps
  BY SSOSessionConstants, AppIsApp
<1>3. /\ Done(u, First) \in Join /\ Done(u, First).pc = "done" /\ Done(u, First).subject = u
      /\ NewJoin \in Join /\ NewJoin.pc = "new"
  BY <1>2, JoinValues
<1>4. now = 1
  BY DEF Init
<1>5. NewSession(First, u) \in Session
  BY <1>2, <1>4, SSOSessionConstants DEF NewSession, Session
<1>6. joins \in [Joins -> Join] /\ sessions \in [Joins -> Session \cup {None}]
  BY <1>1, <1>3, <1>5
<1>7. participants \in [Joins -> [Apps -> Joins \cup {None}]]
  <2>1. [NoParticipants EXCEPT ![App(First)] = First] \in [Apps -> Joins \cup {None}]
    BY <1>2, NoParticipantsType
  <2> QED BY <2>1, NoParticipantsType DEF Init
<1>8. NewEnd \in End /\ NewEnd.pc = "new"
  BY DEF NewEnd, End
<1>9. TypeOK
  BY <1>1, <1>2, <1>4, <1>6, <1>7, <1>8 DEF Init, TypeOK
<1>10. \A j \in Joins : JoinInv(j)
  BY <1>1, <1>3 DEF JoinInv, Bound
<1>11. \A e \in Ends : EndInv(e)
  BY <1>8 DEF Init, EndInv
<1> QED
  BY <1>9, <1>10, <1>11 DEF Typed

\* What a submission leaves alone.
LEMMA TypedJoin ==
  ASSUME Typed, NEW j \in Joins, Moves(j), JoinInv(j)', UNCHANGED <<ends, now, notified, lost, revoked>>,
         sessions' \in [Joins -> Session \cup {None}],
         contexts' \in [Joins -> Subjects \cup {None}],
         participants' \in [Joins -> [Apps -> Joins \cup {None}]],
         superseded' \subseteq Joins, cookie' \in Joins \cup {None}
  PROVE  Typed'
<1>1. (\A k \in Joins : JoinInv(k))'
  BY JoinInvMoves DEF Typed
<1>2. (\A e \in Ends : EndInv(e))'
  BY DEF Typed, EndInv
<1>3. TypeOK'
  BY DEF Typed, TypeOK, Moves
<1> QED
  BY <1>1, <1>2, <1>3 DEF Typed

\* What an end leaves alone.
LEMMA TypedEnd ==
  ASSUME Typed, NEW e \in Ends, EndMoves(e), EndInv(e)', UNCHANGED <<now, cookie, joins, superseded>>,
         \/ UNCHANGED <<sessions, contexts, participants, lost>> /\ revoked' \subseteq Joins
         \/ Cleared(e),
         notified' \in [Joins -> Nat]
  PROVE  Typed'
<1>1. (\A d \in Ends : EndInv(d))'
  BY EndInvMoves DEF Typed
<1>2. (\A j \in Joins : JoinInv(j))'
  BY DEF Typed, JoinInv
<1>3. TypeOK'
  BY DEF Typed, TypeOK, EndMoves, Cleared
<1> QED
  BY <1>1, <1>2, <1>3 DEF Typed

LEMMA TypedNext == ASSUME Typed, [Next]_vars PROVE Typed'
<1>0. /\ TypeOK /\ (\A j \in Joins : JoinInv(j)) /\ (\A e \in Ends : EndInv(e))
  BY DEF Typed
<1> USE <1>0
<1>1. ASSUME NEW j \in Joins, CheckSession(j) PROVE Typed'
  <2>1. JoinInv(j)'
    BY <1>1, CheckFacts DEF JoinInv, Bound, TypeOK
  <2> QED BY <1>1, <2>1, CheckFacts, TypedJoin DEF CheckSession, tables, historyVars, TypeOK
<1>2. ASSUME NEW j \in Joins, Authenticate(j) PROVE Typed'
  <2>1. JoinInv(j)'
    BY <1>2, AuthenticateFacts DEF JoinInv, Bound
  <2> QED BY <1>2, <2>1, AuthenticateFacts, TypedJoin DEF Authenticate, tables, historyVars, TypeOK
<1>3. ASSUME NEW j \in Joins, FindTarget(j) PROVE Typed'
  <2>1. JoinInv(j)'
    BY <1>3, FindTargetFacts DEF JoinInv, Bound
  <2> QED BY <1>3, <2>1, FindTargetFacts, TypedJoin DEF FindTarget, tables, historyVars, TypeOK
<1>4. ASSUME NEW j \in Joins, InsertSession(j) PROVE Typed'
  <2>1. JoinInv(j)'
    BY <1>4, InsertFacts DEF JoinInv, Bound
  <2> QED BY <1>4, <2>1, InsertFacts, TypedJoin DEF InsertSession, historyVars, TypeOK
<1>5. ASSUME NEW j \in Joins, RereadSession(j) PROVE Typed'
  <2>1. JoinInv(j)'
    BY <1>5, RereadFacts DEF JoinInv, Bound
  <2> QED BY <1>5, <2>1, RereadFacts, TypedJoin DEF RereadSession, tables, historyVars, TypeOK
<1>6. ASSUME NEW j \in Joins, TouchSession(j) PROVE Typed'
  <2>1. JoinInv(j)'
    BY <1>6, TouchFacts DEF JoinInv, Bound
  <2>2. sessions' \in [Joins -> Session \cup {None}]
    BY <1>6, TouchRefreshes DEF Refreshed
  <2> QED BY <1>6, <2>1, <2>2, TouchFacts, TypedJoin DEF TouchSession, historyVars, TypeOK
<1>7. ASSUME NEW j \in Joins, SaveCheckpoint(j) PROVE Typed'
  <2>1. JoinInv(j)' /\ Moves(j)
    BY <1>7, SaveFacts DEF JoinInv, Bound
  <2>2. joins[j].target \in Joins /\ joins[j].subject \in Subjects
    BY <1>7 DEF SaveCheckpoint, JoinInv, Bound
  <2>3. contexts' \in [Joins -> Subjects \cup {None}]
    BY <1>7, <2>2 DEF SaveCheckpoint, TypeOK
  <2>4. /\ participants' \in [Joins -> [Apps -> Joins \cup {None}]]
        /\ superseded' \subseteq Joins
    BY <1>7, <2>2, RecordsFacts DEF SaveCheckpoint, TypeOK
  <2> QED BY <1>7, <2>1, <2>3, <2>4, TypedJoin DEF SaveCheckpoint, TypeOK
<1>8. ASSUME NEW j \in Joins, SlideSession(j) PROVE Typed'
  <2>1. JoinInv(j)'
    BY <1>8, SlideFacts DEF JoinInv, Bound
  <2>2. sessions' \in [Joins -> Session \cup {None}]
    BY <1>8, SlideRefreshes DEF Refreshed
  <2> QED BY <1>8, <2>1, <2>2, SlideFacts, TypedJoin DEF SlideSession, historyVars, TypeOK
<1>9. ASSUME NEW j \in Joins, RecordParticipant(j) PROVE Typed'
  <2>1. JoinInv(j)' /\ Moves(j) /\ joins[j].target \in Joins
    BY <1>9, RecordFacts DEF JoinInv, Bound
  <2>2. /\ participants' \in [Joins -> [Apps -> Joins \cup {None}]]
        /\ superseded' \subseteq Joins
    BY <1>9, <2>1, RecordsFacts DEF RecordParticipant, TypeOK
  <2> QED BY <1>9, <2>1, <2>2, TypedJoin DEF RecordParticipant, TypeOK
<1>10. ASSUME NEW j \in Joins, IssueGrant(j) PROVE Typed'
  <2>1. JoinInv(j)'
    BY <1>10, IssueFacts DEF JoinInv, Bound
  <2> QED BY <1>10, <2>1, IssueFacts, TypedJoin DEF IssueGrant, tables, historyVars, TypeOK
<1>11. ASSUME NEW j \in Joins, RecordActivity(j) PROVE Typed'
  <2>1. sessions' \in [Joins -> Session \cup {None}]
    BY <1>11, RecordActivityRefreshes DEF Refreshed
  <2>2. UNCHANGED <<now, contexts, participants, revoked, cookie, joins, ends, notified, superseded, lost>>
    BY <1>11 DEF RecordActivity, historyVars
  <2> QED BY <2>1, <2>2 DEF Typed, TypeOK, JoinInv, EndInv
<1>12. ASSUME NEW e \in SignOuts, FindSession(e) PROVE Typed'
  <2>1. EndInv(e)'
    BY <1>12, EndKinds, FindSessionFacts DEF EndInv
  <2> QED BY <1>12, <2>1, EndKinds, FindSessionFacts, TypedEnd
          DEF FindSession, tables, historyVars, TypeOK
<1>13. ASSUME NEW e \in SignOuts, ListParticipants(e) PROVE Typed'
  <2>1. EndInv(e)' /\ e \in Ends
    BY <1>13, EndKinds, ListParticipantsFacts DEF EndInv
  <2> QED BY <1>13, <2>1, ListParticipantsFacts, TypedEnd
          DEF ListParticipants, tables, historyVars, TypeOK
<1>14. ASSUME NEW e \in SignOuts, Terminate(e) PROVE Typed'
  <2>1. EndInv(e)' /\ e \in Ends
    BY <1>14, EndKinds, TerminateFacts DEF EndInv
  <2> QED BY <1>14, <2>1, TerminateFacts, TypedEnd DEF Terminate
<1>15. ASSUME NEW e \in SubjectRevocations, RevokeSubject(e) PROVE Typed'
  <2>1. EndInv(e)' /\ e \in Ends
    BY <1>15, EndKinds DEF EndInv
  <2> QED BY <1>15, <2>1, RevokeSubjectFacts, TypedEnd DEF RevokeSubject, historyVars, TypeOK
<1>16. ASSUME NEW e \in SubjectRevocations, ListSessions(e) PROVE Typed'
  <2>1. EndInv(e)' /\ e \in Ends
    BY <1>16, EndKinds DEF EndInv
  <2> QED BY <1>16, <2>1, ListSessionsFacts, TypedEnd DEF ListSessions, tables, historyVars, TypeOK
<1>17. ASSUME NEW e \in SubjectRevocations, TerminateBySubject(e) PROVE Typed'
  <2>1. EndInv(e)' /\ e \in Ends
    BY <1>17, EndKinds DEF EndInv
  <2> QED BY <1>17, <2>1, TerminateBySubjectFacts, TypedEnd DEF TerminateBySubject
<1>18. ASSUME NEW e \in Detachments, ListParticipations(e) PROVE Typed'
  <2>1. EndInv(e)' /\ e \in Ends
    BY <1>18, EndKinds, ListParticipationsFacts DEF EndInv
  <2> QED BY <1>18, <2>1, ListParticipationsFacts, TypedEnd
          DEF ListParticipations, tables, historyVars, TypeOK
<1>19. ASSUME NEW e \in Detachments, DetachApplication(e) PROVE Typed'
  <2>1. EndInv(e)' /\ e \in Ends
    BY <1>19, EndKinds, DetachFacts DEF EndInv
  <2> QED BY <1>19, <2>1, DetachFacts, TypedEnd DEF DetachApplication, TypeOK
<1>20. ASSUME NEW e \in Ends, EndFails(e) PROVE Typed'
  <2>1. EndInv(e)'
    BY <1>20, EndFailsFacts DEF EndInv
  <2> QED BY <1>20, <2>1, EndFailsFacts, TypedEnd DEF EndFails, tables, historyVars, TypeOK
<1>21. CASE CleanUp
  <2>1. Cleared(None) /\ UNCHANGED <<now, cookie, joins, ends, notified, superseded>>
    BY <1>21, CleanUpFacts DEF CleanUp
  <2> QED BY <2>1 DEF Typed, TypeOK, JoinInv, EndInv, Cleared
<1>22. CASE Tick
  BY <1>22 DEF Tick, tables, historyVars, Typed, TypeOK, JoinInv, EndInv
<1>23. CASE UNCHANGED vars
  BY <1>23 DEF vars, tables, historyVars, Typed, TypeOK, JoinInv, EndInv
<1> QED
  BY <1>1, <1>2, <1>3, <1>4, <1>5, <1>6, <1>7, <1>8, <1>9, <1>10, <1>11, <1>12, <1>13, <1>14,
     <1>15, <1>16, <1>17, <1>18, <1>19, <1>20, <1>21, <1>22, <1>23 DEF Next

(***************************************************************************)
(* SSOSession keeps its types: a submission that has passed the sign-in    *)
(* has a user and, where it needs one, a session; a sign-out that has      *)
(* found its session keeps it, and a detachment its application.           *)
(***************************************************************************)
THEOREM TypeCorrect == Spec => []TypeOK
<1>1. Init => Typed
  BY TypedInit
<1>2. Typed /\ [Next]_vars => Typed'
  BY TypedNext
<1>3. Typed => TypeOK
  BY DEF Typed
<1> QED
  BY <1>1, <1>2, <1>3, PTL DEF Spec

-----------------------------------------------------------------------------
(* The kinds of steps *)

JoinStep(j) ==
  \/ CheckSession(j) \/ Authenticate(j) \/ FindTarget(j) \/ InsertSession(j)
  \/ RereadSession(j) \/ TouchSession(j) \/ SaveCheckpoint(j) \/ SlideSession(j)
  \/ RecordParticipant(j) \/ IssueGrant(j)

\* A refresh of tokens, the clock, or nothing.
ActivityStep ==
  /\ Refreshed
  /\ UNCHANGED <<joins, contexts, cookie, participants, revoked, superseded, lost, notified>>

EndStep(e) ==
  /\ UNCHANGED <<joins, cookie, superseded>>
  /\ \/ UNCHANGED <<sessions, contexts, participants, lost, notified>> /\ revoked \subseteq revoked'
     \/ /\ Cleared(e)
        /\ \A s \in Joins : \/ notified'[s] = notified[s]
                            \/ ~Exists(s)' /\ Exists(s) /\ notified'[s] = notified[s] + 1

LEMMA StepKinds ==
  ASSUME Typed, [Next]_vars
  PROVE  \/ \E j \in Joins : JoinStep(j)
         \/ ActivityStep
         \/ \E e \in Ends \cup {None} : EndStep(e)
<1>0. /\ TypeOK /\ (\A j \in Joins : JoinInv(j)) /\ (\A e \in Ends : EndInv(e))
  BY DEF Typed
<1> USE <1>0
<1>1. ASSUME NEW j \in Joins, RecordActivity(j) PROVE ActivityStep
  BY <1>1, RecordActivityRefreshes DEF RecordActivity, historyVars, ActivityStep
<1>2. ASSUME Tick \/ UNCHANGED vars PROVE ActivityStep
  BY <1>2, UnchangedSessions DEF Tick, vars, tables, historyVars, ActivityStep
<1>3. ASSUME NEW e \in SignOuts, FindSession(e) \/ ListParticipants(e) PROVE EndStep(e)
  BY <1>3 DEF FindSession, ListParticipants, tables, historyVars, EndStep
<1>4. ASSUME NEW e \in SignOuts, Terminate(e) PROVE EndStep(e)
  <2>1. EndInv(e)
    BY EndKinds
  <2> QED BY <1>4, <2>1, TerminateFacts DEF Terminate, EndStep
<1>5. ASSUME NEW e \in SubjectRevocations, RevokeSubject(e) PROVE EndStep(e)
  BY <1>5, EndKinds, RevokeSubjectFacts DEF RevokeSubject, historyVars, EndStep
<1>6. ASSUME NEW e \in SubjectRevocations, ListSessions(e) PROVE EndStep(e)
  BY <1>6 DEF ListSessions, tables, historyVars, EndStep
<1>7. ASSUME NEW e \in SubjectRevocations, TerminateBySubject(e) PROVE EndStep(e)
  BY <1>7, EndKinds, TerminateBySubjectFacts DEF TerminateBySubject, EndStep
<1>8. ASSUME NEW e \in Detachments, ListParticipations(e) PROVE EndStep(e)
  BY <1>8 DEF ListParticipations, tables, historyVars, EndStep
<1>9. ASSUME NEW e \in Detachments, DetachApplication(e) PROVE EndStep(e)
  <2>1. EndInv(e)
    BY EndKinds
  <2>2. Cleared(e) /\ UNCHANGED <<joins, cookie, superseded, notified>>
    BY <1>9, <2>1, DetachFacts DEF DetachApplication
  <2> QED BY <2>2 DEF EndStep
<1>10. ASSUME NEW e \in Ends, EndFails(e) PROVE EndStep(e)
  BY <1>10 DEF EndFails, tables, historyVars, EndStep
<1>11. ASSUME CleanUp PROVE EndStep(None)
  <2>1. Cleared(None) /\ UNCHANGED <<joins, cookie, superseded, notified>>
    BY <1>11, CleanUpFacts DEF CleanUp
  <2> QED BY <2>1 DEF EndStep
<1> QED
  BY <1>1, <1>2, <1>3, <1>4, <1>5, <1>6, <1>7, <1>8, <1>9, <1>10, <1>11, EndKinds
  DEF Next, JoinStep

\* A submission does not return, and its user and session stay once it has them.
Advances(k) ==
  /\ joins'[k].pc \in Early => joins[k].pc \in Early
  /\ joins[k].pc \notin Early \cup {"slide", "record", "failed"} =>
       /\ joins'[k].pc \notin Early \cup {"slide", "record", "failed"}
       /\ joins'[k].subject = joins[k].subject
  /\ joins[k].pc \in {"issue", "done"} =>
       joins'[k].pc \in {"issue", "done"} /\ joins'[k].session = joins[k].session
  /\ joins[k].pc = "done" => joins'[k].pc = "done"

LEMMA JoinStepFacts ==
  ASSUME Typed, NEW j \in Joins, JoinStep(j)
  PROVE  /\ \A k \in Joins : Advances(k)
         /\ UNCHANGED <<ends, notified, lost, revoked>>
<1>0. TypeOK /\ JoinInv(j)
  BY DEF Typed
<1> USE <1>0
<1>1. UNCHANGED <<ends, notified, lost, revoked>>
  BY DEF JoinStep, CheckSession, Authenticate, FindTarget, InsertSession, RereadSession,
     TouchSession, SaveCheckpoint, SlideSession, RecordParticipant, IssueGrant, tables, historyVars
<1>2. ASSUME Moves(j), NEW k \in Joins, k # j PROVE Advances(k)
  BY <1>2 DEF Moves, Advances
<1>3. Moves(j) /\ Advances(j)
  <2>1. CASE CheckSession(j)
    BY <2>1, CheckFacts DEF Advances, Early
  <2>2. CASE Authenticate(j)
    BY <2>2, AuthenticateFacts DEF Advances, Early
  <2>3. CASE FindTarget(j)
    BY <2>3, FindTargetFacts DEF Advances, Early
  <2>4. CASE InsertSession(j)
    BY <2>4, InsertFacts DEF Advances, Early
  <2>5. CASE RereadSession(j)
    BY <2>5, RereadFacts DEF Advances, Early
  <2>6. CASE TouchSession(j)
    BY <2>6, TouchFacts DEF Advances, Early
  <2>7. CASE SaveCheckpoint(j)
    BY <2>7, SaveFacts DEF Advances, Early
  <2>8. CASE SlideSession(j)
    BY <2>8, SlideFacts DEF Advances, Early
  <2>9. CASE RecordParticipant(j)
    BY <2>9, RecordFacts DEF Advances, Early
  <2>10. CASE IssueGrant(j)
    BY <2>10, IssueFacts DEF Advances, Early
  <2> QED
    BY <2>1, <2>2, <2>3, <2>4, <2>5, <2>6, <2>7, <2>8, <2>9, <2>10 DEF JoinStep
<1> QED
  BY <1>1, <1>2, <1>3

LEMMA JoinsAdvance ==
  ASSUME Typed, [Next]_vars, NEW k \in Joins
  PROVE  Advances(k)
<1>1. CASE \E j \in Joins : JoinStep(j)
  BY <1>1, JoinStepFacts
<1>2. CASE joins' = joins
  BY <1>2 DEF Advances
<1> QED
  BY <1>1, <1>2, StepKinds DEF ActivityStep, EndStep

\* A session that is there was there before, or its submission mints it.
Mints(s) ==
  /\ joins[s].pc = "insert" /\ joins'[s].pc = "reread" /\ joins'[s].subject = joins[s].subject
  /\ sessions'[s].subject = joins[s].subject /\ sessions'[s].execution = ExecutionOf[s]

LEMMA SessionStep ==
  ASSUME Typed, [Next]_vars, NEW s \in Joins, Exists(s)'
  PROVE  Kept(s) \/ Mints(s)
<1>0. TypeOK
  BY DEF Typed
<1>1. ASSUME sessions'[s] = sessions[s] PROVE Kept(s)
  <2>1. Exists(s)
    BY <1>1 DEF Exists
  <2>2. sessions[s] \in Session
    BY <1>0, <2>1 DEF Exists, TypeOK
  <2>3. sessions[s].authenticatedAt \in Nat
    BY <2>2 DEF Session
  <2> QED BY <1>1, <2>1, <2>3 DEF Kept
<1>2. ASSUME NEW j \in Joins, JoinStep(j) PROVE Kept(s) \/ Mints(s)
  <2>0. JoinInv(j)
    BY DEF Typed
  <2>1. CASE InsertSession(j)
    BY <1>0, <1>1, <2>0, <2>1, InsertFacts DEF Mints
  <2>2. CASE TouchSession(j) \/ SlideSession(j)
    BY <1>0, <2>0, <2>2, TouchRefreshes, SlideRefreshes DEF Refreshed
  <2>3. CASE sessions' = sessions
    BY <1>1, <2>3
  <2> QED
    BY <1>2, <2>1, <2>2, <2>3
    DEF JoinStep, CheckSession, Authenticate, FindTarget, RereadSession, SaveCheckpoint,
        RecordParticipant, IssueGrant, tables
<1>3. CASE ActivityStep
  BY <1>3 DEF ActivityStep, Refreshed
<1>4. CASE \E e \in Ends \cup {None} : EndStep(e)
  BY <1>1, <1>4 DEF EndStep, Cleared
<1> QED
  BY <1>2, <1>3, <1>4, StepKinds

\* j saves its checkpoint into s.
Saves(j, s) ==
  /\ joins[j].pc = "save" /\ joins[j].target = s
  /\ joins'[j].pc = "issue" /\ joins'[j].subject = joins[j].subject
  /\ contexts'[s] = joins[j].subject

LEMMA ContextStep ==
  ASSUME Typed, [Next]_vars, NEW s \in Joins
  PROVE  \/ contexts'[s] = contexts[s]
         \/ contexts'[s] = None /\ ~Exists(s)'
         \/ \E j \in Joins : Saves(j, s)
<1>1. ASSUME NEW j \in Joins, JoinStep(j), contexts'[s] # contexts[s] PROVE Saves(j, s)
  <2>0. TypeOK /\ JoinInv(j)
    BY DEF Typed
  <2>1. SaveCheckpoint(j)
    BY <1>1
    DEF JoinStep, CheckSession, Authenticate, FindTarget, InsertSession, RereadSession,
        TouchSession, SlideSession, RecordParticipant, IssueGrant, tables
  <2>2. contexts' = [contexts EXCEPT ![joins[j].target] = joins[j].subject]
    BY <1>1, <2>1 DEF SaveCheckpoint
  <2>3. joins[j].target = s /\ contexts'[s] = joins[j].subject
    BY <1>1, <2>0, <2>2 DEF TypeOK
  <2> QED BY <2>0, <2>1, <2>3, SaveFacts DEF Saves
<1>2. CASE ActivityStep
  BY <1>2 DEF ActivityStep
<1>3. CASE \E e \in Ends \cup {None} : EndStep(e)
  BY <1>3 DEF EndStep, Cleared
<1> QED
  BY <1>1, <1>2, <1>3, StepKinds

LEMMA NotifiedStep ==
  ASSUME Typed, [Next]_vars, NEW s \in Joins
  PROVE  \/ notified'[s] = notified[s]
         \/ ~Exists(s)' /\ Exists(s) /\ notified'[s] = notified[s] + 1
<1>1. CASE \E j \in Joins : JoinStep(j)
  BY <1>1, JoinStepFacts
<1>2. CASE ActivityStep
  BY <1>2 DEF ActivityStep
<1>3. CASE \E e \in Ends \cup {None} : EndStep(e)
  BY <1>3 DEF EndStep
<1> QED
  BY <1>1, <1>2, <1>3, StepKinds

\* A submission has had its target before, has minted it, or finds it there.
LEMMA TargetStep ==
  ASSUME Typed, [Next]_vars, NEW j \in Joins, joins'[j].pc \in Bound
  PROVE  \/ /\ joins[j].pc \in Bound /\ joins'[j].target = joins[j].target
            /\ joins'[j].subject = joins[j].subject
            /\ joins'[j].pc \in {"touch", "save"} <=> joins[j].pc \in {"touch", "save"}
         \/ /\ joins[j].pc = "reread" /\ joins'[j].pc = "save" /\ joins'[j].target = j
         \/ /\ joins'[j].target \in Joins /\ Exists(joins'[j].target)
            /\ UNCHANGED <<sessions, contexts>>
            /\ \/ /\ joins'[j].pc = "touch"
                  /\ \/ sessions[joins'[j].target].subject = joins'[j].subject
                     \/ sessions[joins'[j].target].execution = ExecutionOf[j]
               \/ joins'[j].pc = "slide" /\ contexts[joins'[j].target] # None
<1>0. TypeOK /\ \A k \in Joins : JoinInv(k)
  BY DEF Typed
<1> USE <1>0
<1>1. CASE joins'[j] = joins[j]
  BY <1>1
<1>2. CASE JoinStep(j)
  <2>1. CASE CheckSession(j)
    BY <2>1, CheckFacts DEF CheckSession, tables, Bound
  <2>2. CASE Authenticate(j)
    BY <2>2, AuthenticateFacts DEF Bound
  <2>3. CASE FindTarget(j)
    BY <2>3, FindTargetFacts DEF FindTarget, tables, Bound
  <2>4. CASE InsertSession(j)
    BY <2>4, InsertFacts DEF Bound
  <2>5. CASE RereadSession(j)
    BY <2>5, RereadFacts DEF RereadSession, tables, Bound
  <2>6. CASE TouchSession(j)
    BY <2>6, TouchFacts DEF Bound
  <2>7. CASE SaveCheckpoint(j)
    BY <2>7, SaveFacts DEF Bound
  <2>8. CASE SlideSession(j)
    BY <2>8, SlideFacts DEF Bound
  <2>9. CASE RecordParticipant(j)
    BY <2>9, RecordFacts DEF Bound
  <2>10. CASE IssueGrant(j)
    BY <2>10, IssueFacts DEF Bound
  <2> QED
    BY <1>2, <2>1, <2>2, <2>3, <2>4, <2>5, <2>6, <2>7, <2>8, <2>9, <2>10 DEF JoinStep
<1>3. ASSUME NEW k \in Joins, JoinStep(k), k # j PROVE joins'[j] = joins[j]
  <2>1. Moves(k)
    BY <1>3, CheckFacts, AuthenticateFacts, FindTargetFacts, InsertFacts, RereadFacts, TouchFacts,
       SaveFacts, SlideFacts, RecordFacts, IssueFacts DEF JoinStep
  <2> QED BY <1>3, <2>1 DEF Moves
<1> QED
  BY <1>1, <1>2, <1>3, StepKinds DEF ActivityStep, EndStep

-----------------------------------------------------------------------------
(* A session is minted once *)

Minted == Typed /\ (\A s \in Joins : MintInv(s)) /\ (\A j \in Joins : TargetInv(j))

LEMMA MintedInit == ASSUME Init PROVE Minted
<1>0. Typed
  BY TypedInit
<1>1. PICK u \in Subjects :
        /\ sessions = [s \in Joins |-> IF s = First THEN NewSession(First, u) ELSE None]
        /\ contexts = [s \in Joins |-> IF s = First THEN u ELSE None]
        /\ joins = [j \in Joins |-> IF j = First THEN Done(u, First) ELSE NewJoin]
  BY DEF Init
<1>2. First \in Joins
  BY SSOSessionConstants
<1>3. /\ Done(u, First).pc = "done" /\ Done(u, First).subject = u /\ NewJoin.pc = "new"
  BY <1>2, JoinValues
<1>4. NewSession(First, u).subject = u /\ NewSession(First, u).execution = ExecutionOf[First]
  BY DEF NewSession
<1>5. \A s \in Joins : MintInv(s)
  BY <1>1, <1>2, <1>3, <1>4 DEF Init, MintInv, Exists, Early
<1>6. \A j \in Joins : TargetInv(j)
  BY <1>1, <1>3 DEF TargetInv, Bound
<1> QED
  BY <1>0, <1>5, <1>6 DEF Minted

LEMMA MintedNext == ASSUME Minted, [Next]_vars PROVE Minted'
<1>0. Typed /\ (\A s \in Joins : MintInv(s)) /\ (\A j \in Joins : TargetInv(j))
  BY DEF Minted
<1>1. Typed'
  BY <1>0, TypedNext
<1>2. ASSUME NEW s \in Joins PROVE MintInv(s)'
  <2>0. MintInv(s) /\ Advances(s) /\ notified[s] \in Nat
    BY <1>0, JoinsAdvance DEF Typed, TypeOK
  <2>1. ASSUME joins'[s].pc \in Early PROVE contexts'[s] = None /\ notified'[s] = 0
    <3>1. joins[s].pc \in Early /\ contexts[s] = None /\ notified[s] = 0 /\ ~Exists(s)
      BY <2>0, <2>1 DEF MintInv, Advances
    <3>2. notified'[s] = 0
      BY <1>0, <3>1, NotifiedStep
    <3>3. ASSUME NEW j \in Joins PROVE ~Saves(j, s)
      BY <1>0, <3>1 DEF Saves, TargetInv, Bound
    <3> QED BY <1>0, <3>1, <3>2, <3>3, ContextStep
  <2>2. notified'[s] <= 1
    BY <1>0, <2>0, NotifiedStep DEF MintInv
  <2>3. ASSUME Exists(s)'
        PROVE  /\ notified'[s] = 0
               /\ joins'[s].pc \notin Early \cup {"slide", "record", "failed"}
               /\ sessions'[s].subject = joins'[s].subject
               /\ sessions'[s].execution = ExecutionOf[s]
    <3>1. notified'[s] = notified[s]
      BY <1>0, <2>3, NotifiedStep
    <3>2. CASE Kept(s)
      BY <2>0, <3>1, <3>2 DEF Kept, MintInv, Advances
    <3>3. CASE Mints(s)
      BY <2>0, <3>1, <3>3 DEF Mints, MintInv, Early
    <3> QED BY <1>0, <2>3, <3>2, <3>3, SessionStep
  <2> QED BY <2>1, <2>2, <2>3 DEF MintInv
<1>3. ASSUME NEW j \in Joins PROVE TargetInv(j)'
  <2> SUFFICES ASSUME joins'[j].pc \in Bound PROVE joins'[joins'[j].target].pc \notin Early
    BY DEF TargetInv
  <2>1. PICK t \in Joins : t = joins'[j].target
    BY <1>1 DEF Typed, JoinInv
  <2>2. Advances(t)
    BY <1>0, JoinsAdvance
  <2>3. CASE joins[j].pc \in Bound /\ joins'[j].target = joins[j].target
    BY <1>0, <2>1, <2>2, <2>3 DEF TargetInv, Advances
  <2>4. CASE joins'[j].target = j
    BY <2>4 DEF Bound, Early
  <2>5. CASE Exists(joins'[j].target)
    BY <1>0, <2>1, <2>2, <2>5 DEF MintInv, Advances
  <2> QED BY <1>0, <2>3, <2>4, <2>5, TargetStep
<1> QED
  BY <1>1, <1>2, <1>3 DEF Minted

(***************************************************************************)
(* The end of a session is told once, for any number of sign-outs and      *)
(* revocations that end it at the same time.  A session that is there has  *)
(* not been told of, and none comes back: the id is minted by one          *)
(* submission, in a step it takes once (MintInv).  A checkpoint does not   *)
(* precede its session, as a submission saves only into a session that has *)
(* been minted (TargetInv).                                                *)
(***************************************************************************)
THEOREM EndToldOnce == Spec => []NotifiedOnce
<1>1. Init => Minted
  BY MintedInit
<1>2. Minted /\ [Next]_vars => Minted'
  BY MintedNext
<1>3. Minted => NotifiedOnce
  BY DEF Minted, MintInv, NotifiedOnce
<1> QED
  BY <1>1, <1>2, <1>3, PTL DEF Spec

(***************************************************************************)
(* The authentication time of a session never goes back, whatever late     *)
(* authentications and activity refreshes write: a session that is there   *)
(* is not minted again, TouchAuthenticatedAt has its guard, and a refresh  *)
(* leaves the time alone.                                                  *)
(***************************************************************************)
THEOREM AuthTimeStays == Spec => AuthTimeNeverGoesBack
<1> DEFINE Forward == \A s \in Joins : Exists(s) /\ Exists(s)' =>
                        sessions[s].authenticatedAt <= sessions'[s].authenticatedAt
<1>1. Init => Minted
  BY MintedInit
<1>2. Minted /\ [Next]_vars => Minted'
  BY MintedNext
<1>3. Minted /\ [Next]_vars => [Forward]_vars
  <2> SUFFICES ASSUME Minted, [Next]_vars, NEW s \in Joins, Exists(s), Exists(s)'
               PROVE  sessions[s].authenticatedAt <= sessions'[s].authenticatedAt
    OBVIOUS
  <2>1. Kept(s) \/ Mints(s)
    BY SessionStep DEF Minted
  <2>2. ~Mints(s)
    BY DEF Minted, MintInv, Mints, Early
  <2> QED BY <2>1, <2>2 DEF Kept
<1> HIDE DEF Forward
<1>4. Spec => [][Forward]_vars
  BY <1>1, <1>2, <1>3, PTL DEF Spec
<1> QED
  BY <1>4 DEF AuthTimeNeverGoesBack, Forward

-----------------------------------------------------------------------------
(* The cookie *)

LEMMA CheckpointStays ==
  ASSUME Minted, [Next]_vars, NEW s \in Joins, Checkpointed(s)
  PROVE  Checkpointed(s)'
<1>0. Typed /\ Advances(s)
  BY JoinsAdvance DEF Minted
<1>1. joins'[s].pc \notin Early
  BY <1>0 DEF Checkpointed, Advances
<1>2. ASSUME Exists(s)' PROVE contexts'[s] # None
  <2>1. Kept(s)
    BY <1>0, <1>2, SessionStep DEF Mints, Checkpointed, Early
  <2>2. contexts[s] # None
    BY <2>1 DEF Kept, Checkpointed
  <2>3. ASSUME NEW j \in Joins, Saves(j, s) PROVE contexts'[s] # None
    BY <1>0, <2>3, SSOSessionConstants DEF Saves, Typed, JoinInv
  <2> QED BY <1>0, <1>2, <2>2, <2>3, ContextStep
<1> QED
  BY <1>1, <1>2 DEF Checkpointed

\* Whose tokens name a session had it named before, or saves or loads a checkpoint.
LEMMA SessionNamedStep ==
  ASSUME Typed, [Next]_vars, NEW j \in Joins,
         joins'[j].pc \in {"issue", "done"}, joins'[j].session # None
  PROVE  \/ /\ joins[j].pc \in {"issue", "done"} /\ joins'[j].session = joins[j].session
         \/ /\ joins[j].pc \in {"save", "record"} /\ joins'[j].session = joins[j].target
            /\ joins[j].target \in Joins /\ Records(j)
            /\ joins[j].pc = "save" => contexts'[joins[j].target] = joins[j].subject
            /\ UNCHANGED <<revoked, lost>>
<1>0. TypeOK /\ \A k \in Joins : JoinInv(k)
  BY DEF Typed
<1> USE <1>0
<1>1. CASE joins'[j] = joins[j]
  BY <1>1
<1>2. CASE JoinStep(j)
  <2>1. CASE CheckSession(j)
    BY <2>1, CheckFacts
  <2>2. CASE Authenticate(j)
    BY <2>2, AuthenticateFacts
  <2>3. CASE FindTarget(j)
    BY <2>3, FindTargetFacts
  <2>4. CASE InsertSession(j)
    BY <2>4, InsertFacts
  <2>5. CASE RereadSession(j)
    BY <2>5, RereadFacts
  <2>6. CASE TouchSession(j)
    BY <2>6, TouchFacts
  <2>7. CASE SaveCheckpoint(j)
    <3>1. /\ joins[j].pc = "save" /\ joins[j].target \in Joins
          /\ joins'[j].session = joins[j].target
      BY <2>7, SaveFacts
    <3>2. ~Leaves(j, None)
      BY <3>1, LeavesFacts, SSOSessionConstants
    <3>3. Records(j) /\ contexts' = [contexts EXCEPT ![joins[j].target] = joins[j].subject]
      BY <2>7, <3>2 DEF SaveCheckpoint
    <3>4. contexts'[joins[j].target] = joins[j].subject
      BY <3>1, <3>3 DEF TypeOK
    <3> QED BY <2>7, <3>1, <3>3, <3>4 DEF SaveCheckpoint
  <2>8. CASE SlideSession(j)
    BY <2>8, SlideFacts
  <2>9. CASE RecordParticipant(j)
    BY <2>9, RecordFacts DEF RecordParticipant
  <2>10. CASE IssueGrant(j)
    BY <2>10, IssueFacts
  <2> QED
    BY <1>2, <2>1, <2>2, <2>3, <2>4, <2>5, <2>6, <2>7, <2>8, <2>9, <2>10 DEF JoinStep
<1>3. ASSUME NEW k \in Joins, JoinStep(k), k # j PROVE joins'[j] = joins[j]
  <2>1. Moves(k)
    BY <1>3, CheckFacts, AuthenticateFacts, FindTargetFacts, InsertFacts, RereadFacts, TouchFacts,
       SaveFacts, SlideFacts, RecordFacts, IssueFacts DEF JoinStep
  <2> QED BY <1>3, <2>1 DEF Moves
<1> QED
  BY <1>1, <1>2, <1>3, StepKinds DEF ActivityStep, EndStep

LEMMA CookieStep ==
  ASSUME [Next]_vars, Typed
  PROVE  \/ cookie' = cookie
         \/ \E j \in Joins : joins[j].pc = "issue" /\ joins[j].session = j /\ cookie' = j
<1>1. ASSUME NEW j \in Joins, JoinStep(j), cookie' # cookie
      PROVE  joins[j].pc = "issue" /\ joins[j].session = j /\ cookie' = j
  <2>1. IssueGrant(j)
    BY <1>1
    DEF JoinStep, CheckSession, Authenticate, FindTarget, InsertSession, RereadSession,
        TouchSession, SaveCheckpoint, SlideSession, RecordParticipant
  <2> QED BY <1>1, <2>1 DEF IssueGrant
<1> QED
  BY <1>1, StepKinds DEF ActivityStep, EndStep

LEMMA CookieInit == ASSUME Init PROVE CookieInv
<1>1. PICK u \in Subjects :
        /\ sessions = [s \in Joins |-> IF s = First THEN NewSession(First, u) ELSE None]
        /\ contexts = [s \in Joins |-> IF s = First THEN u ELSE None]
        /\ joins = [j \in Joins |-> IF j = First THEN Done(u, First) ELSE NewJoin]
  BY DEF Init
<1>2. First \in Joins /\ u # None
  BY SSOSessionConstants
<1>3. Done(u, First).pc = "done" /\ Done(u, First).session = First /\ NewJoin.pc = "new"
  BY <1>2, JoinValues
<1>4. Checkpointed(First)
  BY <1>1, <1>2, <1>3 DEF Checkpointed, Early
<1> QED
  BY <1>1, <1>3, <1>4 DEF Init, CookieInv

LEMMA CookieNext == ASSUME Minted, CookieInv, [Next]_vars PROVE CookieInv'
<1>0. Typed /\ Typed'
  BY MintedNext DEF Minted
<1>1. ASSUME cookie' # None PROVE Checkpointed(cookie)'
  <2>1. CASE cookie' = cookie
    <3>1. PICK c \in Joins : c = cookie /\ c = cookie'
      BY <1>0, <1>1, <2>1 DEF Typed, TypeOK
    <3>2. Checkpointed(c)
      BY <1>1, <3>1 DEF CookieInv
    <3>3. Checkpointed(c)'
      BY <3>2, CheckpointStays
    <3> QED BY <3>1, <3>3 DEF Checkpointed, Exists
  <2>2. ASSUME NEW j \in Joins, joins[j].pc = "issue", joins[j].session = j, cookie' = j
        PROVE  Checkpointed(cookie)'
    <3>1. Checkpointed(j)
      BY <1>1, <2>2 DEF CookieInv
    <3>2. Checkpointed(j)'
      BY <3>1, CheckpointStays
    <3> QED BY <2>2, <3>2 DEF Checkpointed, Exists
  <2> QED BY <1>0, <2>1, <2>2, CookieStep
<1>2. ASSUME NEW j \in Joins, joins'[j].pc \in {"slide", "record"}
      PROVE  \E t \in Joins : t = joins'[j].target /\ Checkpointed(t)'
  <2>1. joins'[j].pc \in Bound /\ joins'[j].pc \notin {"touch", "save"}
    BY <1>2 DEF Bound
  <2>2. PICK t \in Joins : t = joins'[j].target
    BY <1>0, <2>1 DEF Typed, JoinInv
  <2>3. CASE joins[j].pc \in Bound \ {"touch", "save"} /\ joins'[j].target = joins[j].target
    <3>1. Checkpointed(t)
      BY <2>2, <2>3 DEF CookieInv, Bound
    <3> QED BY <2>2, <3>1, CheckpointStays
  <2>4. CASE Exists(t) /\ contexts[t] # None
    <3>1. Checkpointed(t)
      BY <2>4 DEF Checkpointed, Minted, MintInv
    <3> QED BY <2>2, <3>1, CheckpointStays
  <2> QED BY <1>0, <2>1, <2>2, <2>3, <2>4, TargetStep
<1>3. ASSUME NEW j \in Joins, joins'[j].pc \in {"issue", "done"}, joins'[j].session # None
      PROVE  \E s \in Joins : s = joins'[j].session /\ Checkpointed(s)'
  <2>1. PICK s \in Joins : s = joins'[j].session
    BY <1>0, <1>3 DEF Typed, TypeOK, Join
  <2>2. CASE joins[j].pc \in {"issue", "done"} /\ joins'[j].session = joins[j].session
    <3>1. Checkpointed(s)
      BY <1>3, <2>1, <2>2 DEF CookieInv
    <3> QED BY <2>1, <3>1, CheckpointStays
  <2>3. CASE joins[j].pc = "record" /\ joins'[j].session = joins[j].target
    <3>1. Checkpointed(s)
      BY <2>1, <2>3 DEF CookieInv
    <3> QED BY <2>1, <3>1, CheckpointStays
  <2>4. CASE /\ joins[j].pc = "save" /\ joins'[j].session = joins[j].target
             /\ contexts'[joins[j].target] = joins[j].subject
    <3>1. contexts'[s] # None
      BY <1>0, <2>1, <2>4, SSOSessionConstants DEF Typed, JoinInv
    <3>2. joins[s].pc \notin Early
      BY <2>1, <2>4 DEF Minted, TargetInv, Bound
    <3>3. joins'[s].pc \notin Early
      BY <1>0, <3>2, JoinsAdvance DEF Advances
    <3> QED BY <2>1, <3>1, <3>3 DEF Checkpointed
  <2> QED BY <1>0, <1>3, <2>2, <2>3, <2>4, SessionNamedStep
<1> QED
  BY <1>1, <1>2, <1>3 DEF CookieInv, Checkpointed, Exists

(***************************************************************************)
(* The browser is never given the handle of a session without a            *)
(* checkpoint, however saves fail, submissions race and sessions end.      *)
(* CookieInv carries this from the save: it holds of every session that a  *)
(* reuse has found and that tokens are about to name, because a session    *)
(* that has a checkpoint has one until it is gone, and is then gone for    *)
(* good (CheckpointStays).                                                 *)
(***************************************************************************)
THEOREM CookieCheckpointed == Spec => []CookieHasCheckpoint
<1>1. Init => Minted /\ CookieInv
  BY MintedInit, CookieInit
<1>2. Minted /\ CookieInv /\ [Next]_vars => Minted' /\ CookieInv'
  BY MintedNext, CookieNext
<1>3. CookieInv => CookieHasCheckpoint
  BY DEF CookieInv, Checkpointed, CookieHasCheckpoint, Exists
<1> QED
  BY <1>1, <1>2, <1>3, PTL DEF Spec

-----------------------------------------------------------------------------
(* The user of a session *)

LEMMA SubjectInit == ASSUME Init PROVE \A s \in Joins : SaverInv(s) /\ SubjectInv(s)
<1>1. PICK u \in Subjects :
        /\ sessions = [s \in Joins |-> IF s = First THEN NewSession(First, u) ELSE None]
        /\ contexts = [s \in Joins |-> IF s = First THEN u ELSE None]
        /\ joins = [j \in Joins |-> IF j = First THEN Done(u, First) ELSE NewJoin]
  BY DEF Init
<1>2. First \in Joins
  BY SSOSessionConstants
<1>3. Done(u, First).pc = "done" /\ NewJoin.pc = "new"
  BY <1>2, JoinValues
<1>4. NewSession(First, u).subject = u
  BY DEF NewSession
<1> QED
  BY <1>1, <1>3, <1>4 DEF SaverInv, SubjectInv

LEMMA SaverNext ==
  ASSUME Minted, [Next]_vars, NEW j \in Joins, SaverInv(j)
  PROVE  SaverInv(j)'
<1>0. Typed /\ Typed'
  BY MintedNext DEF Minted
<1>1. SUFFICES ASSUME joins'[j].pc \in {"touch", "save"}, Exists(joins[j].target)'
               PROVE  \/ joins'[j].subject = sessions'[joins'[j].target].subject
                      \/ ExecutionOf[j] = ExecutionOf[joins'[j].target]
  BY DEF SaverInv, Exists
<1>2. joins'[j].pc \in Bound
  BY <1>1 DEF Bound
<1>3. PICK t \in Joins : t = joins'[j].target
  BY <1>0, <1>2 DEF Typed, JoinInv
<1>4. Exists(t)'
  BY <1>1, <1>3 DEF Exists
<1>5. CASE /\ joins[j].pc \in {"touch", "save"} /\ joins'[j].target = joins[j].target
           /\ joins'[j].subject = joins[j].subject
  <2>1. joins[t].pc \notin Early
    BY <1>3, <1>5 DEF Minted, TargetInv, Bound
  <2>2. Kept(t)
    BY <1>0, <1>4, <2>1, SessionStep DEF Mints, Early
  <2> QED BY <1>3, <1>5, <2>2 DEF Kept, SaverInv
<1>6. CASE joins'[j].target = j
  BY <1>6
<1>7. CASE Exists(t) /\ sessions' = sessions /\ sessions[t].subject = joins'[j].subject
  BY <1>3, <1>7
<1>8. CASE Exists(t) /\ sessions[t].execution = ExecutionOf[j]
  BY <1>3, <1>8 DEF Minted, MintInv
<1> QED
  BY <1>0, <1>1, <1>2, <1>3, <1>5, <1>6, <1>7, <1>8, TargetStep

LEMMA SubjectNext ==
  ASSUME Minted, [Next]_vars, NEW s \in Joins, SubjectInv(s), \A j \in Joins : SaverInv(j)
  PROVE  SubjectInv(s)'
<1>0. Typed
  BY DEF Minted
<1>1. SUFFICES ASSUME Exists(s)', contexts'[s] # None, contexts'[s] # sessions'[s].subject
               PROVE  \E j \in Joins : /\ ExecutionOf[j] = ExecutionOf[s]
                                       /\ joins'[j].subject = contexts'[s]
                                       /\ joins'[j].pc \in {"issue", "done"}
  BY DEF SubjectInv, Exists
<1>2. ASSUME NEW j \in Joins, Saves(j, s)
      PROVE  ExecutionOf[j] = ExecutionOf[s] /\ joins'[j].subject = contexts'[s]
             /\ joins'[j].pc \in {"issue", "done"}
  <2>1. joins[s].pc \notin Early
    BY <1>2 DEF Saves, Minted, TargetInv, Bound
  <2>2. Kept(s)
    BY <1>0, <1>1, <2>1, SessionStep DEF Mints, Early
  <2>3. joins[j].subject = sessions[s].subject \/ ExecutionOf[j] = ExecutionOf[s]
    BY <1>2, <2>2 DEF Saves, SaverInv, Kept
  <2> QED BY <1>1, <1>2, <2>2, <2>3 DEF Saves, Kept
<1>3. CASE contexts'[s] = contexts[s]
  <2>1. Kept(s)
    BY <1>0, <1>1, <1>3, SessionStep DEF Mints, Early, Minted, MintInv
  <2>2. PICK j \in Joins : /\ ExecutionOf[j] = ExecutionOf[s] /\ joins[j].subject = contexts[s]
                           /\ joins[j].pc \in {"issue", "done"}
    BY <1>1, <1>3, <2>1 DEF Kept, SubjectInv
  <2>3. Advances(j)
    BY <1>0, JoinsAdvance
  <2> QED BY <1>3, <2>2, <2>3 DEF Advances, Early
<1> QED
  BY <1>0, <1>1, <1>2, <1>3, ContextStep

(***************************************************************************)
(* A checkpoint is of the session's user as long as the submissions of the *)
(* session's execution agree on the user.  Whoever is about to save is the *)
(* user of the session, which targetSession has compared, or submits to    *)
(* the execution that minted it (SaverInv); the session cannot become      *)
(* another's in between, because what is gone is not minted again.         *)
(***************************************************************************)
THEOREM OneSubject == Spec => []SessionHasOneSubject
<1> DEFINE Inv == \A s \in Joins : SaverInv(s) /\ SubjectInv(s)
<1>1. Init => Minted /\ Inv
  BY MintedInit, SubjectInit
<1>2. Minted /\ Inv /\ [Next]_vars => Minted' /\ Inv'
  BY MintedNext, SaverNext, SubjectNext
<1>3. Minted /\ Inv => SessionHasOneSubject
  <2> SUFFICES ASSUME Minted, Inv, NEW s \in Joins, Exists(s), contexts[s] # None,
                      contexts[s] # sessions[s].subject
               PROVE  SplitExecution(ExecutionOf[s])
    BY DEF SessionHasOneSubject
  <2>1. PICK j \in Joins : /\ ExecutionOf[j] = ExecutionOf[s] /\ joins[j].subject = contexts[s]
                           /\ joins[j].pc \in {"issue", "done"}
    BY DEF SubjectInv
  <2>2. /\ sessions[s].subject = joins[s].subject
        /\ joins[s].pc \notin {"new", "authenticate", "failed"}
    BY DEF Minted, MintInv, Early
  <2>3. joins[s].subject # None
    BY <2>2, SSOSessionConstants DEF Minted, Typed, JoinInv
  <2> QED BY <2>1, <2>2, <2>3 DEF SplitExecution
<1> HIDE DEF Inv
<1> QED
  BY <1>1, <1>2, <1>3, PTL DEF Spec

-----------------------------------------------------------------------------
(* Sign-out takes the grants *)

LEMMA HistoryGrows ==
  ASSUME Typed, [Next]_vars
  PROVE  revoked \subseteq revoked' /\ superseded \subseteq superseded' /\ lost \subseteq lost'
<1>0. TypeOK /\ \A k \in Joins : JoinInv(k)
  BY DEF Typed
<1>1. ASSUME NEW j \in Joins, JoinStep(j) PROVE superseded \subseteq superseded'
  <2>1. CASE Records(j)
    BY <2>1 DEF Records
  <2>2. CASE superseded' = superseded
    BY <2>2
  <2> QED
    BY <1>1, <2>1, <2>2
    DEF JoinStep, CheckSession, Authenticate, FindTarget, InsertSession, RereadSession,
        TouchSession, SaveCheckpoint, SlideSession, RecordParticipant, IssueGrant, historyVars
<1>2. ASSUME NEW j \in Joins, JoinStep(j) PROVE revoked' = revoked /\ lost' = lost
  BY <1>2, JoinStepFacts
<1>3. CASE ActivityStep
  BY <1>3 DEF ActivityStep
<1>4. CASE \E e \in Ends \cup {None} : EndStep(e)
  BY <1>4 DEF EndStep, Cleared
<1> QED
  BY <1>1, <1>2, <1>3, <1>4, StepKinds

LEMMA AccountsStay ==
  ASSUME Typed, [Next]_vars, NEW f
  PROVE  /\ Accounted(f) => Accounted(f)'
         /\ \A o : Elsewhere(f, o) => Elsewhere(f, o)'
BY HistoryGrows DEF Accounted, Elsewhere

\* A family that loses its row is accounted for.
LEMMA RowStep ==
  ASSUME Typed, [Next]_vars, NEW s \in Joins, NEW a \in Apps, NEW f, f = participants[s][a],
         f # None, participants'[s][a] # f
  PROVE  Accounted(f)'
<1>0. TypeOK /\ \A k \in Joins : JoinInv(k)
  BY DEF Typed
<1>1. ASSUME NEW j \in Joins, JoinStep(j) PROVE Accounted(f)'
  <2>1. Records(j) /\ joins[j].target \in Joins
    BY <1>0, <1>1
    DEF JoinStep, CheckSession, Authenticate, FindTarget, InsertSession, RereadSession,
        TouchSession, SaveCheckpoint, SlideSession, RecordParticipant, IssueGrant, tables,
        JoinInv, Bound
  <2>2. f \in superseded'
    BY <1>0, <2>1, RecordsFacts
  <2> QED BY <2>2 DEF Accounted
<1>2. CASE ActivityStep
  BY <1>2 DEF ActivityStep
<1>3. ASSUME NEW e \in Ends \cup {None}, EndStep(e) PROVE Accounted(f)'
  <2>1. Cleared(e)
    BY <1>3 DEF EndStep
  <2>2. f \in revoked' \/ <<f, e>> \in lost'
    BY <2>1 DEF Cleared
  <2> QED BY <2>2 DEF Accounted
<1> QED
  BY <1>1, <1>2, <1>3, StepKinds

LEMMA FamilyNext ==
  ASSUME Typed, [Next]_vars, NEW f \in Joins, FamilyInv(f)
  PROVE  FamilyInv(f)'
<1>0. Typed'
  BY TypedNext
<1>1. SUFFICES ASSUME joins'[f].pc \in {"issue", "done"}, joins'[f].session # None,
                      ~Accounted(f)'
               PROVE  participants'[joins'[f].session][App(f)] = f
  BY DEF FamilyInv
<1>2. PICK s \in Joins : s = joins'[f].session
  BY <1>0, <1>1 DEF Typed, TypeOK, Join
<1>3. App(f) \in Apps /\ f # None
  BY AppIsApp, SSOSessionConstants
<1>4. CASE joins[f].pc \in {"issue", "done"} /\ joins'[f].session = joins[f].session
  <2>1. participants[s][App(f)] = f
    BY <1>1, <1>2, <1>4, AccountsStay DEF FamilyInv
  <2>2. PICK a \in Apps : a = App(f)
    BY <1>3
  <2> QED BY <1>1, <1>2, <1>3, <2>1, <2>2, RowStep
<1>5. CASE joins'[f].session = joins[f].target /\ joins[f].target \in Joins /\ Records(f)
  BY <1>5, RecordsFacts DEF Typed
<1> QED
  BY <1>1, <1>4, <1>5, SessionNamedStep

\* The steps of a sign-out, and what others do to it.
LEMMA SignOutStep ==
  ASSUME Typed, [Next]_vars, NEW o \in SignOuts
  PROVE  \/ FindSession(o) \/ ListParticipants(o) \/ Terminate(o) \/ EndFails(o)
         \/ ends'[o] = ends[o] /\ \A f : <<f, o>> \in lost' => <<f, o>> \in lost
<1>0. /\ TypeOK /\ (\A j \in Joins : JoinInv(j)) /\ (\A e \in Ends : EndInv(e)) /\ o \in Ends
  BY EndKinds DEF Typed
<1> USE <1>0
<1> DEFINE Same == ends'[o] = ends[o] /\ \A f : <<f, o>> \in lost' => <<f, o>> \in lost
<1>1. ASSUME NEW e \in Ends, e # o, EndMoves(e), lost' = lost \/ Cleared(e) PROVE Same
  BY <1>1 DEF EndMoves, Cleared
<1>2. ASSUME ends' = ends, lost' = lost PROVE Same
  BY <1>2
<1>3. ASSUME ends' = ends, Cleared(None) PROVE Same
  BY <1>3, SSOSessionConstants DEF Cleared
<1> HIDE DEF Same
<1>4. ASSUME NEW j \in Joins, JoinStep(j) PROVE Same
  BY <1>2, <1>4, JoinStepFacts
<1>5. ASSUME NEW j \in Joins, RecordActivity(j) PROVE Same
  BY <1>2, <1>5 DEF RecordActivity, historyVars
<1>6. ASSUME NEW e \in SignOuts, e # o, FindSession(e) \/ ListParticipants(e) \/ Terminate(e) PROVE Same
  <2>1. e \in Ends /\ EndInv(e)
    BY EndKinds
  <2>2. CASE FindSession(e)
    BY <1>1, <1>6, <2>1, <2>2, FindSessionFacts DEF FindSession, historyVars
  <2>3. CASE ListParticipants(e)
    BY <1>1, <1>6, <2>1, <2>3, ListParticipantsFacts DEF ListParticipants, historyVars
  <2>4. CASE Terminate(e)
    BY <1>1, <1>6, <2>1, <2>4, TerminateFacts
  <2> QED BY <1>6, <2>2, <2>3, <2>4
<1>7. ASSUME NEW e \in SubjectRevocations,
             RevokeSubject(e) \/ ListSessions(e) \/ TerminateBySubject(e) PROVE Same
  <2>1. e \in Ends /\ e # o
    BY EndKinds
  <2>2. CASE RevokeSubject(e)
    BY <1>1, <2>1, <2>2, RevokeSubjectFacts DEF RevokeSubject, historyVars
  <2>3. CASE ListSessions(e)
    BY <1>1, <2>1, <2>3, ListSessionsFacts DEF ListSessions, historyVars
  <2>4. CASE TerminateBySubject(e)
    BY <1>1, <2>1, <2>4, TerminateBySubjectFacts
  <2> QED BY <1>7, <2>2, <2>3, <2>4
<1>8. ASSUME NEW e \in Detachments, ListParticipations(e) \/ DetachApplication(e) PROVE Same
  <2>1. e \in Ends /\ e # o /\ EndInv(e)
    BY EndKinds
  <2>2. CASE ListParticipations(e)
    BY <1>1, <2>1, <2>2, ListParticipationsFacts DEF ListParticipations, historyVars
  <2>3. CASE DetachApplication(e)
    BY <1>1, <2>1, <2>3, DetachFacts
  <2> QED BY <1>8, <2>2, <2>3
<1>9. ASSUME NEW e \in Ends, e # o, EndFails(e) PROVE Same
  BY <1>1, <1>9, EndFailsFacts DEF EndFails, historyVars
<1>10. ASSUME CleanUp PROVE Same
  BY <1>3, <1>10, CleanUpFacts DEF CleanUp
<1>11. ASSUME Tick \/ UNCHANGED vars PROVE Same
  BY <1>2, <1>11 DEF Tick, vars, historyVars
<1>12. \/ FindSession(o) \/ ListParticipants(o) \/ Terminate(o) \/ EndFails(o)
       \/ Same
  BY <1>4, <1>5, <1>6, <1>7, <1>8, <1>9, <1>10, <1>11 DEF Next, JoinStep
<1> QED
  BY <1>12 DEF Same

LEMMA SignOutNext ==
  ASSUME Typed, [Next]_vars, \A f \in Joins : FamilyInv(f), NEW o \in SignOuts, SignOutInv(o)
  PROVE  SignOutInv(o)'
<1>0. /\ TypeOK /\ EndInv(o) /\ o \in Ends /\ ends[o] \in End
  BY EndKinds DEF Typed, TypeOK
<1>1. ends[o].granted \subseteq Joins
  BY <1>0 DEF End
<1>2. CASE FindSession(o)
  <2>1. lost' = lost /\ joins' = joins
    BY <1>2 DEF FindSession, historyVars
  <2>2. /\ ends[o].pc = "new" /\ ends'[o].pc = "list" /\ ends'[o].session = cookie
        /\ ends'[o].granted = {j \in Joins : Granted(j) /\ joins[j].session = cookie}
    BY <1>0, <1>2, FindSessionFacts
  <2> QED BY <2>1, <2>2 DEF SignOutInv, Granted
<1>3. CASE ListParticipants(o)
  <2>1. UNCHANGED <<lost, revoked, superseded>>
    BY <1>3 DEF ListParticipants, tables, historyVars
  <2>2. /\ ends[o].pc = "list" /\ ends'[o].pc = "end" /\ ends[o].session \in Joins
        /\ ends'[o].granted = ends[o].granted
        /\ ends'[o].listed = {ends[o].session} \X Families(ends[o].session)
    BY <1>0, <1>3, ListParticipantsFacts
  <2>3. ASSUME NEW f \in ends[o].granted
        PROVE  (\E l \in ends'[o].listed : l[2] = f) \/ Elsewhere(f, o)
    <3>1. f \in Joins /\ f # None /\ App(f) \in Apps
      BY <1>1, AppIsApp, SSOSessionConstants
    <3>2. joins[f].pc = "done" /\ joins[f].session = ends[o].session
      BY <2>2 DEF SignOutInv, Granted
    <3>3. joins[f].session # None
      BY <2>2, <3>2, SSOSessionConstants
    <3>4. participants[ends[o].session][App(f)] = f \/ Accounted(f)
      BY <3>1, <3>2, <3>3 DEF FamilyInv
    <3>5. CASE Accounted(f)
      BY <2>2, <3>1, <3>5 DEF SignOutInv, Accounted, Elsewhere
    <3>6. CASE participants[ends[o].session][App(f)] = f
      <4>1. f \in Families(ends[o].session)
        BY <3>1, <3>6 DEF Families
      <4>2. <<ends[o].session, f>> \in ends'[o].listed
        BY <2>2, <4>1
      <4> QED BY <4>2
    <3> QED BY <3>4, <3>5, <3>6
  <2>4. \A f : Elsewhere(f, o) => Elsewhere(f, o)'
    BY AccountsStay
  <2> QED BY <2>1, <2>2, <2>3, <2>4 DEF SignOutInv
<1>4. CASE Terminate(o)
  <2>1. /\ ends[o].pc = "end" /\ ends'[o].pc = "done" /\ ends'[o].granted = ends[o].granted
        /\ \A l \in ends[o].listed : l[2] \in revoked'
    BY <1>0, <1>4, TerminateFacts
  <2>2. ASSUME NEW f \in ends[o].granted PROVE Elsewhere(f, o)'
    <3>1. CASE \E l \in ends[o].listed : l[2] = f
      BY <2>1, <3>1 DEF Elsewhere
    <3>2. CASE Elsewhere(f, o)
      BY <3>2, AccountsStay
    <3> QED BY <2>1, <3>1, <3>2 DEF SignOutInv
  <2> QED BY <2>1, <2>2 DEF SignOutInv
<1>5. CASE EndFails(o)
  <2>1. lost' = lost
    BY <1>5 DEF EndFails, historyVars
  <2> QED BY <1>0, <1>5, <2>1, EndFailsFacts DEF SignOutInv
<1>6. CASE ends'[o] = ends[o] /\ \A f : <<f, o>> \in lost' => <<f, o>> \in lost
  <2>1. ASSUME NEW f \in ends[o].granted
        PROVE  /\ Granted(f) /\ joins[f].session = ends[o].session =>
                    Granted(f)' /\ joins'[f].session = ends[o].session
               /\ Elsewhere(f, o) => Elsewhere(f, o)'
    <3>1. Advances(f)
      BY <1>1, JoinsAdvance
    <3> QED BY <3>1, AccountsStay DEF Granted, Advances
  <2> QED BY <1>6, <2>1 DEF SignOutInv
<1> QED
  BY <1>2, <1>3, <1>4, <1>5, <1>6, SignOutStep

(***************************************************************************)
(* A sign-out takes the grants of the login with it, for any number of     *)
(* sign-ins, sign-outs, revocations and detachments at the same time.  A   *)
(* family has its row in the session that its tokens name until it is      *)
(* revoked, superseded or lost (FamilyInv), so what the sign-out does not  *)
(* list is accounted for, and not by the sign-out itself, which removes    *)
(* rows only in the step that ends it (SignOutInv).                        *)
(***************************************************************************)
THEOREM SignOutComplete == Spec => []SignOutTakesGrants
<1> DEFINE Inv == (\A f \in Joins : FamilyInv(f)) /\ (\A o \in SignOuts : SignOutInv(o))
<1>1. Init => Typed /\ Inv
  <2> SUFFICES ASSUME Init PROVE Inv
    BY TypedInit
  <2>1. PICK u \in Subjects :
          joins = [j \in Joins |-> IF j = First THEN Done(u, First) ELSE NewJoin]
    BY DEF Init
  <2>2. First \in Joins /\ App(First) \in Apps
    BY SSOSessionConstants, AppIsApp
  <2>3. Done(u, First).session = First /\ NewJoin.pc = "new"
    BY <2>2, JoinValues
  <2>4. participants[First][App(First)] = First
    BY <2>2 DEF Init, NoParticipants
  <2>5. \A f \in Joins : FamilyInv(f)
    BY <2>1, <2>3, <2>4 DEF FamilyInv
  <2>6. NewEnd.pc = "new"
    BY DEF NewEnd
  <2>7. \A o \in SignOuts : SignOutInv(o)
    BY <2>6, EndKinds DEF Init, SignOutInv
  <2> QED BY <2>5, <2>7
<1>2. Typed /\ Inv /\ [Next]_vars => Typed' /\ Inv'
  BY TypedNext, FamilyNext, SignOutNext
<1>3. Inv => SignOutTakesGrants
  BY DEF SignOutInv, Elsewhere, SignOutTakesGrants
<1> HIDE DEF Inv
<1> QED
  BY <1>1, <1>2, <1>3, PTL DEF Spec
=============================================================================
