--------------------------- MODULE FlowExecution ----------------------------
(***************************************************************************)
(* One execution of a flow.  A flow is a graph of nodes; the engine runs   *)
(* nodes until one waits for the user, fails, or ends the flow.  A CALL    *)
(* node runs another flow and comes back.  Between two requests the        *)
(* execution is a context in the runtime store.  A request loads the       *)
(* context, works on its copy and writes it back, with no lock and no      *)
(* comparison, so that requests may overlap.  A challenge token, of which  *)
(* the context keeps the hash, ties a request to the step before it.       *)
(*                                                                         *)
(* What an executor or a prompt decides is a choice.  Of the data only the *)
(* levels that wrote runtime data are kept; inputs, additional data, the   *)
(* signed-in user and the assertion are left out, and so is the            *)
(* organization unit, which a bounded callee takes over from its caller.   *)
(***************************************************************************)
EXTENDS Integers, Sequences, FiniteSets

CONSTANTS
  Requests,      \* Execute calls that can be under way at once
  Graphs,        \* flow definitions
  Nodes,
  NoNode,        \* the nil node, and the empty target of an edge
  GraphOf,       \* the graph of a node; node ids are made distinct
  StartOf,       \* the start node of a graph
  KindOf,
  OnSuccess,     \* where a node may go on: one node, for a PROMPT one per action
  OnFailure,     \* of TASK and CALL nodes, or NoNode
  OnIncomplete,  \* of TASK nodes, or NoNode
  OnSkip,        \* of nodes with a condition, or NoNode
  Callee,        \* the flow a CALL node references
  Root,          \* the flow that is executed
  SignIn,        \* the graphs that are authentication flows
  Unchallenged,  \* nodes whose executor skips the validation of the token
  Restartable,   \* nodes whose executor allows the restart of a segment
  MaxCallDepth,
  MaxVisits,     \* maxNodeVisitsPerRequest
  MaxRequests    \* bound on the requests of a behaviour

Kinds == {"START", "TASK", "PROMPT", "DISPLAY", "CALL", "END"}

NodesOf(g) == {n \in Nodes : GraphOf[n] = g}

(***************************************************************************)
(* What the validator of flow definitions guarantees: edges stay within a  *)
(* graph, END is the only node that leads nowhere.                         *)
(***************************************************************************)
ASSUME FlowExecutionConstants ==
  /\ NoNode \notin Nodes
  /\ GraphOf \in [Nodes -> Graphs]
  /\ StartOf \in [Graphs -> Nodes]
  /\ KindOf \in [Nodes -> Kinds]
  /\ OnSuccess \in [Nodes -> SUBSET Nodes]
  /\ OnFailure \in [Nodes -> Nodes \cup {NoNode}]
  /\ OnIncomplete \in [Nodes -> Nodes \cup {NoNode}]
  /\ OnSkip \in [Nodes -> Nodes \cup {NoNode}]
  /\ Callee \in [Nodes -> Graphs]
  /\ Root \in Graphs /\ SignIn \subseteq Graphs
  /\ Unchallenged \subseteq Nodes /\ Restartable \subseteq Nodes
  /\ MaxCallDepth \in Nat /\ MaxVisits \in Nat \ {0} /\ MaxRequests \in Nat
  /\ \A g \in Graphs : StartOf[g] \in NodesOf(g)
  /\ \A n \in Nodes :
       /\ OnSuccess[n] \cup ({OnFailure[n], OnIncomplete[n], OnSkip[n]} \ {NoNode})
            \subseteq NodesOf(GraphOf[n])
       /\ (OnSuccess[n] = {}) <=> (KindOf[n] = "END")

VARIABLES
  stored,     \* the context in the store, or Nothing
  begun,      \* the execution has been initiated
  request,    \* the Execute calls
  issued,     \* challenge tokens generated so far: the token of a step is its number
  answered,   \* history: the last token given to a client
  ended,      \* history: the context has been removed, or has expired
  disturbed,  \* history: two requests have been under way at once, or a write went through unseen
  requests    \* history: number of requests

vars == <<stored, begun, request, issued, answered, ended, disturbed, requests>>

NoToken == 0

(***************************************************************************)
(* The part of a context that belongs to one level of calls: EngineContext *)
(* for the innermost, a saved frame for the callers.  The node of a frame  *)
(* is the CALL node to resume at.  data holds the depths of the levels     *)
(* that wrote into the runtime data.                                       *)
(***************************************************************************)
Frame == [graph : Graphs, node : Nodes \cup {NoNode}, bounded : BOOLEAN,
          segment : Nodes \cup {NoNode}, data : SUBSET Nat]

(***************************************************************************)
(* FlowContextDB and EngineContext.  tokenIn is the token that the         *)
(* interceptors' shared data holds as the one of the request.              *)
(***************************************************************************)
Context == [cur : Frame, frames : Seq(Frame), token : Nat, tokenIn : Nat]

Nothing == <<>>

NewFrame(g, bounded, data) ==
  [graph |-> g, node |-> NoNode, bounded |-> bounded, segment |-> NoNode, data |-> data]

\* initContext: a sign-in flow is bounded; runtime data come from the initiator.
initContext(data) ==
  [cur |-> NewFrame(Root, Root \in SignIn, data), frames |-> <<>>,
   token |-> NoToken, tokenIn |-> NoToken]

Sources == {"new", "initiated", "stored"}
Statuses == {"NONE", "INCOMPLETE", "ERROR", "COMPLETE", "FAILED"}

NoVisits == [n \in Nodes |-> 0]

Request == [pc : {"idle", "loaded", "run", "save"}, source : Sources, ctx : Context,
            visits : [Nodes -> Nat], status : Statuses]

Idle == [pc |-> "idle", source |-> "stored", ctx |-> initContext({}),
         visits |-> NoVisits, status |-> "NONE"]

TypeOK ==
  /\ stored \in Context \cup {Nothing}
  /\ begun \in BOOLEAN
  /\ request \in [Requests -> Request]
  /\ issued \in Nat /\ answered \in Nat
  /\ ended \in BOOLEAN /\ disturbed \in BOOLEAN
  /\ requests \in Nat

Init ==
  /\ stored = Nothing
  /\ begun = FALSE
  /\ request = [q \in Requests |-> Idle]
  /\ issued = 0 /\ answered = NoToken
  /\ ended = FALSE /\ disturbed = FALSE
  /\ requests = 0

InFlight(q) == request[q].pc # "idle"
Depth(ctx) == Len(ctx.frames)

-----------------------------------------------------------------------------
(***************************************************************************)
(* Starting and loading                                                    *)
(***************************************************************************)

\* InitiateFlow: the context is stored, no node runs.
InitiateFlow ==
  /\ ~begun
  /\ begun' = TRUE
  /\ stored' = initContext({0})
  /\ UNCHANGED <<request, issued, answered, ended, disturbed, requests>>

Starts(q, source, ctx) ==
  /\ ~InFlight(q) /\ requests < MaxRequests
  /\ request' = [request EXCEPT ![q] =
       [pc |-> "loaded", source |-> source, ctx |-> ctx, visits |-> NoVisits, status |-> "NONE"]]
  /\ requests' = requests + 1
  /\ disturbed' = (disturbed \/ \E r \in Requests : InFlight(r))

(***************************************************************************)
(* The first request of an execution that has no context yet: Execute      *)
(* without an execution id ("new"), and InitiateAndExecute ("initiated").  *)
(***************************************************************************)
StartNew(q) ==
  /\ ~begun
  /\ begun' = TRUE
  /\ \/ Starts(q, "new", initContext({}))
     \/ Starts(q, "initiated", initContext({0}))
  /\ UNCHANGED <<stored, issued, answered, ended>>

(***************************************************************************)
(* Execute with an execution id: loadPrevContext and                       *)
(* setChallengeTokenInCtx.  A request without a token leaves the one in    *)
(* place that the context was saved with.  A request that finds no         *)
(* context, or is refused for its caller or a held application, is         *)
(* answered without another effect.                                        *)
(***************************************************************************)
loadPrevContext(token) ==
  [stored EXCEPT !.tokenIn = IF token = NoToken THEN @ ELSE token]

Continue(q) ==
  /\ stored # Nothing
  /\ \E token \in NoToken..issued : Starts(q, "stored", loadPrevContext(token))
  /\ UNCHANGED <<stored, begun, issued, answered, ended>>

\* The entry of the context reaches the end of its TTL, which no update extends.
Expire ==
  /\ stored # Nothing
  /\ stored' = Nothing
  /\ ended' = TRUE
  /\ UNCHANGED <<begun, request, issued, answered, disturbed, requests>>

-----------------------------------------------------------------------------
(***************************************************************************)
(* The engine, on the copy of a request                                    *)
(***************************************************************************)

\* Mutant: visits are not counted.
VisitedUncounted(visits, n) == visits

Visited(visits, n) == [visits EXCEPT ![n] = @ + 1]

\* The request goes on with ctx after a node, or stops with a status and this context.
Moves(q, ctx) ==
  /\ request' = [request EXCEPT ![q].ctx = ctx,
                                ![q].visits = Visited(@, request[q].ctx.cur.node)]
  /\ UNCHANGED issued
Stops(q, ctx, status) ==
  request' = [request EXCEPT ![q].pc = "save", ![q].ctx = ctx, ![q].status = status]

\* rotateChallengeToken, run when a request is about to return INCOMPLETE.
rotateChallengeToken(ctx, token) == [ctx EXCEPT !.token = token, !.tokenIn = NoToken]

(***************************************************************************)
(* The exits of Execute: runPostRequestInterceptorsOnExit, with a status.  *)
(* After a service error ("FAILED") no interceptor runs.                   *)
(***************************************************************************)
Pauses(q, ctx) ==
  /\ issued' = issued + 1
  /\ Stops(q, rotateChallengeToken(ctx, issued + 1), "INCOMPLETE")

Ends(q, ctx, status) == Stops(q, ctx, status) /\ UNCHANGED issued

\* setCurrentExecutionNode
setCurrentExecutionNode(ctx) ==
  [ctx EXCEPT !.cur.node = IF @ = NoNode THEN StartOf[ctx.cur.graph] ELSE @]

(***************************************************************************)
(* isSegmentRestartAllowed and shouldSkipValidation.  The policy of the    *)
(* node is that of its executor, which the graph of this server may not    *)
(* have constructed yet (warm); for a segment it is constructed first.     *)
(***************************************************************************)
shouldSkipValidation(ctx, warm) ==
  \/ warm /\ ctx.cur.node \in Unchallenged
  \/ ctx.cur.segment \in Restartable

\* validateChallengeToken
validateChallengeToken(ctx, warm) ==
  \/ ctx.token = NoToken
  \/ shouldSkipValidation(ctx, warm)
  \/ ctx.tokenIn # NoToken /\ ctx.tokenIn = ctx.token

\* Mutant: a token is spent when it is validated.
PreRequestSpends(q) ==
  /\ request[q].pc = "loaded"
  /\ LET ctx == setCurrentExecutionNode(request[q].ctx)
     IN  \E warm \in BOOLEAN :
           IF validateChallengeToken(ctx, warm)
           THEN request' = [request EXCEPT ![q].pc = "run", ![q].ctx = rotateChallengeToken(ctx, NoToken)]
           ELSE Stops(q, ctx, "ERROR")
  /\ UNCHANGED <<issued, stored, begun, answered, ended, disturbed, requests>>

(***************************************************************************)
(* The interceptors before the first node.  A refused request ends with    *)
(* ERROR, like a failed node, and its context is saved.                    *)
(***************************************************************************)
PreRequest(q) ==
  /\ request[q].pc = "loaded"
  /\ LET ctx == setCurrentExecutionNode(request[q].ctx)
     IN  \E warm \in BOOLEAN :
           IF validateChallengeToken(ctx, warm)
           THEN request' = [request EXCEPT ![q].pc = "run", ![q].ctx = ctx]
           ELSE Stops(q, ctx, "ERROR")
  /\ UNCHANGED <<issued, stored, begun, answered, ended, disturbed, requests>>

\* pushFrame and switchContextToCallee
pushFrame(ctx, g) ==
  [ctx EXCEPT !.frames = Append(@, ctx.cur),
              !.cur = [NewFrame(g, ctx.cur.bounded /\ g \in SignIn, {}) EXCEPT !.node = StartOf[g]]]

\* Mutant: a caller gets its callee's runtime data.
popFrameMerging(ctx) ==
  [ctx EXCEPT !.cur = [ctx.frames[Depth(ctx)] EXCEPT !.data = @ \cup ctx.cur.data],
              !.frames = SubSeq(@, 1, Depth(ctx) - 1)]

\* popFrame
popFrame(ctx) ==
  [ctx EXCEPT !.cur = ctx.frames[Depth(ctx)], !.frames = SubSeq(@, 1, Depth(ctx) - 1)]

At(ctx, n) == [ctx EXCEPT !.cur.node = n]

\* updateContextWithNodeResponse: an executor's runtime data are merged.
Writes(ctx) == [ctx EXCEPT !.cur.data = @ \cup {Depth(ctx)}]

\* handleCompletedResponse, with handleCalleeReturn at the END of a callee
handleCompletedResponse(q, ctx) ==
  LET node == ctx.cur.node
      caller == popFrame(ctx)
  IN  \/ \E n \in OnSuccess[node] : Moves(q, At(ctx, n))
      \/ /\ KindOf[node] = "END" /\ Depth(ctx) > 0
         /\ \E n \in OnSuccess[caller.cur.node] : Moves(q, At(caller, n))
      \/ /\ KindOf[node] = "END" /\ Depth(ctx) = 0
         /\ Ends(q, At(ctx, NoNode), "COMPLETE")

\* Mutant: the failure of a callee resumes in the caller without leaving the callee's level.
handleFailureUnpopped(q, ctx) ==
  LET target == OnFailure[popFrame(ctx).cur.node]
  IN  IF Depth(ctx) = 0 \/ target = NoNode THEN Ends(q, ctx, "ERROR") ELSE Moves(q, At(ctx, target))

\* handleCalleeFailure, and a failure of the root flow
handleFailure(q, ctx) ==
  LET caller == popFrame(ctx)
      target == OnFailure[caller.cur.node]
  IN  IF Depth(ctx) = 0 THEN Ends(q, ctx, "ERROR")
      ELSE IF target = NoNode THEN Ends(q, caller, "ERROR") ELSE Moves(q, At(caller, target))

\* handleDisplayOnlyPromptResponse
handleDisplayOnlyPromptResponse(q, ctx) ==
  \E n \in OnSuccess[ctx.cur.node] :
    IF KindOf[n] = "END" THEN Ends(q, ctx, "COMPLETE")
    ELSE Pauses(q, [ctx EXCEPT !.cur.node = n, !.cur.segment = n])

\* handleCallResponse
handleCallResponse(q, ctx) ==
  IF Depth(ctx) >= MaxCallDepth THEN Ends(q, ctx, "FAILED")
  ELSE Moves(q, pushFrame(ctx, Callee[ctx.cur.node]))

(***************************************************************************)
(* taskExecutionNode.Execute: the executor completes, wants input or a     *)
(* redirection, fails, or returns a service error.                         *)
(***************************************************************************)
TaskExecution(q, ctx) ==
  LET node == ctx.cur.node
  IN  \/ handleCompletedResponse(q, Writes(ctx))
      \/ IF OnIncomplete[node] = NoNode THEN Pauses(q, Writes(ctx))
         ELSE Moves(q, At(Writes(ctx), OnIncomplete[node]))
      \/ IF OnFailure[node] = NoNode THEN handleFailure(q, Writes(ctx))
         ELSE Moves(q, At(Writes(ctx), OnFailure[node]))
      \/ Ends(q, ctx, "FAILED")

\* promptNode.Execute: an action is chosen, one is still wanted, or it is unknown.
Prompt(q, ctx) ==
  \/ handleCompletedResponse(q, ctx)
  \/ Pauses(q, ctx)
  \/ handleFailure(q, ctx)

(***************************************************************************)
(* executeNodePackage: the visit is counted; a condition may skip the      *)
(* node; the interceptors before it (CAPTCHA) may stop the request or fail *)
(* as a service; then the node runs.                                       *)
(***************************************************************************)
RunNode(q) ==
  LET ctx == request[q].ctx
      node == ctx.cur.node
      kind == KindOf[node]
  IN  \/ OnSkip[node] # NoNode /\ Moves(q, At(ctx, OnSkip[node]))
      \/ Ends(q, ctx, "ERROR")
      \/ Ends(q, ctx, "FAILED")
      \/ kind \in {"START", "END"} /\ handleCompletedResponse(q, ctx)
      \/ kind = "TASK" /\ TaskExecution(q, ctx)
      \/ kind = "PROMPT" /\ Prompt(q, ctx)
      \/ kind = "DISPLAY" /\ handleDisplayOnlyPromptResponse(q, ctx)
      \/ kind = "CALL" /\ handleCallResponse(q, ctx)

executeNodePackage(q) ==
  LET node == request[q].ctx.cur.node
      visits == Visited(request[q].visits, node)
  IN  /\ request[q].pc = "run"
      /\ IF visits[node] > MaxVisits THEN Ends(q, request[q].ctx, "FAILED") ELSE RunNode(q)
      /\ UNCHANGED <<stored, begun, answered, ended, disturbed, requests>>

-----------------------------------------------------------------------------
(***************************************************************************)
(* Writing the context back                                                *)
(***************************************************************************)

Returns(q) == request' = [request EXCEPT ![q] = Idle]

\* Mutant: the context is stored whether or not it is still there.
UpdateFlowContextPuts(ctx) == stored' = ctx

\* Update of the store: the entry is replaced if it is still there.
UpdateFlowContext(ctx) == stored' = IF stored = Nothing THEN Nothing ELSE ctx

\* removeContext and DeleteFlowContext
removeContext == stored' = Nothing /\ ended' = TRUE

(***************************************************************************)
(* The end of execute and of InitiateAndExecute.  A completed execution    *)
(* and one with a service error is removed, any other is written back,     *)
(* failed ones too.  An execution that completes or breaks in its first    *)
(* request was never stored; InitiateAndExecute stores paused ones only.   *)
(***************************************************************************)
Keeps(r) == r.status = "INCOMPLETE" \/ (r.status = "ERROR" /\ r.source # "initiated")

WritesBack(q) ==
  LET r == request[q]
  IN  \/ r.source = "stored" /\ Keeps(r) /\ UpdateFlowContext(r.ctx) /\ UNCHANGED ended
      \/ r.source = "stored" /\ ~Keeps(r) /\ removeContext
      \/ r.source # "stored" /\ Keeps(r) /\ stored' = r.ctx /\ UNCHANGED ended
      \/ r.source # "stored" /\ ~Keeps(r) /\ ended' = TRUE /\ UNCHANGED stored

\* A token reaches the client only when the context was there to be written.
Save(q) ==
  /\ request[q].pc = "save"
  /\ WritesBack(q)
  /\ answered' = IF request[q].status = "INCOMPLETE" /\ stored' # Nothing
                 THEN request[q].ctx.token ELSE answered
  /\ Returns(q)
  /\ UNCHANGED <<begun, issued, disturbed, requests>>

\* The store fails, or its answer is lost: the request is answered with an error.
SaveFails(q) ==
  /\ request[q].pc = "save"
  /\ \/ UNCHANGED <<stored, ended, disturbed>>
     \/ WritesBack(q) /\ disturbed' = TRUE
  /\ Returns(q)
  /\ UNCHANGED <<begun, issued, answered, requests>>

-----------------------------------------------------------------------------
Engine(q) == PreRequest(q) \/ executeNodePackage(q) \/ Save(q)

Next ==
  \/ InitiateFlow
  \/ Expire
  \/ \E q \in Requests : StartNew(q) \/ Continue(q) \/ Engine(q) \/ SaveFails(q)

(***************************************************************************)
(* A request that a server has taken runs on: the engine is a loop in the  *)
(* goroutine of the request.  Clients owe nothing.                         *)
(***************************************************************************)
Fairness == \A q \in Requests : WF_vars(Engine(q))

Spec == Init /\ [][Next]_vars /\ Fairness

-----------------------------------------------------------------------------
(***************************************************************************)
(* Properties                                                              *)
(***************************************************************************)

Contexts == {request[q].ctx : q \in Requests} \cup ({stored} \ {Nothing})

\* The level of calls that was entered from the i-th frame.
Entered(ctx, i) == IF i = Depth(ctx) THEN ctx.cur ELSE ctx.frames[i + 1]

(***************************************************************************)
(* Calls and returns match.  The current node belongs to the current       *)
(* graph, and each saved frame stands at a CALL node of its own graph that *)
(* references the flow above it, at most MaxCallDepth deep: popFrame can   *)
(* always resume.  Requests that overlap, failures, pauses and restored    *)
(* frame stacks do not mix levels.                                         *)
(***************************************************************************)
WellNested(ctx) ==
  /\ ctx.cur.node \in NodesOf(ctx.cur.graph) \cup {NoNode}
  /\ Depth(ctx) <= MaxCallDepth
  /\ \A i \in 1..Depth(ctx) :
       /\ ctx.frames[i].node \in NodesOf(ctx.frames[i].graph)
       /\ KindOf[ctx.frames[i].node] = "CALL"
       /\ Callee[ctx.frames[i].node] = Entered(ctx, i).graph

CallsMatch == \A ctx \in Contexts : WellNested(ctx)

(***************************************************************************)
(* Levels are isolated.  The runtime data of a level come from that level, *)
(* and a level is bounded exactly when it and all its callers are sign-in  *)
(* flows: "a sign-in callee is bounded only inside a bounded caller", and  *)
(* a caller gets both back as they were.                                   *)
(***************************************************************************)
Isolated(ctx) ==
  /\ ctx.cur.data \subseteq {Depth(ctx)}
  /\ \A i \in 1..Depth(ctx) : ctx.frames[i].data \subseteq {i - 1}
  /\ ctx.cur.bounded <=>
       (ctx.cur.graph \in SignIn /\ \A i \in 1..Depth(ctx) : ctx.frames[i].graph \in SignIn)

LevelsIsolated == \A ctx \in Contexts : Isolated(ctx)

(***************************************************************************)
(* An execution that completed, broke or expired is over.  No request that *)
(* was under way at that time brings its context back.                     *)
(***************************************************************************)
EndedStaysEnded == ended => stored = Nothing

(***************************************************************************)
(* A client that sends one request at a time can always go on: the stored  *)
(* context expects the token of the last answer that carried one, whatever *)
(* requests were refused, failed in a node or could not be written in      *)
(* between.  A write that goes through while its answer is lost is beyond  *)
(* this: its token is known to nobody.                                     *)
(***************************************************************************)
ClientCanContinue ==
  (~disturbed /\ stored # Nothing /\ \A q \in Requests : ~InFlight(q)) =>
    stored.token = answered

(***************************************************************************)
(* Every request is answered, also in a flow whose nodes forward to each   *)
(* other without waiting for the user: the limit on visits breaks cycles,  *)
(* the one on depth recursion.                                             *)
(***************************************************************************)
RequestsEnd == \A q \in Requests : InFlight(q) ~> ~InFlight(q)
=============================================================================
