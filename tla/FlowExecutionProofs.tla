------------------------ MODULE FlowExecutionProofs -------------------------
(* Theorems about FlowExecution: the levels of calls of an execution match *)
(* and do not mix, what ended stays ended, and a client that sends one     *)
(* request at a time can go on, for any flow definitions, any number of    *)
(* overlapping requests, and any limits.                                   *)
EXTENDS FlowExecution, SequenceTheorems, TLAPS

(***************************************************************************)
(* Isolated says nothing of the boundary of the callers, which popFrame    *)
(* hands back.  The strengthening says of each of them what Isolated says  *)
(* of the current level.                                                   *)
(***************************************************************************)
CallersBounded(ctx) ==
  \A i \in 1..Depth(ctx) :
    ctx.frames[i].bounded <=> \A j \in 1..i : ctx.frames[j].graph \in SignIn

Levels(ctx) == ctx \in Context /\ WellNested(ctx) /\ Isolated(ctx) /\ CallersBounded(ctx)

\* A request that runs nodes has one.
RequestSound(r) ==
  r \in Request /\ Levels(r.ctx) /\ (r.pc = "run" => r.ctx.cur.node \in Nodes)

(***************************************************************************)
(* The inductive invariant: every context, stored or in the hands of a     *)
(* request, has sound levels.                                              *)
(***************************************************************************)
Sound ==
  /\ stored = Nothing \/ Levels(stored)
  /\ request \in [Requests -> Request]
  /\ \A q \in Requests : RequestSound(request[q])
  /\ issued \in Nat

-----------------------------------------------------------------------------
(* What the operations on a context do to its levels.                      *)

\* The levels are those of the current level and the frames.
LEMMA SameLevels ==
  ASSUME NEW ctx \in Context, Levels(ctx), NEW new \in Context,
         new.cur.graph = ctx.cur.graph, new.cur.bounded = ctx.cur.bounded,
         new.cur.data \subseteq ctx.cur.data \cup {Depth(ctx)},
         new.cur.node \in NodesOf(ctx.cur.graph) \cup {NoNode},
         new.frames = ctx.frames
  PROVE  Levels(new)
BY DEF Levels, WellNested, Isolated, CallersBounded, Entered, Depth

LEMMA CurrentFrame ==
  ASSUME NEW ctx \in Context
  PROVE  ctx.cur \in Frame /\ ctx.frames \in Seq(Frame) /\ Depth(ctx) \in Nat
BY DEF Context, Depth

LEMMA AtLevels ==
  ASSUME NEW ctx, Levels(ctx), NEW n \in NodesOf(ctx.cur.graph) \cup {NoNode}
  PROVE  Levels(At(ctx, n)) /\ At(ctx, n).cur.node = n
<1>1. ctx \in Context /\ ctx.cur \in Frame
  BY CurrentFrame DEF Levels
<1>2. At(ctx, n) \in Context /\ At(ctx, n).frames = ctx.frames
      /\ At(ctx, n).cur = [ctx.cur EXCEPT !.node = n]
  BY <1>1 DEF At, Context, Frame, NodesOf
<1> QED
  BY <1>1, <1>2, SameLevels DEF Frame, Levels

LEMMA WritesLevels ==
  ASSUME NEW ctx, Levels(ctx)
  PROVE  Levels(Writes(ctx)) /\ Writes(ctx).cur.node = ctx.cur.node
         /\ Writes(ctx).cur.graph = ctx.cur.graph /\ Depth(Writes(ctx)) = Depth(ctx)
<1>1. ctx \in Context /\ ctx.cur \in Frame /\ Depth(ctx) \in Nat
  BY CurrentFrame DEF Levels
<1>2. Writes(ctx) \in Context /\ Writes(ctx).frames = ctx.frames
      /\ Writes(ctx).cur = [ctx.cur EXCEPT !.data = @ \cup {Depth(ctx)}]
  BY <1>1 DEF Writes, Context, Frame
<1>3. ctx.cur.node \in NodesOf(ctx.cur.graph) \cup {NoNode}
  BY DEF Levels, WellNested
<1> QED
  BY <1>1, <1>2, <1>3, SameLevels DEF Frame, Depth

\* rotateChallengeToken, loadPrevContext
LEMMA TokenLevels ==
  ASSUME NEW ctx, Levels(ctx), NEW token \in Nat, NEW tokenIn \in Nat,
         NEW new, new = [ctx EXCEPT !.token = token, !.tokenIn = tokenIn]
  PROVE  Levels(new) /\ new.cur = ctx.cur
<1>1. ctx \in Context /\ ctx.cur \in Frame
  BY CurrentFrame DEF Levels
<1>2. new \in Context /\ new.frames = ctx.frames /\ new.cur = ctx.cur
  BY <1>1 DEF Context
<1>3. ctx.cur.node \in NodesOf(ctx.cur.graph) \cup {NoNode}
  BY DEF Levels, WellNested
<1> QED
  BY <1>1, <1>2, <1>3, SameLevels

LEMMA SegmentLevels ==
  ASSUME NEW ctx, Levels(ctx), NEW n \in NodesOf(ctx.cur.graph)
  PROVE  Levels([ctx EXCEPT !.cur.node = n, !.cur.segment = n])
<1> DEFINE new == [ctx EXCEPT !.cur.node = n, !.cur.segment = n]
<1>1. ctx \in Context /\ ctx.cur \in Frame
  BY CurrentFrame DEF Levels
<1>2. new \in Context /\ new.frames = ctx.frames
      /\ new.cur = [ctx.cur EXCEPT !.node = n, !.segment = n]
  BY <1>1 DEF Context, Frame, NodesOf
<1> HIDE DEF new
<1>3. /\ new.cur.graph = ctx.cur.graph /\ new.cur.bounded = ctx.cur.bounded
      /\ new.cur.data = ctx.cur.data /\ new.cur.node = n
  BY <1>1, <1>2 DEF Frame
<1>4. Levels(new)
  BY <1>1, <1>2, <1>3, SameLevels
<1> QED
  BY <1>4 DEF new

LEMMA InitLevels ==
  ASSUME NEW data \in SUBSET {0}
  PROVE  Levels(initContext(data))
<1> DEFINE ctx == initContext(data)
<1>1. ctx \in Context
  BY FlowExecutionConstants DEF initContext, NewFrame, Context, Frame, NoToken
<1>2. /\ ctx.cur.node = NoNode /\ ctx.cur.data = data /\ ctx.cur.graph = Root
      /\ ctx.cur.bounded = (Root \in SignIn) /\ Depth(ctx) = 0
  BY DEF initContext, NewFrame, Depth
<1> HIDE DEF ctx
<1>3. 1..Depth(ctx) = {}
  BY <1>2
<1>4. WellNested(ctx) /\ CallersBounded(ctx)
  BY <1>2, <1>3, FlowExecutionConstants DEF WellNested, CallersBounded
<1>5. Isolated(ctx)
  <2>1. ctx.cur.bounded <=> ctx.cur.graph \in SignIn
    BY <1>2
  <2> QED BY <1>2, <1>3, <2>1 DEF Isolated
<1> QED
  BY <1>1, <1>4, <1>5 DEF Levels, ctx

(***************************************************************************)
(* A context with one level more than another.  Calls go from caller to    *)
(* callee, returns the other way.                                          *)
(***************************************************************************)
OneMore(caller, callee) ==
  /\ Depth(callee) = Depth(caller) + 1
  /\ callee.frames[Depth(callee)] = caller.cur
  /\ \A i \in 1..Depth(caller) : callee.frames[i] = caller.frames[i]

LEMMA LevelCases ==
  ASSUME NEW caller \in Context, NEW callee \in Context, OneMore(caller, callee),
         NEW i \in 1..Depth(callee)
  PROVE  \/ i = Depth(callee) /\ callee.frames[i] = caller.cur
         \/ i \in 1..Depth(caller) /\ callee.frames[i] = caller.frames[i]
<1>1. Depth(caller) \in Nat
  BY CurrentFrame
<1>2. i = Depth(callee) \/ i \in 1..Depth(caller)
  BY <1>1 DEF OneMore
<1> QED
  BY <1>2 DEF OneMore

LEMMA SignInAbove ==
  ASSUME NEW caller \in Context, NEW callee \in Context, OneMore(caller, callee)
  PROVE  (\A i \in 1..Depth(callee) : callee.frames[i].graph \in SignIn)
           <=> (caller.cur.graph \in SignIn /\ \A i \in 1..Depth(caller) : caller.frames[i].graph \in SignIn)
<1>1. Depth(caller) \in Nat
  BY CurrentFrame
<1> QED
  BY <1>1, LevelCases DEF OneMore

\* A call adds a level above the caller's.
LEMMA CalleeLevels ==
  ASSUME NEW caller, Levels(caller), NEW callee \in Context, OneMore(caller, callee),
         Depth(callee) <= MaxCallDepth, caller.cur.node \in Nodes, KindOf[caller.cur.node] = "CALL",
         callee.cur.graph = Callee[caller.cur.node],
         callee.cur.node \in NodesOf(callee.cur.graph), callee.cur.data = {},
         callee.cur.bounded <=> (caller.cur.bounded /\ callee.cur.graph \in SignIn)
  PROVE  Levels(callee)
<1>1. caller \in Context /\ Depth(caller) \in Nat
  BY CurrentFrame DEF Levels
<1>2. WellNested(callee)
  <2>1. ASSUME NEW i \in 1..Depth(callee)
        PROVE  /\ callee.frames[i].node \in NodesOf(callee.frames[i].graph)
               /\ KindOf[callee.frames[i].node] = "CALL"
               /\ Callee[callee.frames[i].node] = Entered(callee, i).graph
    <3>1. CASE i = Depth(callee) /\ callee.frames[i] = caller.cur
      <4>1. caller.cur.node \in NodesOf(caller.cur.graph)
        BY FlowExecutionConstants DEF Levels, WellNested
      <4> QED BY <3>1, <4>1 DEF Entered
    <3>2. CASE i \in 1..Depth(caller) /\ callee.frames[i] = caller.frames[i]
      <4>1. Entered(callee, i) = Entered(caller, i)
        BY <1>1, <3>2 DEF Entered, OneMore
      <4> QED BY <3>2, <4>1 DEF Levels, WellNested
    <3> QED BY <1>1, <3>1, <3>2, LevelCases
  <2> QED BY <2>1 DEF WellNested
<1>3. Isolated(callee)
  <2>1. ASSUME NEW i \in 1..Depth(callee) PROVE callee.frames[i].data \subseteq {i - 1}
    <3>1. CASE i = Depth(callee) /\ callee.frames[i] = caller.cur
      <4>1. caller.cur.data \subseteq {Depth(caller)} /\ i - 1 = Depth(caller)
        BY <1>1, <3>1 DEF Levels, Isolated, OneMore
      <4> QED BY <3>1, <4>1
    <3>2. CASE i \in 1..Depth(caller) /\ callee.frames[i] = caller.frames[i]
      BY <3>2 DEF Levels, Isolated
    <3> QED BY <1>1, <3>1, <3>2, LevelCases
  <2>2. callee.cur.bounded <=>
          (callee.cur.graph \in SignIn /\ \A i \in 1..Depth(callee) : callee.frames[i].graph \in SignIn)
    BY <1>1, SignInAbove, Zenon DEF Levels, Isolated
  <2> QED BY <2>1, <2>2 DEF Isolated
<1>4. CallersBounded(callee)
  <2> SUFFICES ASSUME NEW i \in 1..Depth(callee)
               PROVE  callee.frames[i].bounded <=> \A j \in 1..i : callee.frames[j].graph \in SignIn
    BY DEF CallersBounded
  <2>1. CASE i = Depth(callee) /\ callee.frames[i] = caller.cur
    <3>1. caller.cur.bounded <=> \A j \in 1..Depth(callee) : callee.frames[j].graph \in SignIn
      BY <1>1, SignInAbove, Zenon DEF Levels, Isolated
    <3> QED BY <2>1, <3>1, Zenon
  <2>2. CASE i \in 1..Depth(caller) /\ callee.frames[i] = caller.frames[i]
    <3>1. \A j \in 1..i : callee.frames[j] = caller.frames[j]
      BY <1>1, <2>2 DEF OneMore
    <3>2. caller.frames[i].bounded <=> \A j \in 1..i : caller.frames[j].graph \in SignIn
      BY <2>2 DEF Levels, CallersBounded
    <3> QED BY <2>2, <3>1, <3>2, Zenon
  <2> QED BY <1>1, <2>1, <2>2, LevelCases
<1> QED
  BY <1>2, <1>3, <1>4 DEF Levels

\* A return gives back the level of the caller.
LEMMA CallerLevels ==
  ASSUME NEW callee, Levels(callee), NEW caller \in Context, OneMore(caller, callee)
  PROVE  /\ Levels(caller) /\ caller.cur.node \in NodesOf(caller.cur.graph)
         /\ KindOf[caller.cur.node] = "CALL"
<1> DEFINE d == Depth(caller)
<1>1. callee \in Context /\ d \in Nat /\ Depth(callee) = d + 1 /\ d + 1 \in 1..Depth(callee)
  BY CurrentFrame DEF Levels, OneMore
<1>2. callee.frames[d + 1] = caller.cur /\ \A i \in 1..d : i \in 1..(d + 1) /\ callee.frames[i] = caller.frames[i]
  BY <1>1 DEF OneMore
<1>3. caller.cur.node \in NodesOf(caller.cur.graph) /\ KindOf[caller.cur.node] = "CALL"
  BY <1>1, <1>2 DEF Levels, WellNested
<1>4. WellNested(caller)
  <2>1. ASSUME NEW i \in 1..d
        PROVE  /\ caller.frames[i].node \in NodesOf(caller.frames[i].graph)
               /\ KindOf[caller.frames[i].node] = "CALL"
               /\ Callee[caller.frames[i].node] = Entered(caller, i).graph
    <3>1. Entered(callee, i) = Entered(caller, i)
      BY <1>1, <1>2 DEF Entered
    <3> QED BY <1>1, <1>2, <3>1 DEF Levels, WellNested
  <2>2. d <= MaxCallDepth
    BY <1>1, FlowExecutionConstants DEF Levels, WellNested
  <2> QED BY <1>3, <2>1, <2>2 DEF WellNested
<1>5. Isolated(caller)
  <2>1. caller.cur.data \subseteq {d}
    <3>1. callee.frames[d + 1].data \subseteq {(d + 1) - 1}
      BY <1>1 DEF Levels, Isolated
    <3> QED BY <1>1, <1>2, <3>1
  <2>2. \A i \in 1..d : caller.frames[i].data \subseteq {i - 1}
    BY <1>1, <1>2 DEF Levels, Isolated
  <2>3. callee.frames[d + 1].bounded <=> \A j \in 1..Depth(callee) : callee.frames[j].graph \in SignIn
    BY <1>1 DEF Levels, CallersBounded
  <2>4. caller.cur.bounded <=>
          (caller.cur.graph \in SignIn /\ \A i \in 1..d : caller.frames[i].graph \in SignIn)
    BY <1>1, <1>2, <2>3, SignInAbove, Zenon
  <2> QED BY <2>1, <2>2, <2>4 DEF Isolated
<1>6. CallersBounded(caller)
  <2> SUFFICES ASSUME NEW i \in 1..d
               PROVE  caller.frames[i].bounded <=> \A j \in 1..i : caller.frames[j].graph \in SignIn
    BY DEF CallersBounded
  <2>1. \A j \in 1..i : callee.frames[j] = caller.frames[j]
    BY <1>1, <1>2
  <2>2. i \in 1..Depth(callee) /\ callee.frames[i] = caller.frames[i]
    BY <1>1, <1>2
  <2>3. callee.frames[i].bounded <=> \A j \in 1..i : callee.frames[j].graph \in SignIn
    BY <2>2 DEF Levels, CallersBounded
  <2> QED BY <2>1, <2>2, <2>3, Zenon
<1> QED
  BY <1>3, <1>4, <1>5, <1>6 DEF Levels

LEMMA PushLevels ==
  ASSUME NEW ctx, Levels(ctx), ctx.cur.node \in Nodes,
         KindOf[ctx.cur.node] = "CALL", Depth(ctx) < MaxCallDepth
  PROVE  LET new == pushFrame(ctx, Callee[ctx.cur.node])
         IN  Levels(new) /\ new.cur.node \in Nodes
<1> DEFINE g == Callee[ctx.cur.node]
           new == pushFrame(ctx, g)
           cur == [graph |-> g, node |-> StartOf[g], bounded |-> ctx.cur.bounded /\ g \in SignIn,
                   segment |-> NoNode, data |-> {}]
           frames == Append(ctx.frames, ctx.cur)
<1>1. ctx \in Context /\ ctx.cur \in Frame /\ Depth(ctx) \in Nat /\ ctx.frames \in Seq(Frame)
  BY CurrentFrame DEF Levels
<1>2. g \in Graphs /\ StartOf[g] \in NodesOf(g) /\ StartOf[g] \in Nodes
  BY FlowExecutionConstants DEF NodesOf
<1>3. frames \in Seq(Frame) /\ Len(frames) = Len(ctx.frames) + 1
      /\ frames[Len(ctx.frames) + 1] = ctx.cur
      /\ \A i \in 1..Len(ctx.frames) : frames[i] = ctx.frames[i]
  BY <1>1, AppendProperties
<1>4. cur \in Frame
  <2>1. \A b \in BOOLEAN : [graph |-> g, node |-> StartOf[g], bounded |-> b,
                            segment |-> NoNode, data |-> {}] \in Frame
    BY <1>2 DEF Frame
  <2>2. (ctx.cur.bounded /\ g \in SignIn) \in BOOLEAN
    OBVIOUS
  <2> QED BY <2>1, <2>2, Zenon
<1>5. new = [ctx EXCEPT !.cur = cur, !.frames = frames]
  <2>1. [NewFrame(g, ctx.cur.bounded /\ g \in SignIn, {}) EXCEPT !.node = StartOf[g]] = cur
    BY DEF NewFrame
  <2> QED BY <1>1, <2>1 DEF pushFrame, Context
<1>6. /\ cur.graph = g /\ cur.node = StartOf[g] /\ cur.data = {}
      /\ cur.bounded = (ctx.cur.bounded /\ g \in SignIn)
  OBVIOUS
<1> HIDE DEF new, cur, frames
<1>7. new \in Context /\ new.cur = cur /\ new.frames = frames
  <2>1. ctx \in Context /\ cur \in Frame /\ frames \in Seq(Frame)
    BY <1>1, <1>3, <1>4
  <2> QED BY <2>1, <1>5 DEF Context
<1>8. OneMore(ctx, new) /\ Depth(new) <= MaxCallDepth
  BY <1>1, <1>3, <1>7, FlowExecutionConstants DEF OneMore, Depth
<1>9. new.cur.bounded <=> (ctx.cur.bounded /\ new.cur.graph \in SignIn)
  BY <1>6, <1>7, Zenon
<1>10. Levels(new) /\ new.cur.node \in Nodes
  BY <1>2, <1>6, <1>7, <1>8, <1>9, CalleeLevels
<1> QED
  BY <1>10 DEF new

LEMMA PopLevels ==
  ASSUME NEW ctx, Levels(ctx), Depth(ctx) > 0
  PROVE  /\ Levels(popFrame(ctx)) /\ popFrame(ctx).cur.node \in NodesOf(popFrame(ctx).cur.graph)
         /\ KindOf[popFrame(ctx).cur.node] = "CALL"
<1> DEFINE new == popFrame(ctx)
           d == Depth(ctx) - 1
           cur == ctx.frames[Depth(ctx)]
           frames == SubSeq(ctx.frames, 1, d)
<1>1. ctx \in Context /\ Depth(ctx) \in Nat /\ ctx.frames \in Seq(Frame)
  BY CurrentFrame DEF Levels
<1>2. d \in Nat /\ d + 1 = Depth(ctx) /\ d + 1 \in 1..Depth(ctx)
  BY <1>1
<1>3. \A i \in 1..Depth(ctx) : ctx.frames[i] \in Frame
  BY <1>1, ElementOfSeq DEF Depth
<1>4. new = [ctx EXCEPT !.cur = cur, !.frames = frames]
  BY <1>1 DEF popFrame, Context
<1>5. frames \in Seq(Frame) /\ Len(frames) = d /\ \A i \in 1..d : frames[i] = ctx.frames[i]
  <2>1. \A i \in 1..d : ctx.frames[i] \in Frame
    BY <1>1, <1>3
  <2>2. /\ SubSeq(ctx.frames, 1, d) \in Seq(Frame)
        /\ Len(SubSeq(ctx.frames, 1, d)) = IF 1 <= d THEN d - 1 + 1 ELSE 0
        /\ \A i \in 1..(d - 1 + 1) : SubSeq(ctx.frames, 1, d)[i] = ctx.frames[1 + i - 1]
    BY <1>2, <2>1, SubSeqProperties
  <2>3. ASSUME NEW i \in 1..d PROVE frames[i] = ctx.frames[i]
    <3>1. i \in 1..(d - 1 + 1) /\ 1 + i - 1 = i
      BY <1>2
    <3> QED BY <2>2, <3>1
  <2> QED BY <1>2, <2>2, <2>3
<1>6. cur \in Frame
  BY <1>2, <1>3
<1> HIDE DEF new, cur, frames
<1>7. new \in Context /\ new.cur = cur /\ new.frames = frames
  <2>1. ctx \in Context /\ cur \in Frame /\ frames \in Seq(Frame)
    BY <1>1, <1>5, <1>6
  <2> QED BY <2>1, <1>4 DEF Context
<1>8. OneMore(new, ctx)
  <2>1. Depth(new) = d
    BY <1>5, <1>7 DEF Depth
  <2> QED BY <1>2, <1>5, <1>7, <2>1 DEF OneMore, cur
<1>9. /\ Levels(new) /\ new.cur.node \in NodesOf(new.cur.graph)
      /\ KindOf[new.cur.node] = "CALL"
  BY <1>7, <1>8, CallerLevels
<1> QED
  BY <1>9 DEF new

-----------------------------------------------------------------------------
(* The steps of a request.                                                 *)

\* Another value for one request.
LEMMA RequestChanges ==
  ASSUME Sound, NEW q \in Requests, NEW r, RequestSound(r),
         request' = [request EXCEPT ![q] = r]
  PROVE  /\ request' \in [Requests -> Request]
         /\ \A p \in Requests : RequestSound(request'[p])
<1>1. r \in Request
  BY DEF RequestSound
<1>2. \A p \in Requests : request'[p] = IF p = q THEN r ELSE request[p]
  BY DEF Sound
<1> QED
  BY <1>1, <1>2 DEF Sound

LEMMA MovesSound ==
  ASSUME Sound, NEW q \in Requests, request[q].pc = "run",
         NEW ctx, Levels(ctx), ctx.cur.node \in Nodes, Moves(q, ctx), UNCHANGED stored
  PROVE  Sound'
<1> DEFINE r == [request[q] EXCEPT !.ctx = ctx, !.visits = Visited(@, request[q].ctx.cur.node)]
<1>1. RequestSound(request[q])
  BY DEF Sound
<1>2. request' = [request EXCEPT ![q] = r] /\ issued' = issued
  BY <1>1 DEF Moves, Sound, RequestSound, Request
<1>3. Visited(request[q].visits, request[q].ctx.cur.node) \in [Nodes -> Nat]
  BY <1>1 DEF RequestSound, Request, Visited
<1>4. r \in Request /\ r.ctx = ctx
  BY <1>1, <1>3 DEF RequestSound, Request, Levels
<1>5. RequestSound(r)
  BY <1>4 DEF RequestSound
<1> HIDE DEF r
<1> QED
  BY <1>2, <1>5, RequestChanges DEF Sound

LEMMA StopsSound ==
  ASSUME Sound, NEW q \in Requests, NEW ctx, Levels(ctx), NEW status \in Statuses,
         Stops(q, ctx, status), issued' \in Nat, UNCHANGED stored
  PROVE  Sound'
<1> DEFINE r == [request[q] EXCEPT !.pc = "save", !.ctx = ctx, !.status = status]
<1>1. RequestSound(request[q])
  BY DEF Sound
<1>2. request' = [request EXCEPT ![q] = r]
  BY <1>1 DEF Stops, Sound, RequestSound, Request
<1>3. r \in Request /\ r.ctx = ctx /\ r.pc = "save"
  BY <1>1 DEF RequestSound, Request, Levels
<1>4. RequestSound(r)
  BY <1>3 DEF RequestSound
<1> HIDE DEF r
<1> QED
  BY <1>2, <1>4, RequestChanges DEF Sound

LEMMA EndsSound ==
  ASSUME Sound, NEW q \in Requests, NEW ctx, Levels(ctx),
         NEW status \in {"ERROR", "COMPLETE", "FAILED"}, Ends(q, ctx, status), UNCHANGED stored
  PROVE  Sound'
<1>1. status \in Statuses /\ issued' \in Nat
  BY DEF Ends, Sound, Statuses
<1> QED
  BY <1>1, StopsSound DEF Ends

LEMMA PausesSound ==
  ASSUME Sound, NEW q \in Requests, NEW ctx, Levels(ctx), Pauses(q, ctx), UNCHANGED stored
  PROVE  Sound'
<1>1. issued + 1 \in Nat /\ issued' \in Nat
  BY DEF Pauses, Sound
<1>2. Levels(rotateChallengeToken(ctx, issued + 1))
  BY <1>1, TokenLevels DEF rotateChallengeToken, NoToken
<1> QED
  BY <1>1, <1>2, StopsSound DEF Pauses, Statuses

\* The node a running request is at, and where its edges lead.
LEMMA Edges ==
  ASSUME NEW ctx, Levels(ctx), ctx.cur.node \in Nodes
  PROVE  /\ ctx.cur.node \in NodesOf(ctx.cur.graph)
         /\ OnSuccess[ctx.cur.node] \subseteq NodesOf(ctx.cur.graph)
         /\ OnFailure[ctx.cur.node] # NoNode => OnFailure[ctx.cur.node] \in NodesOf(ctx.cur.graph)
         /\ OnIncomplete[ctx.cur.node] # NoNode => OnIncomplete[ctx.cur.node] \in NodesOf(ctx.cur.graph)
         /\ OnSkip[ctx.cur.node] # NoNode => OnSkip[ctx.cur.node] \in NodesOf(ctx.cur.graph)
         /\ (OnSuccess[ctx.cur.node] = {}) <=> (KindOf[ctx.cur.node] = "END")
<1>1. ctx.cur.node \in NodesOf(ctx.cur.graph) /\ GraphOf[ctx.cur.node] = ctx.cur.graph
  BY FlowExecutionConstants DEF Levels, WellNested, NodesOf
<1> QED
  BY <1>1, FlowExecutionConstants

LEMMA CompletedSound ==
  ASSUME Sound, NEW q \in Requests, request[q].pc = "run", NEW ctx, Levels(ctx),
         ctx.cur.node \in Nodes, handleCompletedResponse(q, ctx), UNCHANGED stored
  PROVE  Sound'
<1>1. CASE \E n \in OnSuccess[ctx.cur.node] : Moves(q, At(ctx, n))
  <2>1. PICK n \in OnSuccess[ctx.cur.node] : Moves(q, At(ctx, n))
    BY <1>1
  <2>2. n \in NodesOf(ctx.cur.graph) /\ n \in Nodes
    BY Edges DEF NodesOf
  <2> QED BY <2>1, <2>2, AtLevels, MovesSound
<1>2. CASE /\ Depth(ctx) > 0
           /\ \E n \in OnSuccess[popFrame(ctx).cur.node] : Moves(q, At(popFrame(ctx), n))
  <2>1. Levels(popFrame(ctx)) /\ popFrame(ctx).cur.node \in Nodes
    BY <1>2, PopLevels DEF NodesOf
  <2>2. PICK n \in OnSuccess[popFrame(ctx).cur.node] : Moves(q, At(popFrame(ctx), n))
    BY <1>2
  <2>3. n \in NodesOf(popFrame(ctx).cur.graph) /\ n \in Nodes
    BY <2>1, Edges DEF NodesOf
  <2> QED BY <2>1, <2>2, <2>3, AtLevels, MovesSound
<1>3. CASE Ends(q, At(ctx, NoNode), "COMPLETE")
  BY <1>3, AtLevels, EndsSound
<1> QED
  BY <1>1, <1>2, <1>3 DEF handleCompletedResponse

LEMMA FailureSound ==
  ASSUME Sound, NEW q \in Requests, request[q].pc = "run", NEW ctx, Levels(ctx),
         handleFailure(q, ctx), UNCHANGED stored
  PROVE  Sound'
<1>1. CASE Depth(ctx) = 0
  BY <1>1, EndsSound DEF handleFailure
<1>2. CASE Depth(ctx) # 0
  <2> DEFINE caller == popFrame(ctx)
             target == OnFailure[caller.cur.node]
  <2>1. Depth(ctx) > 0
    BY <1>2, CurrentFrame DEF Levels
  <2>2. Levels(caller) /\ caller.cur.node \in Nodes
    BY <2>1, PopLevels DEF NodesOf
  <2>3. CASE target = NoNode
    BY <1>2, <2>2, <2>3, EndsSound DEF handleFailure
  <2>4. CASE target # NoNode
    <3>1. target \in NodesOf(caller.cur.graph) /\ target \in Nodes
      BY <2>2, <2>4, Edges DEF NodesOf
    <3>2. Moves(q, At(caller, target))
      BY <1>2, <2>4 DEF handleFailure
    <3> HIDE DEF caller, target
    <3> QED BY <2>2, <3>1, <3>2, AtLevels, MovesSound
  <2> QED BY <2>3, <2>4
<1> QED
  BY <1>1, <1>2

LEMMA TaskSound ==
  ASSUME Sound, NEW q \in Requests, request[q].pc = "run", NEW ctx, Levels(ctx),
         ctx.cur.node \in Nodes, TaskExecution(q, ctx), UNCHANGED stored
  PROVE  Sound'
<1> DEFINE new == Writes(ctx)
<1>1. Levels(new) /\ new.cur.node = ctx.cur.node /\ new.cur.graph = ctx.cur.graph
  BY WritesLevels
<1>2. CASE handleCompletedResponse(q, new)
  BY <1>1, <1>2, CompletedSound
<1>3. CASE Pauses(q, new)
  BY <1>1, <1>3, PausesSound
<1>4. CASE handleFailure(q, new)
  BY <1>1, <1>4, FailureSound
<1>5. ASSUME NEW n \in {OnIncomplete[ctx.cur.node], OnFailure[ctx.cur.node]}, n # NoNode, Moves(q, At(new, n))
      PROVE  Sound'
  <2>1. n \in NodesOf(new.cur.graph) /\ n \in Nodes
    BY <1>1, <1>5, Edges DEF NodesOf
  <2> QED BY <1>1, <1>5, <2>1, AtLevels, MovesSound
<1>6. CASE Ends(q, ctx, "FAILED")
  BY <1>6, EndsSound
<1> QED
  BY <1>2, <1>3, <1>4, <1>5, <1>6 DEF TaskExecution

LEMMA NodeSound ==
  ASSUME Sound, NEW q \in Requests, executeNodePackage(q)
  PROVE  Sound'
<1> DEFINE ctx == request[q].ctx
           node == ctx.cur.node
<1>1. request[q].pc = "run" /\ Levels(ctx) /\ node \in Nodes /\ UNCHANGED stored
  BY DEF executeNodePackage, Sound, RequestSound
<1>2. CASE Ends(q, ctx, "FAILED") \/ Ends(q, ctx, "ERROR")
  BY <1>1, <1>2, EndsSound
<1>3. CASE OnSkip[node] # NoNode /\ Moves(q, At(ctx, OnSkip[node]))
  <2>1. OnSkip[node] \in NodesOf(ctx.cur.graph) /\ OnSkip[node] \in Nodes
    BY <1>1, <1>3, Edges DEF NodesOf
  <2> QED BY <1>1, <1>3, <2>1, AtLevels, MovesSound
<1>4. CASE handleCompletedResponse(q, ctx)
  BY <1>1, <1>4, CompletedSound
<1>5. CASE TaskExecution(q, ctx)
  BY <1>1, <1>5, TaskSound
<1>6. CASE Prompt(q, ctx)
  BY <1>1, <1>6, CompletedSound, PausesSound, FailureSound DEF Prompt
<1>7. CASE handleDisplayOnlyPromptResponse(q, ctx)
  <2>1. PICK n \in OnSuccess[node] :
          \/ Ends(q, ctx, "COMPLETE")
          \/ Pauses(q, [ctx EXCEPT !.cur.node = n, !.cur.segment = n])
    BY <1>7 DEF handleDisplayOnlyPromptResponse
  <2>2. n \in NodesOf(ctx.cur.graph)
    BY <1>1, Edges
  <2> QED BY <1>1, <2>1, <2>2, EndsSound, SegmentLevels, PausesSound
<1>8. CASE KindOf[node] = "CALL" /\ handleCallResponse(q, ctx)
  <2>1. CASE Depth(ctx) >= MaxCallDepth
    BY <1>1, <1>8, <2>1, EndsSound DEF handleCallResponse
  <2>2. CASE ~(Depth(ctx) >= MaxCallDepth)
    <3>1. Depth(ctx) < MaxCallDepth
      BY <1>1, <2>2, CurrentFrame, FlowExecutionConstants DEF Levels
    <3>2. Moves(q, pushFrame(ctx, Callee[node]))
      BY <1>8, <2>2 DEF handleCallResponse
    <3> QED BY <1>1, <1>8, <3>1, <3>2, PushLevels, MovesSound
  <2> QED BY <2>1, <2>2
<1> QED
  BY <1>2, <1>3, <1>4, <1>5, <1>6, <1>7, <1>8 DEF executeNodePackage, RunNode

LEMMA StartsSound ==
  ASSUME Sound, NEW q \in Requests, NEW source \in Sources, NEW ctx, Levels(ctx),
         Starts(q, source, ctx), UNCHANGED <<stored, issued>>
  PROVE  Sound'
<1> DEFINE r == [pc |-> "loaded", source |-> source, ctx |-> ctx, visits |-> NoVisits, status |-> "NONE"]
<1>1. request' = [request EXCEPT ![q] = r]
  BY DEF Starts
<1>2. r \in Request
  BY DEF Request, NoVisits, Statuses, Levels
<1>3. RequestSound(r)
  BY <1>2 DEF RequestSound
<1> HIDE DEF r
<1> QED
  BY <1>1, <1>3, RequestChanges DEF Sound

LEMMA PreRequestSound ==
  ASSUME Sound, NEW q \in Requests, PreRequest(q)
  PROVE  Sound'
<1> DEFINE ctx == setCurrentExecutionNode(request[q].ctx)
           r == [request[q] EXCEPT !.pc = "run", !.ctx = ctx]
<1>1. RequestSound(request[q]) /\ Levels(request[q].ctx)
  BY DEF Sound, RequestSound
<1>2. Levels(ctx) /\ ctx.cur.node \in Nodes
  <2> DEFINE old == request[q].ctx
             n == IF old.cur.node = NoNode THEN StartOf[old.cur.graph] ELSE old.cur.node
  <2>1. old \in Context /\ old.cur \in Frame
    BY <1>1, CurrentFrame DEF Levels
  <2>2. n \in NodesOf(old.cur.graph) /\ n \in Nodes
    BY <1>1, <2>1, FlowExecutionConstants DEF Levels, WellNested, NodesOf, Frame
  <2>3. ctx = At(old, n)
    BY <2>1 DEF setCurrentExecutionNode, At, Context, Frame
  <2> HIDE DEF ctx, old, n
  <2> QED BY <1>1, <2>2, <2>3, AtLevels DEF old
<1>3. CASE request' = [request EXCEPT ![q].pc = "run", ![q].ctx = ctx]
  <2>1. request' = [request EXCEPT ![q] = r]
    BY <1>1, <1>3 DEF Sound, RequestSound, Request
  <2>2. r \in Request /\ r.ctx = ctx
    BY <1>1, <1>2 DEF RequestSound, Request, Levels
  <2>3. RequestSound(r)
    BY <1>2, <2>2 DEF RequestSound
  <2> HIDE DEF r
  <2> QED BY <2>1, <2>3, RequestChanges DEF Sound, PreRequest
<1>4. CASE Stops(q, ctx, "ERROR")
  BY <1>2, <1>4, StopsSound DEF PreRequest, Statuses, Sound
<1> QED
  BY <1>3, <1>4 DEF PreRequest

LEMMA SaveSound ==
  ASSUME Sound, NEW q \in Requests, Save(q) \/ SaveFails(q)
  PROVE  Sound'
<1>1. Levels(request[q].ctx)
  BY DEF Sound, RequestSound
<1>2. stored' \in {stored, Nothing, request[q].ctx} /\ issued' = issued
  BY DEF Save, SaveFails, WritesBack, UpdateFlowContext, removeContext
<1>3. RequestSound(Idle)
  <2>1. Levels(initContext({}))
    BY InitLevels
  <2> QED BY <2>1 DEF RequestSound, Idle, Request, NoVisits, Statuses, Sources, Levels
<1>4. request' = [request EXCEPT ![q] = Idle]
  BY DEF Save, SaveFails, Returns
<1>5. /\ request' \in [Requests -> Request]
      /\ \A p \in Requests : RequestSound(request'[p])
  BY <1>3, <1>4, RequestChanges
<1> QED
  BY <1>1, <1>2, <1>5 DEF Sound

-----------------------------------------------------------------------------
LEMMA SoundInit == Init => Sound
<1>1. RequestSound(Idle) /\ Idle \in Request
  <2>1. Levels(initContext({}))
    BY InitLevels
  <2> QED BY <2>1 DEF RequestSound, Idle, Request, NoVisits, Statuses, Sources, Levels
<1> QED
  BY <1>1 DEF Init, Sound

LEMMA SoundStep == Sound /\ [Next]_vars => Sound'
<1> SUFFICES ASSUME Sound, [Next]_vars PROVE Sound'
  OBVIOUS
<1>1. CASE InitiateFlow
  <2>1. Levels(initContext({0}))
    BY InitLevels
  <2> QED BY <1>1, <2>1 DEF InitiateFlow, Sound
<1>2. CASE Expire
  BY <1>2 DEF Expire, Sound
<1>3. ASSUME NEW q \in Requests, StartNew(q) PROVE Sound'
  <2>1. Levels(initContext({})) /\ Levels(initContext({0}))
    BY InitLevels
  <2> QED BY <1>3, <2>1, StartsSound DEF StartNew, Sources
<1>4. ASSUME NEW q \in Requests, Continue(q) PROVE Sound'
  <2>1. PICK token \in NoToken..issued : Starts(q, "stored", loadPrevContext(token))
    BY <1>4 DEF Continue
  <2>2. Levels(stored) /\ token \in Nat /\ stored \in Context
    BY <1>4 DEF Continue, Sound, NoToken, Levels
  <2>3. Levels(loadPrevContext(token))
    <3> DEFINE t == IF token = NoToken THEN stored.tokenIn ELSE token
               new == loadPrevContext(token)
    <3>1. t \in Nat /\ stored.token \in Nat
      BY <2>2 DEF Context
    <3>2. new = [stored EXCEPT !.token = stored.token, !.tokenIn = t]
      BY <2>2 DEF loadPrevContext, Context
    <3> HIDE DEF t, new
    <3>3. Levels(new)
      BY <2>2, <3>1, <3>2, TokenLevels
    <3> QED BY <3>3 DEF new
  <2> QED BY <1>4, <2>1, <2>3, StartsSound DEF Continue, Sources
<1>5. ASSUME NEW q \in Requests, Engine(q) \/ SaveFails(q) PROVE Sound'
  BY <1>5, PreRequestSound, NodeSound, SaveSound DEF Engine
<1>6. CASE UNCHANGED vars
  BY <1>6 DEF vars, Sound
<1> QED
  BY <1>1, <1>2, <1>3, <1>4, <1>5, <1>6 DEF Next

(***************************************************************************)
(* In every context, calls and returns match: popFrame always resumes at a *)
(* CALL node that references the flow it leaves.                           *)
(***************************************************************************)
THEOREM CallsAlwaysMatch == Spec => []CallsMatch
<1>1. Sound => CallsMatch
  BY DEF Sound, RequestSound, Levels, CallsMatch, Contexts
<1> QED
  BY SoundInit, SoundStep, <1>1, PTL DEF Spec

(***************************************************************************)
(* In every context, a level has its own runtime data, and is bounded      *)
(* exactly when it and its callers are sign-in flows.                      *)
(***************************************************************************)
THEOREM LevelsStayIsolated == Spec => []LevelsIsolated
<1>1. Sound => LevelsIsolated
  BY DEF Sound, RequestSound, Levels, LevelsIsolated, Contexts
<1> QED
  BY SoundInit, SoundStep, <1>1, PTL DEF Spec

-----------------------------------------------------------------------------
(* What a request keeps while it runs                                      *)

\* The operations on a context leave its challenge token alone.
LEMMA TokenKept ==
  ASSUME NEW ctx \in Context
  PROVE  /\ \A n : At(ctx, n).token = ctx.token
         /\ Writes(ctx).token = ctx.token
         /\ popFrame(ctx).token = ctx.token
         /\ \A g : pushFrame(ctx, g).token = ctx.token
         /\ setCurrentExecutionNode(ctx).token = ctx.token
BY DEF At, Writes, popFrame, pushFrame, setCurrentExecutionNode, Context

(***************************************************************************)
(* A request that runs on keeps its source, its status and its token.  One *)
(* that stops has a new token only if it pauses.                           *)
(***************************************************************************)
RunsOn(q, r) ==
  /\ request' = [request EXCEPT ![q] = r]
  /\ r.source = request[q].source
  /\ \/ /\ r.pc = "run" /\ r.status = request[q].status
        /\ r.ctx.token = request[q].ctx.token
     \/ /\ r.pc = "save"
        /\ r.status = "INCOMPLETE" \/ r.ctx.token = request[q].ctx.token

Runs(q) == \E r : RunsOn(q, r)

LEMMA MovesRuns ==
  ASSUME Sound, NEW q \in Requests, request[q].pc = "run", NEW ctx, Moves(q, ctx),
         ctx.token = request[q].ctx.token
  PROVE  Runs(q)
<1> DEFINE r == [request[q] EXCEPT !.ctx = ctx, !.visits = Visited(@, request[q].ctx.cur.node)]
<1>1. request[q] \in Request
  BY DEF Sound
<1>2. request' = [request EXCEPT ![q] = r]
  BY <1>1 DEF Moves, Sound, Request
<1>3. /\ r.source = request[q].source /\ r.pc = "run" /\ r.status = request[q].status
      /\ r.ctx = ctx
  BY <1>1 DEF Request
<1> HIDE DEF r
<1>4. RunsOn(q, r)
  BY <1>2, <1>3 DEF RunsOn
<1> QED
  BY <1>4 DEF Runs

LEMMA StopsRuns ==
  ASSUME Sound, NEW q \in Requests, NEW ctx, NEW status, Stops(q, ctx, status),
         status = "INCOMPLETE" \/ ctx.token = request[q].ctx.token
  PROVE  Runs(q)
<1> DEFINE r == [request[q] EXCEPT !.pc = "save", !.ctx = ctx, !.status = status]
<1>1. request[q] \in Request
  BY DEF Sound
<1>2. request' = [request EXCEPT ![q] = r]
  BY <1>1 DEF Stops, Sound, Request
<1>3. r.source = request[q].source /\ r.pc = "save" /\ r.status = status /\ r.ctx = ctx
  BY <1>1 DEF Request
<1> HIDE DEF r
<1>4. RunsOn(q, r)
  BY <1>2, <1>3 DEF RunsOn
<1> QED
  BY <1>4 DEF Runs

LEMMA PausesRuns ==
  ASSUME Sound, NEW q \in Requests, NEW ctx, Pauses(q, ctx)
  PROVE  Runs(q)
<1>1. Stops(q, rotateChallengeToken(ctx, issued + 1), "INCOMPLETE")
  BY DEF Pauses
<1> QED
  BY <1>1, StopsRuns

LEMMA CompletedRuns ==
  ASSUME Sound, NEW q \in Requests, request[q].pc = "run", NEW ctx, Levels(ctx),
         ctx.token = request[q].ctx.token, handleCompletedResponse(q, ctx)
  PROVE  Runs(q)
<1>1. ctx \in Context
  BY DEF Levels
<1>2. ASSUME NEW n, Moves(q, At(ctx, n)) PROVE Runs(q)
  BY <1>1, <1>2, TokenKept, MovesRuns
<1>3. ASSUME NEW n, Depth(ctx) > 0, Moves(q, At(popFrame(ctx), n)) PROVE Runs(q)
  <2>1. popFrame(ctx) \in Context /\ popFrame(ctx).token = ctx.token
    BY <1>1, <1>3, PopLevels, TokenKept DEF Levels
  <2> QED BY <1>3, <2>1, TokenKept, MovesRuns
<1>4. CASE Ends(q, At(ctx, NoNode), "COMPLETE")
  BY <1>1, <1>4, TokenKept, StopsRuns DEF Ends
<1> QED
  BY <1>2, <1>3, <1>4 DEF handleCompletedResponse

LEMMA FailureRuns ==
  ASSUME Sound, NEW q \in Requests, request[q].pc = "run", NEW ctx, Levels(ctx),
         ctx.token = request[q].ctx.token, handleFailure(q, ctx)
  PROVE  Runs(q)
<1>1. ctx \in Context /\ Depth(ctx) \in Nat
  BY CurrentFrame DEF Levels
<1>2. CASE Depth(ctx) = 0
  BY <1>2, StopsRuns DEF handleFailure, Ends
<1>3. CASE Depth(ctx) # 0
  <2> DEFINE caller == popFrame(ctx)
             target == OnFailure[caller.cur.node]
  <2>1. Depth(ctx) > 0
    BY <1>1, <1>3
  <2>2. caller \in Context /\ caller.token = request[q].ctx.token
    BY <1>1, <2>1, PopLevels, TokenKept DEF Levels
  <2>3. Ends(q, caller, "ERROR") \/ Moves(q, At(caller, target))
    BY <1>3 DEF handleFailure
  <2> HIDE DEF caller, target
  <2> QED BY <2>2, <2>3, TokenKept, StopsRuns, MovesRuns DEF Ends
<1> QED
  BY <1>2, <1>3

LEMMA TaskRuns ==
  ASSUME Sound, NEW q \in Requests, request[q].pc = "run", NEW ctx, Levels(ctx),
         ctx.token = request[q].ctx.token, TaskExecution(q, ctx)
  PROVE  Runs(q)
<1>1. ctx \in Context
  BY DEF Levels
<1>2. PICK new : new = Writes(ctx)
  OBVIOUS
<1>3. Levels(new) /\ new \in Context /\ new.token = request[q].ctx.token
  BY <1>1, <1>2, WritesLevels, TokenKept DEF Levels
<1>4. \/ handleCompletedResponse(q, new)
      \/ Pauses(q, new)
      \/ handleFailure(q, new)
      \/ \E n : Moves(q, At(new, n))
      \/ Stops(q, ctx, "FAILED")
  BY <1>2 DEF TaskExecution, Ends
<1>5. CASE \E n : Moves(q, At(new, n))
  BY <1>3, <1>5, TokenKept, MovesRuns
<1> QED
  BY <1>3, <1>4, <1>5, CompletedRuns, PausesRuns, FailureRuns, StopsRuns

LEMMA NodeRuns ==
  ASSUME Sound, NEW q \in Requests, executeNodePackage(q)
  PROVE  Runs(q)
<1>1. PICK ctx : ctx = request[q].ctx
  OBVIOUS
<1>2. request[q].pc = "run" /\ Levels(ctx) /\ ctx \in Context
  BY <1>1 DEF executeNodePackage, Sound, RequestSound, Levels
<1>3. CASE \E status : Ends(q, ctx, status)
  BY <1>1, <1>3, StopsRuns DEF Ends
<1>4. CASE \E n : Moves(q, At(ctx, n))
  BY <1>1, <1>2, <1>4, TokenKept, MovesRuns
<1>5. CASE handleCompletedResponse(q, ctx)
  BY <1>1, <1>2, <1>5, CompletedRuns
<1>6. CASE TaskExecution(q, ctx)
  BY <1>1, <1>2, <1>6, TaskRuns
<1>7. CASE Prompt(q, ctx)
  BY <1>1, <1>2, <1>7, CompletedRuns, PausesRuns, FailureRuns DEF Prompt
<1>8. CASE \E new : Pauses(q, new)
  BY <1>8, PausesRuns
<1>9. CASE \E g : Moves(q, pushFrame(ctx, g))
  BY <1>1, <1>2, <1>9, TokenKept, MovesRuns
<1>10. \/ \E status : Ends(q, ctx, status)
       \/ \E n : Moves(q, At(ctx, n))
       \/ handleCompletedResponse(q, ctx) \/ TaskExecution(q, ctx) \/ Prompt(q, ctx)
       \/ handleDisplayOnlyPromptResponse(q, ctx) \/ handleCallResponse(q, ctx)
  BY <1>1 DEF executeNodePackage, RunNode
<1>11. CASE handleDisplayOnlyPromptResponse(q, ctx)
  BY <1>3, <1>8, <1>11 DEF handleDisplayOnlyPromptResponse
<1>12. CASE handleCallResponse(q, ctx)
  BY <1>3, <1>9, <1>12 DEF handleCallResponse
<1> QED
  BY <1>3, <1>4, <1>5, <1>6, <1>7, <1>10, <1>11, <1>12

LEMMA PreRequestRuns ==
  ASSUME Sound, NEW q \in Requests, PreRequest(q)
  PROVE  Runs(q)
<1>1. PICK ctx : ctx = setCurrentExecutionNode(request[q].ctx)
  OBVIOUS
<1>2. request[q] \in Request /\ request[q].ctx \in Context
  BY DEF Sound, RequestSound, Levels
<1>3. ctx.token = request[q].ctx.token
  BY <1>1, <1>2, TokenKept
<1>4. CASE request' = [request EXCEPT ![q].pc = "run", ![q].ctx = ctx]
  <2> DEFINE r == [request[q] EXCEPT !.pc = "run", !.ctx = ctx]
  <2>1. request' = [request EXCEPT ![q] = r]
    BY <1>2, <1>4 DEF Sound, Request
  <2>2. /\ r.source = request[q].source /\ r.pc = "run" /\ r.status = request[q].status
        /\ r.ctx = ctx
    BY <1>2 DEF Request
  <2> HIDE DEF r
  <2>3. RunsOn(q, r)
    BY <1>3, <2>1, <2>2 DEF RunsOn
  <2> QED BY <2>3 DEF Runs
<1>5. CASE Stops(q, ctx, "ERROR")
  BY <1>3, <1>5, StopsRuns
<1> QED
  BY <1>1, <1>4, <1>5 DEF PreRequest

-----------------------------------------------------------------------------
(* The end of an execution                                                 *)

(***************************************************************************)
(* A request that begins an execution is alone until it has written the    *)
(* first context: nobody else can store or remove one, so it cannot store  *)
(* what has ended.  Every other request only replaces what is there.       *)
(***************************************************************************)
EndedInv ==
  /\ ended => stored = Nothing
  /\ ~begun => /\ stored = Nothing /\ ~ended /\ answered = NoToken
               /\ \A q \in Requests : ~InFlight(q)
  /\ \A q \in Requests :
       InFlight(q) /\ request[q].source # "stored" =>
         stored = Nothing /\ ~ended /\ \A r \in Requests : InFlight(r) => r = q

\* What the steps of the engine change.
LEMMA EngineFacts ==
  ASSUME Sound, NEW q \in Requests, PreRequest(q) \/ executeNodePackage(q)
  PROVE  /\ InFlight(q) /\ InFlight(q)' /\ request'[q].source = request[q].source
         /\ \A p \in Requests \ {q} : request'[p] = request[p]
         /\ \/ /\ request'[q].pc = "run" /\ request'[q].status = request[q].status
               /\ request'[q].ctx.token = request[q].ctx.token
            \/ /\ request'[q].pc = "save"
               /\ \/ request'[q].status = "INCOMPLETE"
                  \/ request'[q].ctx.token = request[q].ctx.token
         /\ request[q].pc \in {"loaded", "run"}
         /\ UNCHANGED <<stored, begun, answered, ended, disturbed, requests>>
<1>1. PICK r : RunsOn(q, r)
  BY NodeRuns, PreRequestRuns DEF Runs
<1>2. /\ request[q].pc \in {"loaded", "run"}
      /\ UNCHANGED <<stored, begun, answered, ended, disturbed, requests>>
  BY DEF PreRequest, executeNodePackage
<1>3. request \in [Requests -> Request]
  BY DEF Sound
<1>4. request'[q] = r /\ \A p \in Requests \ {q} : request'[p] = request[p]
  BY <1>1, <1>3 DEF RunsOn
<1> QED
  BY <1>1, <1>2, <1>4 DEF RunsOn, InFlight

LEMMA StartsFacts ==
  ASSUME Sound, NEW q \in Requests, NEW source, NEW ctx, Starts(q, source, ctx)
  PROVE  /\ ~InFlight(q) /\ InFlight(q)' /\ request'[q].source = source /\ request'[q].ctx = ctx
         /\ request'[q].status = "NONE" /\ request'[q].pc = "loaded"
         /\ \A p \in Requests \ {q} : request'[p] = request[p]
         /\ disturbed' = (disturbed \/ \E r \in Requests : InFlight(r))
BY DEF Starts, Sound, InFlight

LEMMA SaveFacts ==
  ASSUME Sound, NEW q \in Requests, Save(q) \/ SaveFails(q)
  PROVE  /\ InFlight(q) /\ ~InFlight(q)' /\ begun' = begun
         /\ \A p \in Requests \ {q} : request'[p] = request[p]
         /\ \/ stored' = stored /\ ended' = ended
            \/ request[q].source = "stored" /\ stored' = Nothing
            \/ /\ request[q].source = "stored" /\ stored # Nothing
               /\ stored' = request[q].ctx /\ ended' = ended
            \/ /\ request[q].source # "stored" /\ stored' = request[q].ctx /\ ended' = ended
            \/ /\ request[q].source # "stored" /\ stored' = stored
<1>1. request' = [request EXCEPT ![q] = Idle] /\ request[q].pc = "save" /\ begun' = begun
  BY DEF Save, SaveFails, Returns
<1>2. Idle.pc = "idle"
  BY DEF Idle
<1>3. /\ request'[q] = Idle /\ \A p \in Requests \ {q} : request'[p] = request[p]
  BY <1>1 DEF Sound
<1>4. WritesBack(q) \/ (stored' = stored /\ ended' = ended)
  BY DEF Save, SaveFails
<1> QED
  BY <1>1, <1>2, <1>3, <1>4 DEF InFlight, WritesBack, UpdateFlowContext, removeContext

LEMMA EndedStep == ASSUME Sound, EndedInv, [Next]_vars PROVE EndedInv'
<1>1. CASE InitiateFlow
  BY <1>1 DEF InitiateFlow, EndedInv, InFlight
<1>2. CASE Expire
  BY <1>2 DEF Expire, EndedInv, InFlight
<1>3. ASSUME NEW q \in Requests, StartNew(q) PROVE EndedInv'
  <2>1. /\ InFlight(q)' /\ \A p \in Requests \ {q} : request'[p] = request[p]
    BY <1>3, StartsFacts DEF StartNew
  <2>2. ~begun /\ begun' = TRUE /\ UNCHANGED <<stored, answered, ended>>
    BY <1>3 DEF StartNew
  <2> QED BY <2>1, <2>2 DEF EndedInv, InFlight
<1>4. ASSUME NEW q \in Requests, Continue(q) PROVE EndedInv'
  <2>1. /\ request'[q].source = "stored" /\ \A p \in Requests \ {q} : request'[p] = request[p]
    BY <1>4, StartsFacts DEF Continue
  <2>2. stored # Nothing /\ UNCHANGED <<stored, begun, answered, ended>>
    BY <1>4 DEF Continue
  <2> QED BY <2>1, <2>2 DEF EndedInv, InFlight
<1>5. ASSUME NEW q \in Requests, PreRequest(q) \/ executeNodePackage(q) PROVE EndedInv'
  <2>1. /\ InFlight(q) /\ InFlight(q)' /\ request'[q].source = request[q].source
        /\ \A p \in Requests \ {q} : request'[p] = request[p]
        /\ UNCHANGED <<stored, begun, answered, ended>>
    BY <1>5, EngineFacts
  <2> QED BY <2>1 DEF EndedInv, InFlight
<1>6. ASSUME NEW q \in Requests, Save(q) \/ SaveFails(q) PROVE EndedInv'
  <2>1. begun /\ begun'
    BY <1>6, SaveFacts DEF EndedInv
  <2>2. ASSUME NEW p \in Requests, InFlight(p)' PROVE p # q /\ request'[p] = request[p] /\ InFlight(p)
    BY <1>6, <2>2, SaveFacts DEF InFlight
  <2>3. ended' => stored' = Nothing
    BY <1>6, SaveFacts DEF EndedInv
  <2>4. ASSUME NEW p \in Requests, InFlight(p)', request'[p].source # "stored" PROVE FALSE
    BY <1>6, <2>2, <2>4, SaveFacts DEF EndedInv
  <2> QED BY <2>1, <2>3, <2>4 DEF EndedInv
<1>7. CASE UNCHANGED vars
  BY <1>7 DEF vars, EndedInv, InFlight
<1> QED
  BY <1>1, <1>2, <1>3, <1>4, <1>5, <1>6, <1>7 DEF Next, Engine

LEMMA EndedInit == ASSUME Init PROVE EndedInv
<1>1. Idle.pc = "idle"
  BY DEF Idle
<1> QED
  BY <1>1 DEF Init, EndedInv, InFlight

(***************************************************************************)
(* An execution that has completed, broken or expired stays over: no       *)
(* request that was under way, however many there are and whatever their   *)
(* writes meet, brings its context back.  Update replaces only what is     *)
(* there, and the one write that does not look is the first (EndedInv).    *)
(***************************************************************************)
THEOREM ExecutionsStayEnded == Spec => []EndedStaysEnded
<1>1. Init => Sound /\ EndedInv
  BY SoundInit, EndedInit
<1>2. Sound /\ EndedInv /\ [Next]_vars => Sound' /\ EndedInv'
  BY SoundStep, EndedStep
<1>3. EndedInv => EndedStaysEnded
  BY DEF EndedInv, EndedStaysEnded
<1> QED
  BY <1>1, <1>2, <1>3, PTL DEF Spec

-----------------------------------------------------------------------------
(* The token of the client                                                 *)

(***************************************************************************)
(* As long as no two requests have overlapped, the stored context expects  *)
(* the token of the last answer, and so does the copy of the request that  *)
(* is under way, until it pauses.                                          *)
(***************************************************************************)
TokenInv ==
  ~disturbed =>
    /\ stored # Nothing => stored.token = answered
    /\ \A q \in Requests : InFlight(q) =>
         /\ \A r \in Requests : InFlight(r) => r = q
         /\ request[q].pc # "save" => request[q].status = "NONE"
         /\ request[q].status # "INCOMPLETE" => request[q].ctx.token = answered

LEMMA InitToken == \A data : initContext(data).token = NoToken
BY DEF initContext

LEMMA TokenStep == ASSUME Sound, EndedInv, TokenInv, [Next]_vars PROVE TokenInv'
<1> SUFFICES ASSUME ~disturbed' PROVE TokenInv'
  BY DEF TokenInv
<1>1. CASE InitiateFlow
  BY <1>1, InitToken DEF InitiateFlow, EndedInv, TokenInv, InFlight
<1>2. CASE Expire
  BY <1>2 DEF Expire, TokenInv, InFlight
<1>3. ASSUME NEW q \in Requests, NEW source, NEW ctx, Starts(q, source, ctx),
             ctx.token = answered, UNCHANGED <<stored, answered>>
      PROVE  TokenInv'
  <2>1. /\ request'[q].ctx = ctx /\ request'[q].status = "NONE"
        /\ \A p \in Requests \ {q} : request'[p] = request[p]
        /\ ~disturbed /\ \A r \in Requests : ~InFlight(r)
    BY <1>3, StartsFacts
  <2> QED BY <1>3, <2>1 DEF TokenInv, InFlight
<1>4. ASSUME NEW q \in Requests, StartNew(q) PROVE TokenInv'
  <2>1. answered = NoToken /\ UNCHANGED <<stored, answered>>
    BY <1>4 DEF StartNew, EndedInv
  <2> QED BY <1>3, <1>4, <2>1, InitToken DEF StartNew
<1>5. ASSUME NEW q \in Requests, Continue(q) PROVE TokenInv'
  <2>1. PICK token : Starts(q, "stored", loadPrevContext(token))
    BY <1>5 DEF Continue
  <2>2. stored # Nothing /\ stored \in Context /\ UNCHANGED <<stored, answered>>
    BY <1>5 DEF Continue, Sound, Levels
  <2>3. loadPrevContext(token).token = stored.token
    BY <2>2 DEF loadPrevContext, Context
  <2>4. ~disturbed
    BY <2>1, StartsFacts
  <2>5. stored.token = answered
    BY <2>2, <2>4 DEF TokenInv
  <2> QED BY <1>3, <2>1, <2>2, <2>3, <2>5
<1>6. ASSUME NEW q \in Requests, PreRequest(q) \/ executeNodePackage(q) PROVE TokenInv'
  <2>1. /\ InFlight(q) /\ InFlight(q)'
        /\ \A p \in Requests \ {q} : request'[p] = request[p]
        /\ \/ /\ request'[q].pc = "run" /\ request'[q].status = request[q].status
              /\ request'[q].ctx.token = request[q].ctx.token
           \/ /\ request'[q].pc = "save"
              /\ \/ request'[q].status = "INCOMPLETE"
                 \/ request'[q].ctx.token = request[q].ctx.token
        /\ request[q].pc \in {"loaded", "run"}
        /\ UNCHANGED <<stored, answered, disturbed>>
    BY <1>6, EngineFacts
  <2>2. request[q].status = "NONE" /\ request[q].ctx.token = answered
    BY <2>1 DEF TokenInv
  <2>3. \A p \in Requests : InFlight(p)' => p = q
    BY <2>1 DEF TokenInv, InFlight
  <2> QED BY <2>1, <2>2, <2>3 DEF TokenInv, InFlight
<1>7. ASSUME NEW q \in Requests, Save(q) \/ SaveFails(q) PROVE TokenInv'
  <2>1. InFlight(q) /\ ~InFlight(q)' /\ \A p \in Requests \ {q} : request'[p] = request[p]
    BY <1>7, SaveFacts
  <2>2. ~disturbed
    BY <1>7 DEF Save, SaveFails
  <2>3. \A p \in Requests : ~InFlight(p)'
    BY <2>1, <2>2 DEF TokenInv, InFlight
  <2>4. ASSUME stored' # Nothing PROVE stored'.token = answered'
    <3>1. CASE SaveFails(q)
      BY <2>2, <2>4, <3>1 DEF SaveFails, TokenInv
    <3>2. CASE Save(q) /\ request[q].status = "INCOMPLETE"
      <4>1. answered' = request[q].ctx.token
        BY <2>4, <3>2 DEF Save
      <4>2. stored' = request[q].ctx
        BY <2>4, <3>2 DEF Save, WritesBack, UpdateFlowContext, removeContext, Keeps
      <4> QED BY <4>1, <4>2
    <3>3. CASE Save(q) /\ request[q].status # "INCOMPLETE"
      <4>1. answered' = answered /\ request[q].ctx.token = answered
        BY <2>1, <2>2, <3>3 DEF Save, TokenInv
      <4>2. stored' \in {stored, request[q].ctx}
        BY <2>4, <3>3 DEF Save, WritesBack, UpdateFlowContext, removeContext
      <4> QED BY <2>2, <2>4, <4>1, <4>2 DEF TokenInv
    <3> QED BY <1>7, <3>1, <3>2, <3>3
  <2> QED BY <2>3, <2>4 DEF TokenInv
<1>8. CASE UNCHANGED vars
  BY <1>8 DEF vars, TokenInv, InFlight
<1> QED
  BY <1>1, <1>2, <1>4, <1>5, <1>6, <1>7, <1>8 DEF Next, Engine

LEMMA TokenInit == ASSUME Init PROVE TokenInv
<1>1. Idle.pc = "idle"
  BY DEF Idle
<1> QED
  BY <1>1 DEF Init, TokenInv, InFlight

(***************************************************************************)
(* A client that sends one request at a time can always go on, for any     *)
(* flow: whatever is refused, fails in a node or cannot be written, the    *)
(* stored context expects the token of its last answer.  Only a request    *)
(* that pauses rotates the token, and its answer is sent once the context  *)
(* with the new token is written (TokenInv).                               *)
(***************************************************************************)
THEOREM ClientsCanContinue == Spec => []ClientCanContinue
<1>1. Init => Sound /\ EndedInv /\ TokenInv
  BY SoundInit, EndedInit, TokenInit
<1>2. Sound /\ EndedInv /\ TokenInv /\ [Next]_vars => Sound' /\ EndedInv' /\ TokenInv'
  BY SoundStep, EndedStep, TokenStep
<1>3. TokenInv => ClientCanContinue
  BY DEF TokenInv, ClientCanContinue
<1> QED
  BY <1>1, <1>2, <1>3, PTL DEF Spec
=============================================================================
