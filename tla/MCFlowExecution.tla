-------------------------- MODULE MCFlowExecution ---------------------------
(* An instance of FlowExecution for TLC: a sign-in flow A and a flow B that *)
(* call each other.                                                        *)
EXTENDS FlowExecution

CONSTANTS q1, q2, A, B, a0, a1, a2, a3, a4, b0, b1, b2, b3, b4

\* A: a1 asks for an action, which leads to the call a2 of B or to the task a3; both
\* lead back to a1 when they fail, and a3 when it wants input, without a pause.
\* B: b1 shows a screen before the task b2, which has no edge for failure; b3 calls A,
\* or is skipped.
MCNodes == {a0, a1, a2, a3, a4, b0, b1, b2, b3, b4}
MCGraphOf == [n \in Nodes |-> IF n \in {b0, b1, b2, b3, b4} THEN B ELSE A]
MCStartOf == [g \in Graphs |-> IF g = A THEN a0 ELSE b0]
MCKindOf == [n \in Nodes |-> CASE n \in {a0, b0} -> "START" [] n = a1 -> "PROMPT"
                             [] n \in {a2, b3} -> "CALL" [] n = b1 -> "DISPLAY"
                             [] n \in {a4, b4} -> "END" [] OTHER -> "TASK"]
MCOnSuccess == [n \in Nodes |-> CASE n = a0 -> {a1} [] n = a1 -> {a2, a3} [] n = a2 -> {a3}
                                [] n = a3 -> {a4}
                                [] n = b0 -> {b1} [] n = b1 -> {b2} [] n = b2 -> {b3}
                                [] n = b3 -> {b4} [] OTHER -> {}]
MCOnFailure == [n \in Nodes |-> IF n \in {a2, a3} THEN a1 ELSE NoNode]
MCOnIncomplete == [n \in Nodes |-> IF n = a3 THEN a1 ELSE NoNode]
MCOnSkip == [n \in Nodes |-> IF n = b3 THEN b4 ELSE NoNode]
MCCallee == [n \in Nodes |-> IF n = a2 THEN B ELSE A]

(***************************************************************************)
(* These are flows the validator accepts: one START and one END each, the  *)
(* edges for failure and missing input of a task lead to prompts, only     *)
(* tasks and calls have the former and only tasks the latter.              *)
(***************************************************************************)
OfKind(g, kind) == {n \in NodesOf(g) : KindOf[n] = kind}
Prompts == {n \in Nodes : KindOf[n] \in {"PROMPT", "DISPLAY"}}

ASSUME FlowsValid ==
  /\ \A g \in Graphs : OfKind(g, "START") = {StartOf[g]} /\ Cardinality(OfKind(g, "END")) = 1
  /\ \A n \in Nodes :
       /\ OnIncomplete[n] # NoNode => KindOf[n] = "TASK"
       /\ OnFailure[n] # NoNode => KindOf[n] \in {"TASK", "CALL"}
       /\ KindOf[n] = "TASK" => {OnFailure[n], OnIncomplete[n]} \subseteq Prompts \cup {NoNode}
       /\ n \in Unchallenged \cup Restartable => KindOf[n] = "TASK"
=============================================================================
