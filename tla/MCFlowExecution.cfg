CONSTANTS
  q1 = q1  q2 = q2  A = A  B = B
  a0 = a0  a1 = a1  a2 = a2  a3 = a3  a4 = a4
  b0 = b0  b1 = b1  b2 = b2  b3 = b3  b4 = b4
  Requests = {q1, q2}
  Graphs = {A, B}
  Nodes <- MCNodes
  NoNode = NoNode
  GraphOf <- MCGraphOf
  StartOf <- MCStartOf
  KindOf <- MCKindOf
  OnSuccess <- MCOnSuccess
  OnFailure <- MCOnFailure
  OnIncomplete <- MCOnIncomplete
  OnSkip <- MCOnSkip
  Callee <- MCCallee
  Root = A
  SignIn = {A}
  Unchallenged = {a3}
  Restartable = {b2}
  MaxCallDepth = 2
  MaxVisits = 1
  MaxRequests = 3
SPECIFICATION Spec
CHECK_DEADLOCK FALSE
INVARIANTS CallsMatch LevelsIsolated EndedStaysEnded ClientCanContinue
PROPERTIES RequestsEnd
