CONSTANTS
  e0 = e0  e1 = e1  app0 = app0  app1 = app1
  None = None
  First = j0
  Joins = {j0, j1, j2}
  Executions = {e0, e1}
  ExecutionOf <- MCExecutionOf
  AppOf <- MCAppOf
  Subjects = {u, v}
  SignOuts = {o1}
  SubjectRevocations = {x}
  Detachments = {d}
  Idle = 2
  Absolute = 2
  ActivityRefresh = 1
  MaxEnds = 2
  MaxTime = 3
SPECIFICATION Spec
CHECK_DEADLOCK FALSE
SYMMETRY Symmetry
INVARIANTS SignOutTakesGrants NotifiedOnce SessionHasOneSubject CookieHasCheckpoint
PROPERTY AuthTimeNeverGoesBack
