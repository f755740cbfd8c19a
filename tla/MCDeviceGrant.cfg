CONSTANTS
  r1 = r1  r2 = r2  b1 = b1  b2 = b2  p1 = p1  p2 = p2  c1 = c1  c2 = c2
  u1 = u1  u2 = u2  app1 = app1  app2 = app2
  Requests = {r1}
  Apps = {app1}
  AppOf <- MCAppOf
  AppIn <- MCAppIn
  Users = {u1, u2}
  NoUser = NoUser
  NoRequest = NoRequest
  Pollers = {p1, p2}
  Browsers = {b1, b2}
  Callbacks = {c1, c2}
  Backend = "memory"
  ExpiresIn = 1
  Interval = 1
  SlowDownIncrement = 1
  Retention = 2
  MaxTime = 3
  MaxEnds = 2
  MaxPolls = 2
SPECIFICATION Spec
SYMMETRY SymmetryOneApp
CHECK_DEADLOCK FALSE
INVARIANTS TokensAtMostOnce OneJourneyPerRequest
PROPERTIES DecisionsSurvive NoTokensAfterRefusal
