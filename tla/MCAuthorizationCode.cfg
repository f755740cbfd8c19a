CONSTANTS
  Requests = {r1, r2}
  JTIs = {j1}
  Codes = {k1}
  Callbacks = {c1, c2}
  Redeemers = {d1, d2}
  NoRequest = NoRequest
  NoCode = NoCode
  Stores = {"db", "redis"}
  OnCodeReplay = TRUE
  Second = 2
  RequestValidity = 2
  AssertionValidity = 4
  CodeValidity = 4
  MaxTime = 3
  MaxRedemptions = 2
SPECIFICATION Spec
SYMMETRY Symmetry
CHECK_DEADLOCK FALSE
INVARIANTS CodeRedeemedOnce AssertionSpentOnce CodesBelongToFlow ReplayRevokesOnSQL
