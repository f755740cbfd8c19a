CONSTANTS
  r1 = r1  r2 = r2  p1 = p1  p2 = p2  c1 = c1  c2 = c2
  u1 = u1  u2 = u2
  Requests = {r1}
  WithDetails = {r1}
  Users = {u1}
  NoUser = NoUser
  NoRequest = NoRequest
  Pollers = {p1, p2}
  Callbacks = {c1, c2}
  Backend = "memory"
  Expiries = {1, 2}
  ReportErrors = TRUE
  MaxTime = 4
  MaxPolls = 2
SPECIFICATION Spec
SYMMETRY Symmetry
CHECK_DEADLOCK FALSE
INVARIANTS TokensBelongToGrant LateAuthenticationNeverRedeemed
PROPERTIES NoTokensAfterExpiry NoTokensAfterRefusal ImplementsOneTimeGrant
