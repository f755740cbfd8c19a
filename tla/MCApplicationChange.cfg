CONSTANTS
  Admins = {a1, a2}
  Requests = {r1, r2}
  Secrets = {s1, s2}
  Validities = {1, 3}
  CodeWindow = 0
  Lifetime = 1
  Leeway = 1
  MaxTime = 4
  MaxChanges = 2
SPECIFICATION Spec
CHECK_DEADLOCK FALSE
SYMMETRY Symmetry
INVARIANTS ChangeTakesTokens LaterTokensValid
