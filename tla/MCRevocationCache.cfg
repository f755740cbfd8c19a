CONSTANTS
  t1 = t1  j1 = j1  f = f  a = a
  Tokens = {t1}
  Criteria = {j1, f, a}
  DimensionOf <- MCDimensionOf
  JTIOf <- MCJTIOf
  Carries <- MCCarries
  Validity <- MCValidity
  TTL <- MCTTL
  MaxEntriesPerChange = 1
  Unissued = Unissued
  NoToken = NoToken
  Lifetime = 1
  Leeway = 1
  PlanDelay = 1
  MaxTime = 4
  MaxWrites = 2
  MaxFaults = 1
SPECIFICATION Spec
CHECK_DEADLOCK FALSE
INVARIANTS RevokedStaysRevoked SnapshotIsComplete
PROPERTIES CacheNeverForgets RevocationPropagates
