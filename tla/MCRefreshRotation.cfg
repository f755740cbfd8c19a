CONSTANTS
  Configs = {"rotate", "renew", "reuse"}
  RefreshValidity = 2
  AccessValidity = 1
  Buffer = 2
  Lifetime = 2
  Leeway = 1
  ClientRequests = {c1, c2}
  CopyRequests = {o1}
  MaxTime = 5
  MaxFaults = 1
SPECIFICATION Spec
CHECK_DEADLOCK FALSE
SYMMETRY Symmetry
INVARIANTS SpentIsReplay ReplayEndsGrant HonestClientServed CacheOutlivesTokens
