CONSTANTS
  Checks = {c1, c2, c3}
  Tokens = {t1, t2, t3}
  NoToken = NoToken
  WithJTI = {t1, t2}
  WithCriteria = {t1}
  FailureThreshold = 2
  OpenDuration = 1
SPECIFICATION FairSpec
INVARIANTS RevokedNeverAccepted HalfOpenHasTrial TrippedAtThreshold
PROPERTIES Recovers
