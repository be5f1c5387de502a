CONSTANTS
  Slots = {s1, s2, s3}
  LockoutThreshold = 5
SPECIFICATION FairSpec
INVARIANTS AccountsTypeOK OneAccountPerEmail LockHolds
PROPERTIES LockEnds
CHECK_DEADLOCK FALSE
