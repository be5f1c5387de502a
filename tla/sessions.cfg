CONSTANTS
  Devices = {d1}
  Lanes = {l1, l2}
  MaxTokens = 2
  Lossy = TRUE
SPECIFICATION FairSpec
INVARIANTS SessionsTypeOK KeptIsCurrent
PROPERTIES AppSettles
CHECK_DEADLOCK FALSE
