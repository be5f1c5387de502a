CONSTANTS
  Devices = {d1}
  Lanes = {l1, l2}
  MaxTokens = 2
  Lossy = FALSE
SPECIFICATION Spec
INVARIANTS ReuseIsTheft
CHECK_DEADLOCK FALSE
