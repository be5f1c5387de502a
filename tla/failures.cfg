CONSTANTS
  Users = {u1, u2}
  NoUser = NoUser
  Reqs = {r1, r2}
  Routes <- MCAdverse
  Amounts = {2, 3}
  Fees = {1}
  Threshold = 3
  MaxPaise = 4
  MaxDisputes = 1
  OptionB = TRUE
  WithCrash = TRUE
SYMMETRY Symmetric
SPECIFICATION Spec
INVARIANTS DisputeRowFirst GatewayPaymentSticks
CHECK_DEADLOCK FALSE
