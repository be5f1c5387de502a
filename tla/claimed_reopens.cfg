CONSTANTS
  Users = {u1, u2}
  NoUser = NoUser
  Reqs = {r1, r2}
  Routes <- MCOrdering
  Amounts = {2}
  Fees = {0}
  Threshold = 2
  MaxPaise = 4
  MaxDisputes = 0
  OptionB = FALSE
  WithCrash = FALSE
SYMMETRY Symmetric
SPECIFICATION Spec
INVARIANTS ClaimedIsClosed
CHECK_DEADLOCK FALSE
