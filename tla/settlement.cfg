CONSTANTS
  Users = {u1, u2}
  NoUser = NoUser
  Reqs = {r1, r2}
  Routes <- MCEveryMember
  Amounts = {2}
  Fees = {1}
  Threshold = 3
  MaxPaise = 4
  MaxDisputes = 1
  OptionB = FALSE
  WithCrash = FALSE
SYMMETRY Symmetric
SPECIFICATION Spec
INVARIANTS HonestCompletion AuditTrail
PROPERTIES ImplementsLedger
CHECK_DEADLOCK FALSE
