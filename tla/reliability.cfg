CONSTANTS
  Users = {u1, u2}
  Orders = {o1, o2}
  Reqs = {r1, r2}
  Earlier <- MCEarlier
  MaxConfirms = 2
SYMMETRY Symmetric
SPECIFICATION Spec
INVARIANTS ReliabilityTypeOK ScoreIsCurrent CountedOnlyTogether
CHECK_DEADLOCK FALSE
