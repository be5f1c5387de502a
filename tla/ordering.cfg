CONSTANTS
  Users = {u1, u2}
  NoUser = NoUser
  Reqs = {r1, r2}
  Routes <- MCOrdering
  Amounts = {1, 2}
  Fees = {1}
  Threshold = 3
  MaxPaise = 4
  MaxDisputes = 0
  OptionB = FALSE
  WithCrash = FALSE
SPECIFICATION NoticesFairSpec
INVARIANTS TypeOK MinimumReached SplitWithinCart CrossingIsNoticed
           CrossingIsAnnounced PayersAreTold
PROPERTIES ClaimIsFinal NeverBackToOpen DueGroupCloses
CHECK_DEADLOCK FALSE
