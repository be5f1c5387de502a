CONSTANTS
  Users = {me, mate}
  Me = me
  Nobody = Nobody
  NoData = NoData
  NoCall = NoCall
  Threshold = 2
  MaxFaults = 1
SPECIFICATION FairSpec
INVARIANTS ScreenTypeOK OptimismIsBacked
PROPERTIES ViewCatchesUp ShareIsOffered
CHECK_DEADLOCK FALSE
