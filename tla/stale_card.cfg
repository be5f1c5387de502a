CONSTANTS
  Users = {me, mate}
  Me = me
  Nobody = Nobody
  NoData = NoData
  NoCall = NoCall
  Threshold = 2
  MaxFaults = 0
SPECIFICATION FairSpec

PROPERTIES PaymentIsShown
CHECK_DEADLOCK FALSE
