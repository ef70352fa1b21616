SPECIFICATION FairSpec
CONSTANTS
  Proc = {p1, p2}
  MaxMsg = 2
  UserMsg = {1, 2}
  MayShrink = FALSE
  MaxFaults = 1
INVARIANTS
  TypeOK
  HiddenIsDelivered
  MissingHasRetry
PROPERTIES
  TargetHonoured
  TargetDrained
CHECK_DEADLOCK FALSE
