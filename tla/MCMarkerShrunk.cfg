SPECIFICATION Spec
CONSTANTS
  Proc = {p1}
  MaxMsg = 3
  UserMsg = {1, 3}
  MayShrink = TRUE
  MaxFaults = 0
INVARIANTS
  HiddenIsDelivered
CHECK_DEADLOCK FALSE
