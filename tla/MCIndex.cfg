SPECIFICATION Spec
CONSTANTS
  Proc = {p1, p2}
  Active = {p1}
  MaxMsg = 2
  MaxEdits = 1
  MaxRemoved = 1
  Page = 1
  Faults = {"mark", "write", "page", "clear", "crash"}
  MaxFaults = 1
  MaxTrouble = 1
INVARIANTS
  TypeOK
  SettledIsExact
  FoundOnce
PROPERTIES
  EveryMessageIsIndexed
CHECK_DEADLOCK FALSE
