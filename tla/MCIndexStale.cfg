SPECIFICATION Spec
CONSTANTS
  Proc = {p1}
  Active = {p1}
  MaxMsg = 2
  MaxEdits = 2
  MaxRemoved = 0
  Page = 1
  Faults = {"write"}
  MaxFaults = 1
  MaxTrouble = 3
INVARIANT RebuildsFromSource
CHECK_DEADLOCK FALSE
