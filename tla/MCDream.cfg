SPECIFICATION Spec
CONSTANTS
  Run = {r1, r2}
  Tasks = 1
  Cron = {daily}
  Off = Off
  Absent = Absent
  Legacy = Legacy
  Nobody = Nobody
  Gone = Gone
  MaxRetries = 1
  MaxFaults = 2
  MaxRequests = 1
INVARIANTS
  ReadIsFresh
  OffIsNeverDue
PROPERTIES
  SlotLeaves
  SlotServed
CHECK_DEADLOCK FALSE
