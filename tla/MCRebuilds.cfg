SPECIFICATION RebuildsSpec
CONSTANTS
  PartialRun = {r1}
  FullRun = {f1}
  None = None
  MayLoseLease = TRUE
  MaxCrashes = 2
  MaxMsg = 4
  MaxCells = 2
  Proc = {p1, p2}
  IncRun = {a1}
  RecompRun = {c1}
  RunMsgs = 3
  RunCrashes = 1
  LeaseTtl = 2
  MarkerTtl = 2
SYMMETRY Ids
INVARIANTS
  TypeOK
  SnapIsTightest
PROPERTIES
  OutsideUntouched
  HistorySpecs
CHECK_DEADLOCK FALSE
