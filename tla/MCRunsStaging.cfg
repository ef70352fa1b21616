SPECIFICATION Spec
CONSTANTS
  Proc = {p1, p2}
  IncRun = {}
  WrapRun = {}
  RecompRun = {c1, c2}
  Wrap = {}
  None = None
  MaxMsg = 2
  MaxCells = 2
  LeaseTtl = 1
  MarkerTtl = 2
  MaxCrashes = 1
  ReleaseMayFail = FALSE
SYMMETRY Ids
INVARIANTS
  HistoryContiguous
CHECK_DEADLOCK FALSE
