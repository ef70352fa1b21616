SPECIFICATION FairSpec
CONSTANTS
  Proc = {p1, p2}
  IncRun = {a1}
  WrapRun = {b1}
  RecompRun = {}
  Wrap = {w1}
  None = None
  MaxMsg = 2
  MaxCells = 1
  LeaseTtl = 2
  MarkerTtl = 2
  MaxCrashes = 1
  ReleaseMayFail = FALSE
INVARIANTS
  TypeOK
  WrapupExcludesOthers
PROPERTIES
  NoLostUpdate
  WrapupEnds
  IntentServed
CHECK_DEADLOCK FALSE
