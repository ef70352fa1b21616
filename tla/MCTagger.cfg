SPECIFICATION Spec
CONSTANTS
  Proc = {p1, p2}
  Entities = 2
  ToolSets = {{2}, {1, 2}}
  Orphans = {1, 2}
  MaxTries = 2
  MaxTag = 5
  MaxFaults = 1
INVARIANTS
  TypeOK
  ShownIsRow
PROPERTIES
  PrefixIsStable
  NoReissue
  EverythingIsShown
