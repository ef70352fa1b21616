SPECIFICATION Spec
CONSTANTS
  Proc = {p1, p2}
  Tag = {t1}
  ToolSets = {{}, {t1}}
  MaxFailures = 1
INVARIANTS
  TypeOK
PROPERTIES
  FormIsKept
  RequestIsServed
CHECK_DEADLOCK FALSE
