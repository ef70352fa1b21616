SPECIFICATION Spec
CONSTANTS
  Proc = {p1, p2}
  Rust = {p2}
  Attempt = {a1, a2}
  None = None
  Ttl = 1
  MaxFaults = 2
INVARIANTS
  TypeOK
  OneSender
  OncePerCycle
PROPERTIES
  CycleSpec
  NudgeArrives
CHECK_DEADLOCK FALSE
