SPECIFICATION Spec
CONSTANTS
  Run = {r1, r2}
  None = None
  Cap = 1
  Budgets = {1, 2}
  Window = 1
  Backoff = 1
  MaxLatch = 1
  MaxKept = 3
  MaxFaults = 1
INVARIANTS
  NotForgotten
  ExactUnderLease
  BudgetHolds
PROPERTIES
  BackoffHolds
  NotStarved
CHECK_DEADLOCK FALSE
