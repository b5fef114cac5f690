SPECIFICATION Spec
CONSTANTS
  Writer = {loop, scheduler}
  MaxEdits = 2
  MaxCrashes = 0
  Turns = FALSE
CHECK_DEADLOCK FALSE
INVARIANTS
  LockIsExclusive
