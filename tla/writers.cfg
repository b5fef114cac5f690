SPECIFICATION FairSpec
CONSTANTS
  Writer = {loop, agent, scheduler}
  MaxEdits = 1
  MaxCrashes = 1
  Turns = FALSE
CHECK_DEADLOCK FALSE
PROPERTIES
  WritesAreAtomic
  EveryCallReturns
