SPECIFICATION Spec
CONSTANTS
  Writer = {loop, agent}
  MaxEdits = 3
  MaxCrashes = 2
  Turns = TRUE
CHECK_DEADLOCK FALSE
PROPERTIES
  NoLostEdits
