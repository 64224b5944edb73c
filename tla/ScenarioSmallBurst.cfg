SPECIFICATION Spec
CONSTANTS
  MaxCount = 10
  MaxDrawn = 12
CHECK_DEADLOCK FALSE
INVARIANTS
  EveryCountIsPlanned
