SPECIFICATION Spec
CONSTANTS
  MaxCount = 44
  MaxDrawn = 12
CHECK_DEADLOCK FALSE
INVARIANTS
  PlansAreValid
  FaultsDoNotMeet
  ReorderingIsObservable
