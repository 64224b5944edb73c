SPECIFICATION Spec
CONSTANTS
  s1 = s1
  s2 = s2
  Event <- OneEvent
  Session <- TwoSessions
  MaxConns = 2
  MaxCrashes = 1
  MaxFaults = 1
CHECK_DEADLOCK FALSE
SYMMETRY Symmetry
INVARIANTS
  NoEffectLost
  RenderEvidence
