SPECIFICATION Spec
CONSTANTS
  s1 = s1
  s2 = s2
  Event <- TwoEvents
  Session <- OneSession
  MaxConns = 2
  MaxCrashes = 0
  MaxFaults = 1
CHECK_DEADLOCK FALSE
INVARIANTS
  TypeOK
  RenderEvidence
  NoGenuineAckRefused
  NoEffectLost
