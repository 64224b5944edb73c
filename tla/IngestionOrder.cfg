SPECIFICATION Spec
CONSTANTS
  r1 = r1
  r2 = r2
  e1 = e1
  e2 = e2
  e3 = e3
  e4 = e4
  c1 = c1
  c2 = c2
  NoRun = NoRun
  NoEvent = NoEvent
  Run <- OneRun
  Event <- FourEvents
  Conn <- OneSocket
  Manifest <- FourManifest
  SourceSequence <- FourSequence
  Message <- FourMessages
  MaxAttempts = 5
  MaxCrashes = 0
  MaxFaults = 0
CHECK_DEADLOCK FALSE
INVARIANTS
  ArrivalEvidence
