SPECIFICATION Spec
CONSTANTS
  r1 = r1
  r2 = r2
  e1 = e1
  e2 = e2
  e3 = e3
  e4 = e4
  c1 = c1
  c2 = c2
  NoRun = NoRun
  NoEvent = NoEvent
  Run <- TwoRuns
  Event <- ForeignEvents
  Conn <- TwoSockets
  Manifest <- ForeignManifest
  SourceSequence <- ForeignSequence
  Message <- ForeignMessages
  MaxAttempts = 3
  MaxCrashes = 0
  MaxFaults = 0
CHECK_DEADLOCK FALSE
SYMMETRY Symmetry
INVARIANTS
  CanonicalFromManifest
  AttemptsFollowSocket
PROPERTIES
  CompletionCloses
