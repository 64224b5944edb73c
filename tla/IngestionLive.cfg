SPECIFICATION FairSpec
CONSTANTS
  r1 = r1
  r2 = r2
  e1 = e1
  e2 = e2
  e3 = e3
  e4 = e4
  c1 = c1
  c2 = c2
  NoRun = NoRun
  NoEvent = NoEvent
  Run <- OneRun
  Event <- TwoEvents
  Conn <- TwoSockets
  Manifest <- TwoManifest
  SourceSequence <- TwoSequence
  Message <- LiveMessages
  MaxAttempts = 2
  MaxCrashes = 2
  MaxFaults = 0
CHECK_DEADLOCK FALSE
PROPERTIES
  ImplementsFairContract
  AcknowledgedIsProcessed
