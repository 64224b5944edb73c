SPECIFICATION FairRunSpec
CONSTANTS
  r1 = r1
  NoRun = NoRun
  NoEvent = NoEvent
  Run <- OneRun
  TheRun = r1
  Event <- OneEvent
  Conn <- ThreeSockets
  Manifest <- OneManifest
  SourceSequence <- OneSequence
  Message <- OneMessages
  Plan <- OnePlans
  MaxTries = 2
  Mutations = 2
  AwaitOverlay = TRUE
  MaxAttempts = 9
  MaxCrashes = 1
  MaxFaults = 1
  MaxLosses = 1
  MaxExpiries = 1
CHECK_DEADLOCK FALSE
CONSTRAINT OneMisfortune
PROPERTIES
  RunnerEnds
  JudgedInTheEnd
  ServerRefines
