SPECIFICATION RunSpec
CONSTANTS
  r1 = r1
  NoRun = NoRun
  NoEvent = NoEvent
  Run <- OneRun
  TheRun = r1
  Event <- TwoEvents
  Conn <- FourSockets
  Manifest <- TwoManifest
  SourceSequence <- TwoSequence
  Message <- TwoMessages
  Plan <- TwoPlans
  MaxTries = 2
  Mutations = 2
  AwaitOverlay = FALSE
  MaxAttempts = 9
  MaxCrashes = 0
  MaxFaults = 0
  MaxLosses = 2
  MaxExpiries = 1
CHECK_DEADLOCK FALSE
CONSTRAINT Explored
VIEW View
INVARIANTS
  RunTypeOK
  ReplyAnswersRequest
  AckedIsStored
  ArrivalFollowsPlan
  PassIsEarned
  FailuresAreExplained
PROPERTIES
  PassIsFinal
