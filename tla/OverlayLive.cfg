SPECIFICATION FairSpec
CONSTANTS
  s1 = s1
  s2 = s2
  Event <- OneEvent
  Session <- OneSession
  MaxConns = 2
  MaxCrashes = 1
  MaxFaults = 0
CHECK_DEADLOCK FALSE
PROPERTY
  ProcessedIsAcknowledged
