SPECIFICATION Spec
CONSTANTS
  s1 = s1
  s2 = s2
  Event <- OneEvent
  Session <- OneSession
  MaxConns = 3
  MaxCrashes = 1
  MaxFaults = 1
CHECK_DEADLOCK FALSE
INVARIANTS
  LiveConnectionIsRegistered
  RegisteredSessionIsOpen
