SPECIFICATION Spec
CONSTANTS
  r1 = r1
  r2 = r2
  e1 = e1
  e2 = e2
  e3 = e3
  e4 = e4
  c1 = c1
  c2 = c2
  NoRun = NoRun
  NoEvent = NoEvent
  Run <- OneRun
  Event <- TwoEvents
  Conn <- TwoSockets
  Manifest <- TwoManifest
  SourceSequence <- TwoSequence
  Message <- TwoMessages
  MaxAttempts = 3
  MaxCrashes = 1
  MaxFaults = 1
CHECK_DEADLOCK FALSE
SYMMETRY Symmetry
INVARIANTS
  TypeOK
  RepliesAreDurable
  OneAcceptedAttempt
  AckEvidence
  MarkedRepliesWereSent
  OneEffect
PROPERTIES
  ImplementsContract
  EvidenceGrows
