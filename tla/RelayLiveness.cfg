CONSTANTS
  Conns = {c1, c2}
  Addresses = {}
  LocalAddresses = {}
  Unknown = Unknown
  authFailureLimit = 1
  authFailureWindow = 1
  maxAuthSources = 1
  MaxSessions = 2
  ClientPins = FALSE
  HasLifetime = FALSE
SPECIFICATION FairSpec
CHECK_DEADLOCK FALSE
PROPERTIES
  SnapshotEnds
  ShutdownReturnsUnlessMissed
