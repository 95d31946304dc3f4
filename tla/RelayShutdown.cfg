CONSTANTS
  Conns = {c1, c2, c3}
  Addresses = {}
  LocalAddresses = {}
  Unknown = Unknown
  authFailureLimit = 1
  authFailureWindow = 1
  maxAuthSources = 1
  MaxSessions = 2
  ClientPins = FALSE
  HasLifetime = TRUE
SPECIFICATION Spec
CHECK_DEADLOCK FALSE
SYMMETRY ConnSymmetry
INVARIANTS
  TypeOK
  TargetsBounded
  GracefulDrain
  PanicOnlyAfterTimeout
