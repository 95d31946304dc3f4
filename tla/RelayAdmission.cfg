CONSTANTS
  Conns = {c1, c2}
  Addresses = {a, b}
  LocalAddresses = {a}
  Unknown = Unknown
  authFailureLimit = 2
  authFailureWindow = 2
  maxAuthSources = 2
  MaxSessions = 2
  ClientPins = TRUE
  HasLifetime = FALSE
SPECIFICATION ServeSpec
SYMMETRY ConnSymmetry
INVARIANT
  OvershootBounded
