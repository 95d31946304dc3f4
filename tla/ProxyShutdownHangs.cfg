CONSTANT
  Conns = {c1, c2}
SPECIFICATION FairSpec
CHECK_DEADLOCK FALSE
PROPERTY
  ShutdownReturns
