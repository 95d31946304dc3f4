CONSTANTS
  Processes = {p1, p2, p3}
  Servers = {p1, p2}
  Keys = {k1, k2}
  None = None
  Blocks = 2
  Disturbances = 2
CHECK_DEADLOCK FALSE
SPECIFICATION FairSpec
PROPERTIES
  WritesOnce
  EventuallyServes
