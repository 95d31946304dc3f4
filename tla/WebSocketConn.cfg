CONSTANTS
  Capacity = 4
  maskLength = 2
  maxRead = 2
  Writes <- MCWrites
  Pings <- MCPings
  Interruptible = {"client"}
SPECIFICATION FairSpec
CHECK_DEADLOCK FALSE
PROPERTIES
  IsBytePipe
  CallsReturn
