CONSTANTS
  IdleTimeout = 2
  MaxUnread = 1
SPECIFICATION FairSpec
CHECK_DEADLOCK FALSE
INVARIANTS
  TypeOK
  CleanMeansComplete
  CutForCause
  InterruptReported
  JoinedAtReturn
PROPERTIES
  NoFalseIdle
  RelayEnds
  InterruptEnds
