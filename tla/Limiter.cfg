CONSTANTS
  Sources = {s1, s2, s3, s4}
  Nil = Nil
  authFailureLimit = 2
  authFailureWindow = 3
  maxAuthSources = 3
  MaxCount = 3
SPECIFICATION FairSpec
INVARIANTS
  TypeOK
  WellLinked
  CountsMatchEntries
  BoundedTable
PROPERTIES
  RefinesTable
  BlockEnds
