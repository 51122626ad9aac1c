SPECIFICATION FairSpec
CONSTANTS
  N = 4
  BatchSize = 2
  WindowSize = 2
  MaxStoreFailures = 1
INVARIANTS
  TypeOK
  CommitOrder
PROPERTIES
  NoLateWrite
  Terminates
CHECK_DEADLOCK FALSE
