SPECIFICATION Spec
CONSTANTS
  N = 2
  BatchSize = 2
  WindowSize = 2
  MaxStoreFailures = 0
INVARIANTS
  RetryRepairs
CHECK_DEADLOCK FALSE
