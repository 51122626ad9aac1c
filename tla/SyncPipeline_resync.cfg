SPECIFICATION Spec
CONSTANTS
  SyncSlots = {h1}
  IndexSlots = {i1}
  Prunes = FALSE
  RetryLimit = 1
  MaxCommit = 2
  MaxJobs = 2
  MaxFaults = 0
INVARIANTS
  ResyncChecksOut
CHECK_DEADLOCK FALSE
