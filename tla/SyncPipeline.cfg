SPECIFICATION FairSpec
CONSTANTS
  SyncSlots = {h1, h2}
  IndexSlots = {i1, i2}
  Prunes = TRUE
  RetryLimit = 1
  MaxCommit = 2
  MaxJobs = 2
  MaxFaults = 2
INVARIANTS
  IndexMatchesTree
  SettledIsConsistent
PROPERTIES
  Settles
CHECK_DEADLOCK FALSE
