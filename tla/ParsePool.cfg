SPECIFICATION FairSpec
CONSTANTS
  Jobs = {j1, j2}
  Workers = {w1, w2, w3}
  NoJob = NoJob
  MaxSize = 2
  RecycleInterval = 2
  CrashBudget = 2
  MaxConcurrentSpawn = 1
  MaxRecycleAll = 1
INVARIANTS WorkersAccounted JobsOwned RespawnBounded DestroyedIsEmpty
PROPERTY AnswersEveryRequest
CHECK_DEADLOCK FALSE
