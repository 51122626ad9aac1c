CONSTANTS
  Nodes <- MCNodes  KindOf <- MCKindOf  FileOf <- MCFileOf  Tables <- MCTables  Asked <- MCAsked
  MaxRows = 5  FewRows = 5
SPECIFICATION MCSpec
INVARIANTS Bounded Exact Nearest PathShortest CallersOnce ImpactSound CyclesReal
CHECK_DEADLOCK FALSE
