SPECIFICATION Spec
CONSTANTS
  Requests = {r1, r2}
  MaxRuns = 3
  MaxOpens = 3
SYMMETRY RequestSymmetry
INVARIANTS
  CachedIsOpen
  FreshAnswer
  NoLeak
CHECK_DEADLOCK FALSE
