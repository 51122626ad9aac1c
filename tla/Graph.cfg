SPECIFICATION Spec
CONSTANTS
  Nodes <- MCNodes
  KindOf <- MCKindOf
  FileOf <- MCFileOf
  Exported = {}
  EdgePool <- MCEdges
  MaxEdges = 4
  TestFiles = {"b", "c"}
  SearchLimit = 2
  MaxNodes = 3
  TraversalDepth = 1
  HierarchyNodes = 2
  PerFile = 1
  NonProduction = 1
INVARIANTS BfsExact ContextClosed
CHECK_DEADLOCK FALSE
