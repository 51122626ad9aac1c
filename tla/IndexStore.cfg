SPECIFICATION Spec
CONSTANTS
  Files = {"f", "g"}
  Names = {"p", "q"}
  Chained = {"q"}
  Contents <- MCContents
  BatchSize = 1
  MaxEdits = 3
  MaxCrashes = 1
INVARIANTS NodesMatchRows LinksKept SyncFindsAll
PROPERTIES CatchesUp
