CONSTANTS
  Sorted <- MCSorted  Dir <- MCDir  Ext <- MCExt  Scope <- MCScope  Segs <- MCSegs  Beside <- MCBeside
  Generated <- MCGenerated  Stem <- MCStem  Suffixed <- MCSuffixed  Cap <- MCCap
  Registrars <- MCRegistrars  Dispatchers <- MCDispatchers  Mediators <- MCMediators  Endpoint <- MCEndpoint
  Projects <- MCProjects  MaxShift = 1  Removable <- MCRemovable
SPECIFICATION Spec
CHECK_DEADLOCK FALSE

INVARIANTS Complete GoDispatch NoGuess SitesInside
