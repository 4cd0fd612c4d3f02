SPECIFICATION Spec
CONSTANTS
  Managed <- MCManaged
  Manual <- MCManual
  Sources = {1, 2}
  Pins = {1, 2}
  MaxChanges = 1
  PruneOldImages = TRUE
  MaxFaults = 2
INVARIANTS
  RowsServedUnlessRaced
  ArchiveMatches
CHECK_DEADLOCK FALSE
PROPERTY
  StaleRebuilt
