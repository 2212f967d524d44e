SPECIFICATION FairSpec
CONSTANTS
  Assets = {web}
  Asks = {x, y}
  MaxVersion = 2
  MaxRuns = 2
  Inventories <- Observations
  Setups <- Disturbances
  None = None
INVARIANTS
  PendingHasRun
  NotDetectedMeansClean
  AnnouncedOnce
PROPERTIES
  EveryCheckEnds
  SettlesToTruth
