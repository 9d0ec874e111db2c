SPECIFICATION FairSpec
CONSTANTS
  None = None
  Other = Other
  Heartbeats = {1, 2, 3}
  EnergyAt <- GrowingEnergy
  FirstEnergy = 10
  Threads = {t1, t2}
  BatchSize = 2
  LockWalletsOnProcess = TRUE
  MaxResends = 1
  MaxCrashes = 1
INVARIANTS
  NoReadingStranded
  ChargedIsMeasured
PROPERTIES
  BilledOnce
  ReadingWritten
CHECK_DEADLOCK FALSE
