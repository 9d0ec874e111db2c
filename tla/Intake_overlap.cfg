SPECIFICATION Spec
CONSTANTS
  None = None
  Other = Other
  Heartbeats = {1, 2}
  EnergyAt <- GrowingEnergy
  FirstEnergy = 10
  Threads = {t1, t2}
  BatchSize = 2
  LockWalletsOnProcess = TRUE
  MaxResends = 0
  MaxCrashes = 0
INVARIANTS
  EnergyCharged
CHECK_DEADLOCK FALSE
