SPECIFICATION FairSpec
CONSTANTS
  m1 = m1
  v1 = v1
  system = system
  None = None
  Meters = {m1}
  Vendors = {v1}
  Globals = {system}
  System = system
  AutoMeters = {m1}
  AllowNegativeBalance = FALSE
  DebtPaybackPercent = 100
  LockWalletsOnProcess = TRUE
  TxId = {t1, t2, t3}
  ExtIds = {}
  Workers = {loop}
  Cli = {}
  Clients = {c1}
  Billers = {}
  Flows <- AllFlowsHere
  Amounts <- PlusMinusOne
  Markups = {0, 1}
  ReversalRequests = {"user", "system", "zeroing"}
  Costs = {2}
  InitialBalance <- MixedMeter
  MaxReadings = 0
  MaxZeroRequests = 0
  MaxCrashes = 1
PROPERTIES
  NoOverdraft
  PendingSettles
CHECK_DEADLOCK FALSE
