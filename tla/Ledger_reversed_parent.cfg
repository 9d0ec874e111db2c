SPECIFICATION Spec
CONSTANTS
  m1 = m1
  v1 = v1
  system = system
  None = None
  Meters = {m1}
  Vendors = {v1}
  Globals = {system}
  System = system
  AutoMeters = {m1}
  AllowNegativeBalance = FALSE
  DebtPaybackPercent = 100
  LockWalletsOnProcess = TRUE
  TxId = {t1, t2, t3, t4, t5}
  ExtIds = {}
  Workers = {loop}
  Cli = {}
  Clients = {c1}
  Billers = {}
  Flows <- ExchangeFlows
  Amounts = {1, 2}
  Markups = {0}
  ReversalRequests = {"user", "system", "zeroing"}
  Costs = {1}
  InitialBalance <- NoWallets
  MaxReadings = 0
  MaxZeroRequests = 0
  MaxCrashes = 0
SYMMETRY Ids
INVARIANTS
  ReversedHasReversal
CHECK_DEADLOCK FALSE
