SPECIFICATION Spec
CONSTANTS
  m1 = m1
  v1 = v1
  system = system
  None = None
  Meters = {m1}
  Vendors = {v1}
  Globals = {system}
  System = system
  AutoMeters = {m1}
  AllowNegativeBalance = FALSE
  DebtPaybackPercent = 100
  LockWalletsOnProcess = TRUE
  TxId = {t1, t2, t3}
  ExtIds = {e1}
  Workers = {loop, cli}
  Cli = {cli}
  Clients = {c1}
  Billers = {b1}
  Flows <- SaleFlows
  Amounts = {1}
  Markups = {0}
  ReversalRequests = {"user", "system", "zeroing"}
  Costs = {1}
  InitialBalance <- MixedMeter
  MaxReadings = 1
  MaxZeroRequests = 1
  MaxCrashes = 1
SYMMETRY Ids
INVARIANTS
  FreshView
  OneReversal
  MoneyConserved
PROPERTIES
  ImplementsLedgerSpec
CHECK_DEADLOCK FALSE
