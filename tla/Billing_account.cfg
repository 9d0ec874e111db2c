SPECIFICATION Spec
CONSTANTS
  None = None
  AllowNegativeBalance = FALSE
  DebtPaybackPercent = 100
  TicksPerDay = 4
  DaysPerMonth = 2
  MaxValue = 6
  TariffRows <- ManyTariffs
  Modes = {"on", "auto"}
  InitialPurse <- SomeDebt
  CreditAmounts = {1}
  Kwhs = {0, 3}
  Gaps = {2, 8}
  Delays = {0, 3}
  MaxReadings = 4
  MaxPurchases = 1
  MaxChanges = 1
INVARIANTS
  CycleEnergyCounted
  CyclePricedByBlocks
  MoneyAccounted
  PlanBalanceRuns
PROPERTIES
  PrepaidNeverOwes
  PlanPaidOnce
  PlanKeptUp
  LowBalanceNoticed
CHECK_DEADLOCK FALSE
