SPECIFICATION UseSpec
CONSTANTS
  TicksPerDay = 24
  DaysPerMonth = 1
  MaxValue = 4
  Proposals <- SmallTariffs
  Heartbeats = {1, 4, 28}
  Amounts = {1, 3}
  MaxEnergy = 5
INVARIANTS
  BlocksPricedByKwh
  TouCoversReading
  OnePeriodPerHour
