SPECIFICATION Spec
CONSTANTS
  Meters = {m1, m2}
  MaxBackoff = 2
  MaxEvents = 2
  MaxLosses = 2
  MaxGatewayChanges = 0
  MaxCrashes = 0
SYMMETRY MeterSymmetry
INVARIANTS
  ConsumerLives
CHECK_DEADLOCK FALSE
