SPECIFICATION FairSpec
CONSTANTS
  Meters = {m1, m2}
  MaxBackoff = 2
  MaxEvents = 2
  MaxLosses = 2
  MaxGatewayChanges = 2
  MaxCrashes = 1
INVARIANTS
  PauseWatched
  OneReconciler
PROPERTIES
  PauseEnds
  RosterRestored
CHECK_DEADLOCK FALSE
