SPECIFICATION FairSpec
CONSTANTS
  Nodes = {m1, m2}
  Spares = {m2}
  Tariffs = {t1, t2}
  Hours <- MCHours
  Caps <- MCCaps
  Uses <- MCUses
  Editors = {e1, e2}
  Forms <- MCForms
  Rating = 1
  Powers <- MCPowers
  Voltages <- MCVoltages
  Broadest = 9
  None = None
  Broadcast = TRUE
  NewMode = "on"
  MaxRequests = 2
  MaxTroubles = 1
  FirstTariff = t1
  FirstTerms <- MCFirstTerms
  FirstHour = "night"
  FirstVoltage = 2
  MaxQueue = 2
INVARIANTS
  CommandsFollowDatabase
  OverrideFollowsRequest
  AlertedOnce
PROPERTY
  EverythingHandled
CHECK_DEADLOCK FALSE
