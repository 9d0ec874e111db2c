SPECIFICATION MCSpec
CONSTANTS
  None = None
  Unreadable = Unreadable
  t1 = t1
  t2 = t2
  a1 = a1
  a2 = a2
  v1 = v1
  v2 = v2
  Fields = {"key"}
  GrpcFields = {"key"}
  GrpcExtra = {}
  Good = {v1, v2}
  Drivers = {"d"}
  Contracts <- MCContracts
  FirstContract <- TwoWay
  Threads = {t1, t2}
  MaxIds = 2
  MaxRequests = 3
  MaxTroubles = 1
  MaxUpgrades = 1
  Activations = {a1, a2}
  MaxRuntimes = 3
SYMMETRY Symmetry
INVARIANTS
  ConfigKept
  DriverFollowsConfig
  RuntimeFollowsSettings
  OneConsumer
CHECK_DEADLOCK FALSE
