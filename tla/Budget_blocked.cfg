SPECIFICATION Spec
CONSTANTS
  warn = warn
  crit = crit
  asp1 = asp1
  asp2 = asp2
  spot = spot
  od = od
  Never = Never
  DefaultMaxSize = 100
  Alert <- MCAlert
  Threshold <- MCThreshold
  MonthlyLimit = 10
  Spends <- MCSpends
  GracePeriod = 2
  Modes <- MCThrottle
  BlockSpotCreation = TRUE
  MaxSpotInstances = 1
  Policy <- MCPolicy
  Pool <- MCPool
  SpotPools <- MCSpotPools
  Namespaces <- MCNamespaces
  Sizes <- MCSizes
  InitialSizes <- MCInitialSizes
  MaxStaleReads = 0
  MaxEdits = 0
  MaxFaults = 0
INVARIANTS
  SpotCreationIsBlocked
