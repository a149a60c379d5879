SPECIFICATION Spec
CONSTANTS
  warn = warn
  crit = crit
  asp1 = asp1
  asp2 = asp2
  spot = spot
  od = od
  Never = Never
  DefaultMaxSize = 100
  Alert <- MCAlert
  Threshold <- MCThreshold
  MonthlyLimit = 10
  Spends <- MCSpends
  GracePeriod = 1
  Modes <- MCModes
  BlockSpotCreation = FALSE
  MaxSpotInstances = 1
  Policy <- MCPolicy
  Pool <- MCPool
  SpotPools <- MCSpotPools
  Namespaces <- MCNamespaces
  Sizes <- MCSizes
  InitialSizes <- MCInitialSizes
  MaxStaleReads = 1
  MaxEdits = 1
  MaxFaults = 1
INVARIANTS
  TypeOK
  AlertSentOnce
PROPERTIES
  ThrottlingIsComplete
  GraceIsGiven
  AlertsComeFirst
  ImplementsPromise
  OnlySpotShrinks
  EnforcementFollowsSpend
  AlertsAreSent
