SPECIFICATION Spec
CONSTANTS
  Key <- MCKey
  Kind <- MCKind
  Shapes <- MCShapes
  Rate <- MCRate
  Counted <- MCCounted
  TeamOf <- MCTeamOf
  CapacityOf <- MCCapacityOf
  Never = Never
  Interval = 2
  MonthStart = 1
  MaxTime = 6
  MaxLives = 2
  MaxFaults = 2
INVARIANTS
  TypeOK
  EntryIsExact
  EntriesAreFresh
  LossIsBounded
  SpendNotOverstated
  RunningIsCharged
  BreakdownAddsUp
  SpotIsCheaper
PROPERTIES
  ImplementsLedger
CHECK_DEADLOCK FALSE
