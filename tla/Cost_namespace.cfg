SPECIFICATION Spec
CONSTANTS
  Key <- MCKey
  Kind <- MCKind
  Shapes <- MCShapes
  Rate <- MCRate
  Counted <- MCCounted
  TeamOf <- MCTeamOf
  CapacityOf <- MCCapacityOf
  Never = Never
  Interval = 2
  MonthStart = 0
  MaxTime = 6
  MaxLives = 1
  MaxFaults = 0
INVARIANT NamespaceCostIsSpent
CHECK_DEADLOCK FALSE
