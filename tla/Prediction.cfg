SPECIFICATION Spec
CONSTANTS
  Loads <- MCLoads
  Starts <- MCStarts
  CollectorFails = FALSE
  MaxHours = 170
INVARIANTS
  BusyHourIsPredicted
CHECK_DEADLOCK FALSE
