SPECIFICATION Spec
CONSTANTS
  s1 = s1
  s2 = s2
  o1 = o1
  low = low
  high = high
  odd = odd
  NoNode = NoNode
  SpotNodes <- MCSpotNodes
  OtherNodes <- MCNoNodes
  Pod <- MCHigh
  Labels <- MCLabels
  NoticePeriod = 3
  Pause = 1
  HighGrace = 1
  NamesReused = TRUE
  FaultKinds = {"restart", "read", "update", "list", "delete"}
  MaxFaults = 1
SYMMETRY MCSymmetry
INVARIANTS
  TypeOK
  OneRunPerNode
