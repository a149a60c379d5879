SPECIFICATION Spec
CONSTANTS
  s1 = s1
  s2 = s2
  o1 = o1
  low = low
  high = high
  odd = odd
  NoNode = NoNode
  SpotNodes <- MCOneSpotNode
  OtherNodes <- MCOtherNodes
  Pod <- MCHigh
  Labels <- MCLabels
  NoticePeriod = 24
  Pause = 2
  HighGrace = 6
  NamesReused = FALSE
  FaultKinds = {"restart", "read", "delete"}
  MaxFaults = 0
PROPERTIES
  EvictsFromItsNode
