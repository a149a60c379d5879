SPECIFICATION Spec
CONSTANTS
  s1 = s1
  s2 = s2
  s3 = s3
  o1 = o1
  o2 = o2
  o3 = o3
  o4 = o4
  r1 = r1
  p1 = p1
  NoNode = NoNode
  SpotNodes <- MCOneSpotNode
  OnDemandNodes <- MCFourOnDemandNodes
  ReservedNodes <- MCReservedNodes
  Pod <- MCOnePod
  NodePools <- MCNodePools
  MinNodes = 4
  MaxNodes = 5
  SpotPercentage = 20
  ScaleUpCooldown = 2
  ScaleDownCooldown = 1
  PendingPodTimeout = 0
  DrainTimeout = 2
  JoinDelay = 1
  LeaveDelay = 0
  EnablePredictiveScaling = TRUE
  MaxRecommended = 6
  MaxRestarts = 1
  MaxLostReplies = 1
  MaxLost = 1
SYMMETRY MCSymmetry
INVARIANTS
  TypeOK
  MaxNodesBound
  MinNodesKept
PROPERTIES
  RemovalIsGraceful
  SpotGoesFirst
  ImplementsLifecycle
