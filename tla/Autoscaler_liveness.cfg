SPECIFICATION FairSpec
CONSTANTS
  s1 = s1
  s2 = s2
  s3 = s3
  o1 = o1
  o2 = o2
  o3 = o3
  o4 = o4
  r1 = r1
  p1 = p1
  NoNode = NoNode
  SpotNodes <- MCSpotNodes
  OnDemandNodes <- MCOnDemandNodes
  ReservedNodes <- MCNoNodes
  Pod <- MCOnePod
  NodePools <- MCNodePools
  MinNodes = 0
  MaxNodes = 5
  SpotPercentage = 60
  ScaleUpCooldown = 1
  ScaleDownCooldown = 1
  PendingPodTimeout = 0
  DrainTimeout = 1
  JoinDelay = 0
  LeaveDelay = 0
  EnablePredictiveScaling = FALSE
  MaxRecommended = 6
  MaxRestarts = 0
  MaxLostReplies = 0
  MaxLost = 0
PROPERTIES
  ReconcileReturns
  PendingIsServed
