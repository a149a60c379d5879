SPECIFICATION Spec
CONSTANTS
  Pod <- MCPod
  Node = {"n1", "n2"}
  Submitted <- MCSubmitted
  Physical <- MCPhysical
  Usage <- MCUsage
  Replicas = 2
  MaxPrepared = 1
  NoNode = NoNode
  EnableMIG = TRUE
  EnableMPS = TRUE
  EnableTS = TRUE
  Times = {t1, t2}
SYMMETRY MCSymmetry
INVARIANTS
  TypeOK
  ProfileFits
  AdmittedOnce
  PlanFits
  PriorityRespected
  AnalysisIsSound
  RunningPodIsBilled
PROPERTIES
  AdviceIsEarned
CHECK_DEADLOCK FALSE
