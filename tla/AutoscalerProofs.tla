-------------------------- MODULE AutoscalerProofs --------------------------
(***************************************************************************)
(* What the runs of Autoscaler show on a few machines, proved for every    *)
(* set of machines and pods, every limit, cooldown and number of faults.   *)
(***************************************************************************)
EXTENDS Autoscaler, FiniteSetTheorems, TLAPS

-----------------------------------------------------------------------------
(* Facts about the rules and the sets of nodes.                            *)

\* The numbers the decisions are made of are natural numbers.
LEMMA NodeSetsFinite ==
  ASSUME NEW states
  PROVE  /\ IsFiniteSet(NodesIn(states))
         /\ Cardinality(NodesIn(states)) \in Nat
<1>1. NodesIn(states) \subseteq Node
  BY DEF NodesIn
<1> QED
  BY <1>1, NodesAssumption, FS_Subset, FS_CardinalityType

LEMMA ListedFinite ==
  /\ IsFiniteSet(Listed) /\ Cardinality(Listed) \in Nat
  /\ Listed \subseteq Node
BY NodeSetsFinite DEF Listed, NodesIn


LEMMA TargetsNat ==
  ASSUME NEW n \in Nat, NEW k \in Nat
  PROVE  ScaleUpTarget(n, k) \in Nat /\ ScaleDownTarget(n, k) \in Nat
<1> DEFINE g == (k + 3) \div 4
           f == n \div 5
<1>1. g \in Nat /\ f \in Nat /\ f <= n
  OBVIOUS
<1>2. ScaleUpTarget(n, k) = Smaller(n + g, MaxNodes)
  BY DEF ScaleUpTarget
<1>3. ScaleDownTarget(n, k) = Larger(n - Smaller(k, f), MinNodes)
  BY DEF ScaleDownTarget
<1> HIDE DEF g, f
<1> QED
  BY <1>1, <1>2, <1>3, LimitsAssumption DEF Smaller, Larger

LEMMA PoolsTyped ==
  ASSUME NEW spot, NEW total
  PROVE  SelectPools(spot, total) \subseteq PoolNames
BY LimitsAssumption DEF SelectPools, PreferredPools, PoolNames, NoPool

\* Whatever the metrics and the prediction, the decision is well formed.
LEMMA DecisionTyped ==
  ASSUME TypeOK, NEW m \in Metrics, NEW recommended \in Recommendations,
         NEW pool \in PoolNames
  PROVE  WithPrediction(BaseDecision(m, pool), recommended) \in Decisions
<1>1. Cardinality(Listed) \in Nat
  BY ListedFinite
<1>2. Cardinality(Pending) \in Nat
  BY NodesAssumption, FS_Subset, FS_CardinalityType DEF Pending
<1>3. m.under \in Nat
  BY <1>1 DEF Metrics
<1>4. /\ ScaleUpTarget(Cardinality(Listed), Cardinality(Pending)) \in Nat
      /\ ScaleDownTarget(Cardinality(Listed), m.under) \in Nat
  BY <1>1, <1>2, <1>3, TargetsNat
<1>5. NoPool \in PoolNames
  BY LimitsAssumption DEF NoPool, PoolNames
<1>6. BaseDecision(m, pool) \in Decisions
  BY <1>1, <1>4, <1>5 DEF BaseDecision, Decisions, Actions
<1>7. recommended \in Nat
  BY ScopeAssumption DEF Recommendations
<1> QED
  BY <1>6, <1>7 DEF WithPrediction, Decisions, Actions

LEMMA TypeInit == Init => TypeOK
<1> SUFFICES ASSUME Init PROVE TypeOK
  OBVIOUS
<1>1. NoPool \in PoolNames
  BY LimitsAssumption DEF NoPool, PoolNames
<1> QED
  BY <1>1, TimingAssumption, ScopeAssumption
  DEF Init, TypeOK, NoDecision, Decisions, Actions, Phases, Larger

LEMMA TypeNext == TypeOK /\ [Next]_vars => TypeOK'
<1> SUFFICES ASSUME TypeOK, [Next]_vars PROVE TypeOK'
  OBVIOUS
<1> USE DEF TypeOK
<1>n. NoDecision \in Decisions
  BY LimitsAssumption DEF NoDecision, Decisions, Actions, PoolNames, NoPool
<1>d. DrainTimeout \in Nat /\ 0 \in 0..DrainTimeout /\ 0 \in 0..Larger(JoinDelay, LeaveDelay)
  BY TimingAssumption DEF Larger
<1>r. Return => /\ phase' \in Phases /\ decision' \in Decisions /\ todo' \subseteq Node
                /\ current' \in Node \cup {NoNode} /\ drainAge' \in 0..DrainTimeout
                /\ untried' \subseteq Node
  BY <1>n, <1>d DEF Return, Phases
<1>x. NextNode => /\ phase' \in Phases /\ decision' \in Decisions /\ todo' \subseteq Node
                  /\ current' \in Node \cup {NoNode} /\ drainAge' \in 0..DrainTimeout
                  /\ untried' \subseteq Node
  BY <1>d DEF NextNode, Phases
<1>1. CASE Analyze
  <2>1. PICK m \in Metrics, recommended \in Recommendations,
             pool \in SelectPools(Cardinality(Listed \cap SpotNodes), Cardinality(Listed)) :
          decision' = WithPrediction(BaseDecision(m, pool), recommended)
    BY <1>1 DEF Analyze
  <2>2. decision' \in Decisions
    BY <2>1, DecisionTyped, PoolsTyped
  <2> QED
    BY <1>1, <2>2 DEF Analyze, Phases, clusterVars, controllerVars, faultVars
<1>2. CASE ScaleUpFails
  BY <1>2, <1>r DEF ScaleUpFails, clusterVars, controllerVars, faultVars
<1>3. CASE \E n \in Node : ScaleUpSucceeds(n)
  BY <1>3, <1>r, <1>d, TimingAssumption DEF ScaleUpSucceeds, Ordered, faultVars
<1>4. CASE \E n \in Node : ScaleUpReplyLost(n)
  BY <1>4, <1>r, <1>d, ScopeAssumption DEF ScaleUpReplyLost, Ordered, controllerVars
<1>5. CASE SelectNodesToRemove
  <2>1. todo' \subseteq Node /\ untried' \subseteq Node
    BY <1>5, ListedFinite DEF SelectNodesToRemove, RemovalChoices
  <2> QED
    BY <1>5, <2>1 DEF SelectNodesToRemove, Phases, clusterVars, controllerVars, faultVars
<1>6. CASE SelectNodesFails
  BY <1>6, <1>r DEF SelectNodesFails, clusterVars, controllerVars, faultVars
<1>7. CASE \E n \in Node : Cordon(n)
  BY <1>7 DEF Cordon, Phases, controllerVars, faultVars
<1>8. CASE \E n \in Node : CordonFails(n)
  BY <1>8 DEF CordonFails, clusterVars, controllerVars, faultVars
<1>9. CASE Evict
  BY <1>9, <1>d, TimingAssumption DEF Evict, Phases, controllerVars, faultVars
<1>10. CASE Poll
  BY <1>10 DEF Poll, Phases, clusterVars, controllerVars, faultVars
<1>11. CASE DrainTimesOut
  BY <1>11, <1>x DEF DrainTimesOut, clusterVars, controllerVars, faultVars
<1>12. CASE RemoveNode
  BY <1>12, <1>x, <1>d DEF RemoveNode, controllerVars, faultVars
<1>13. CASE RemoveNodeFails
  BY <1>13, <1>x DEF RemoveNodeFails, clusterVars, controllerVars, faultVars
<1>14. CASE ScaleDownReturns
  BY <1>14, <1>r, TimingAssumption DEF ScaleDownReturns, clusterVars, faultVars
<1>15. CASE DrainListFails
  BY <1>15, <1>x DEF DrainListFails, clusterVars, controllerVars, faultVars
<1>16. CASE Restart
  BY <1>16, <1>r, TimingAssumption, ScopeAssumption DEF Restart, clusterVars
<1>17. CASE \E n \in Node : Join(n) \/ OrderGivenUp(n)
  BY <1>17, <1>d DEF Join, OrderGivenUp, controllerVars, runVars, faultVars
<1>18. CASE \E n \in Node : Leave(n) \/ Lose(n)
  BY <1>18, <1>d, TimingAssumption, ScopeAssumption
  DEF Leave, Lose, Vanish, controllerVars, runVars
<1>19. CASE \E p \in Pod : Submit(p) \/ Bind(p) \/ Start(p) \/ Exit(p)
  BY <1>19, TimingAssumption DEF Submit, Bind, Start, Exit, controllerVars, runVars, faultVars
<1>20. CASE \E p \in Pod, n \in Node : Schedule(p, n)
  BY <1>20 DEF Schedule, controllerVars, runVars, faultVars
<1>21. CASE Tick
  <2>1. age' \in [Node -> 0..Larger(JoinDelay, LeaveDelay)]
    BY <1>21, TimingAssumption DEF Tick, Larger, Requested, Leaving, NodesIn
  <2>2. waited' \in [Pod -> 0..PendingPodTimeout + 1]
    BY <1>21, TimingAssumption DEF Tick, Elapsed, Smaller, Pending
  <2>3. sinceUp' \in 0..ScaleUpCooldown /\ sinceDown' \in 0..ScaleDownCooldown
    BY <1>21, TimingAssumption DEF Tick, Elapsed, Smaller
  <2>4. drainAge' \in 0..DrainTimeout
    BY <1>21, TimingAssumption DEF Tick, Elapsed, Smaller
  <2> QED
    BY <1>21, <2>1, <2>2, <2>3, <2>4 DEF Tick, faultVars
<1>22. CASE UNCHANGED vars
  BY <1>22 DEF vars, clusterVars, controllerVars, runVars, faultVars
<1> QED
  BY <1>1, <1>2, <1>3, <1>4, <1>5, <1>6, <1>7, <1>8, <1>9, <1>10, <1>11, <1>12,
     <1>13, <1>14, <1>15, <1>16, <1>17, <1>18, <1>19, <1>20, <1>21, <1>22
  DEF Next, Reconcile, ScaleUpStep, ScaleDownProgress, Environment

\* Every variable keeps its type, for every number of machines and pods.
THEOREM TypeCorrect == Spec => []TypeOK
<1> QED
  BY TypeInit, TypeNext, PTL DEF Spec

-----------------------------------------------------------------------------
(* The drain, step by step.                                                *)

DrainPhases == {"evict", "wait", "drained"}

\* A pod has a node exactly from its scheduling to its exit.
HostInv == \A p \in Pod : host[p] = NoNode <=> pod[p] \in {"absent", "pending"}

\* The node being drained is one of those to remove and stays cordoned while
\* it exists; once the first poll is due, no binding to it is on its way, and
\* once the drain is over it has no pod.
DrainInv ==
  /\ phase \in DrainPhases =>
       /\ current \in todo
       /\ node[current] # "requested"
       /\ node[current] = "ready" => current \in cordoned
  /\ phase \notin DrainPhases \cup {"next"} => todo = {}
  /\ phase = "wait" /\ drainAge > 0 =>
       \A p \in Pod : pod[p] = "assumed" => host[p] # current
  /\ phase = "drained" => \A p \in Pod : host[p] # current

LEMMA HostNext == TypeOK /\ HostInv /\ [Next]_vars => HostInv'
<1> SUFFICES ASSUME TypeOK, HostInv, [Next]_vars PROVE HostInv'
  OBVIOUS
<1> USE NodesAssumption DEF TypeOK, HostInv
<1>1. CASE UNCHANGED <<pod, host>>
  BY <1>1
<1>2. CASE Evict
  BY <1>2 DEF Evict, BoundPods
<1>3. CASE \E n \in Node : Leave(n) \/ Lose(n)
  BY <1>3 DEF Leave, Lose, Vanish
<1>4. CASE \E p \in Pod : Submit(p) \/ Bind(p) \/ Start(p) \/ Exit(p)
  BY <1>4 DEF Submit, Bind, Start, Exit
<1>5. CASE \E p \in Pod, n \in Node : Schedule(p, n)
  BY <1>5 DEF Schedule
<1>6. Reconcile \/ Restart \/ (\E n \in Node : Join(n) \/ OrderGivenUp(n)) \/ Tick =>
        Evict \/ UNCHANGED <<pod, host>>
  BY DEF Reconcile, ScaleUpStep, ScaleDownProgress, Analyze, ScaleUpFails, ScaleUpSucceeds,
         ScaleUpReplyLost, Ordered, SelectNodesToRemove, SelectNodesFails, Cordon, CordonFails,
         Poll, DrainTimesOut, RemoveNode, RemoveNodeFails, ScaleDownReturns, DrainListFails,
         Restart, Join, OrderGivenUp, Tick, clusterVars
<1> QED
  BY <1>1, <1>2, <1>3, <1>4, <1>5, <1>6 DEF Next, Environment, vars, clusterVars

LEMMA DrainNext == TypeOK /\ HostInv /\ DrainInv /\ [Next]_vars => DrainInv'
<1> SUFFICES ASSUME TypeOK, HostInv, DrainInv, [Next]_vars PROVE DrainInv'
  OBVIOUS
<1> USE DEF TypeOK, DrainInv, DrainPhases
<1>1. CASE Analyze
  BY <1>1 DEF Analyze
<1>2. CASE ScaleUpStep \/ SelectNodesFails \/ ScaleDownReturns \/ Restart
  <2>1. Return
    BY <1>2 DEF ScaleUpStep, ScaleUpFails, ScaleUpSucceeds, ScaleUpReplyLost, Ordered,
                SelectNodesFails, ScaleDownReturns, Restart
  <2> QED
    BY <2>1 DEF Return
<1>3. CASE SelectNodesToRemove
  BY <1>3 DEF SelectNodesToRemove
<1>4. CASE \E n \in Node : Cordon(n)
  BY <1>4 DEF Cordon, NextToDrain, Listed, NodesIn
<1>5. CASE \E n \in Node : CordonFails(n)
  BY <1>5 DEF CordonFails, NextToDrain
<1>6. CASE Evict
  BY <1>6 DEF Evict
<1>7. CASE Poll
  BY <1>7, NodesAssumption DEF Poll, HostInv, BoundPods, clusterVars
<1>8. CASE DrainTimesOut \/ RemoveNode \/ RemoveNodeFails \/ DrainListFails
  <2>1. NextNode
    BY <1>8 DEF DrainTimesOut, RemoveNode, RemoveNodeFails, DrainListFails
  <2> QED
    BY <2>1 DEF NextNode
<1>9. CASE \E n \in Node : Join(n) \/ OrderGivenUp(n)
  BY <1>9 DEF Join, OrderGivenUp, runVars
<1>10. CASE \E n \in Node : Leave(n) \/ Lose(n)
  <2>1. PICK n \in Node : Vanish(n)
    BY <1>10 DEF Leave, Lose
  <2>2. /\ \A x \in Node : node'[x] = node[x] \/ node'[x] = "absent"
        /\ \A x \in Node : node'[x] = "ready" => x # n
        /\ cordoned' = cordoned \ {n}
    BY <2>1 DEF Vanish
  <2>3. \A p \in Pod : /\ host'[p] = host[p] \/ host'[p] = NoNode
                       /\ pod'[p] = "assumed" => pod[p] = "assumed"
    BY <2>1 DEF Vanish
  <2>4. UNCHANGED <<phase, todo, current, drainAge>>
    BY <2>1 DEF Vanish, runVars
  <2>5. phase \in DrainPhases => current \in Node
    OBVIOUS
  <2>6. (phase \in DrainPhases => /\ current \in todo
                                  /\ node[current] # "requested"
                                  /\ node[current] = "ready" => current \in cordoned)'
    BY <2>2, <2>4, <2>5
  <2>7. phase \in DrainPhases => \A p \in Pod : host[p] # current => host'[p] # current
    BY <2>3, <2>5, NodesAssumption
  <2>8. (phase = "wait" /\ drainAge > 0 =>
           \A p \in Pod : pod[p] = "assumed" => host[p] # current)'
    BY <2>3, <2>4, <2>7
  <2>9. (phase = "drained" => \A p \in Pod : host[p] # current)'
    BY <2>4, <2>7
  <2> QED
    BY <2>4, <2>6, <2>8, <2>9
<1>11. CASE \E p \in Pod : Submit(p) \/ Bind(p) \/ Start(p) \/ Exit(p)
  BY <1>11, NodesAssumption DEF Submit, Bind, Start, Exit, runVars
<1>12. CASE \E p \in Pod, n \in Node : Schedule(p, n)
  <2>1. PICK p \in Pod, n \in Node : Schedule(p, n)
    BY <1>12
  <2>2. phase \in DrainPhases => n # current
    BY <2>1 DEF Schedule
  <2> QED
    BY <2>1, <2>2 DEF Schedule, runVars
<1>13. CASE Tick
  BY <1>13 DEF Tick
<1>14. CASE UNCHANGED vars
  BY <1>14 DEF vars, clusterVars, runVars
<1> QED
  BY <1>1, <1>2, <1>3, <1>4, <1>5, <1>6, <1>7, <1>8, <1>9, <1>10, <1>11, <1>12, <1>13, <1>14
  DEF Next, Reconcile, ScaleDownProgress, Environment

-----------------------------------------------------------------------------
(* The upper limit.                                                        *)

\* Orders the running cooldown does not account for.
Uncovered == {n \in Requested : age[n] # sinceUp}

\* An order is younger than the cooldown, so a cooldown that has run out
\* covers none: whatever is still on order then is owed to a fault.
OrdersInv ==
  /\ \A n \in Requested : age[n] <= JoinDelay
  /\ Cardinality(Uncovered) <= Faults
  /\ Cardinality(Requested) <= Faults + 1
  /\ phase = "scaleUp" /\ decision.pool # NoPool =>
       /\ sinceUp = ScaleUpCooldown
       /\ Cardinality(Provisioned) < MaxNodes + Faults

LEMMA CardinalityMonotone ==
  ASSUME NEW S, NEW T, IsFiniteSet(T), S \subseteq T
  PROVE  Cardinality(S) <= Cardinality(T)
BY FS_Subset

LEMMA OrderSetsFinite ==
  /\ IsFiniteSet(Requested) /\ IsFiniteSet(Provisioned) /\ IsFiniteSet(Uncovered)
  /\ Cardinality(Requested) \in Nat /\ Cardinality(Provisioned) \in Nat
  /\ Cardinality(Uncovered) \in Nat
<1>1. Uncovered \subseteq Requested
  BY DEF Uncovered
<1> QED
  BY <1>1, NodeSetsFinite, FS_Subset, FS_CardinalityType DEF Requested, Provisioned

LEMMA FaultsNat == TypeOK => Faults \in Nat
BY ScopeAssumption DEF TypeOK, Faults

\* When the cooldown has run out it covers no order.
LEMMA NothingCovered ==
  ASSUME TypeOK, OrdersInv, sinceUp = ScaleUpCooldown
  PROVE  Cardinality(Requested) <= Faults
<1>1. Uncovered = Requested
  BY TimingAssumption DEF TypeOK, OrdersInv, Uncovered, Requested, NodesIn
<1> QED
  BY <1>1 DEF OrdersInv

\* What is paid for is what is listed and what is on order.
LEMMA ProvisionedSplit ==
  Cardinality(Provisioned) = Cardinality(Listed) + Cardinality(Requested)
<1>1. Provisioned = Listed \cup Requested /\ Listed \cap Requested = {}
  BY DEF Provisioned, Listed, Requested, NodesIn
<1> QED
  BY <1>1, OrderSetsFinite, ListedFinite, FS_Union, FS_EmptySet

\* Steps that order nothing: the sets only shrink and the ages stay.
LEMMA OrdersShrink ==
  ASSUME TypeOK, OrdersInv, MaxNodesBound,
         \A n \in Node : node'[n] = "requested" => node[n] = "requested" /\ age'[n] = age[n],
         \A n \in Node : node'[n] # "absent" => node[n] # "absent",
         UNCHANGED <<sinceUp, restarts, lostReplies>>,
         phase' = "scaleUp" => phase = "scaleUp" /\ decision' = decision
  PROVE  OrdersInv' /\ MaxNodesBound'
<1>1. Requested' \subseteq Requested /\ Uncovered' \subseteq Uncovered
  BY DEF Requested, Uncovered, NodesIn
<1>2. Provisioned' \subseteq Provisioned
  BY DEF Provisioned, NodesIn, TypeOK
<1>3. /\ Cardinality(Requested') <= Cardinality(Requested)
      /\ Cardinality(Uncovered') <= Cardinality(Uncovered)
      /\ Cardinality(Provisioned') <= Cardinality(Provisioned)
  BY <1>1, <1>2, OrderSetsFinite, CardinalityMonotone
<1>4. /\ Cardinality(Requested') \in Nat /\ Cardinality(Uncovered') \in Nat
      /\ Cardinality(Provisioned') \in Nat
  BY <1>1, <1>2, OrderSetsFinite, FS_Subset, FS_CardinalityType
<1>5. Faults' = Faults /\ Faults \in Nat
  BY FaultsNat DEF Faults
<1>6. MaxNodesBound'
  BY <1>3, <1>4, <1>5, OrderSetsFinite, LimitsAssumption DEF MaxNodesBound, Faults, TypeOK
<1>7. \A n \in Requested' : age'[n] <= JoinDelay
  BY <1>1 DEF OrdersInv, Requested, NodesIn
<1> QED
  BY <1>3, <1>4, <1>5, <1>6, <1>7, OrderSetsFinite, LimitsAssumption DEF OrdersInv

\* A decision that names a pool was made with the cooldown over and fewer
\* nodes listed than the limit; prediction overrides, but names no pool.
LEMMA PoolDecision ==
  ASSUME NEW m \in Metrics, NEW recommended, NEW pool,
         WithPrediction(BaseDecision(m, pool), recommended).pool # NoPool
  PROVE  ShouldScaleUp(m)
BY DEF WithPrediction, BaseDecision

LEMMA OrdersAnalyze ==
  ASSUME TypeOK, OrdersInv, MaxNodesBound, Analyze
  PROVE  OrdersInv' /\ MaxNodesBound'
<1>1. UNCHANGED <<node, age, sinceUp, restarts, lostReplies>>
  BY DEF Analyze, clusterVars, controllerVars, faultVars
<1>2. /\ UNCHANGED <<Requested, Uncovered, Provisioned, Faults>>
      /\ MaxNodesBound'
  BY <1>1 DEF Requested, Uncovered, Provisioned, NodesIn, Faults, MaxNodesBound
<1>3. ASSUME decision'.pool # NoPool
      PROVE  /\ sinceUp' = ScaleUpCooldown
             /\ Cardinality(Provisioned') < MaxNodes + Faults'
  <2>1. PICK m \in Metrics : ShouldScaleUp(m)
    BY <1>3, PoolDecision DEF Analyze
  <2>2. sinceUp = ScaleUpCooldown /\ Cardinality(Listed) < MaxNodes
    BY <2>1, TimingAssumption DEF ShouldScaleUp, TypeOK
  <2>3. Cardinality(Requested) <= Faults
    BY <2>2, NothingCovered
  <2>4. Cardinality(Provisioned) < MaxNodes + Faults
    BY <2>2, <2>3, ProvisionedSplit, ListedFinite, OrderSetsFinite, FaultsNat, LimitsAssumption
  <2> QED
    BY <1>1, <1>2, <2>2, <2>4
<1> QED
  BY <1>1, <1>2, <1>3 DEF OrdersInv

\* A new order: covered by the cooldown it starts, or by the fault that kept
\* it from starting.
LEMMA OrdersOrdered ==
  ASSUME TypeOK, OrdersInv, MaxNodesBound, NEW n \in Node,
         ScaleUpSucceeds(n) \/ ScaleUpReplyLost(n)
  PROVE  OrdersInv' /\ MaxNodesBound'
<1> DEFINE F == Faults
           R == Requested
           P == Provisioned
<1>1. /\ Ordered(n) /\ phase = "scaleUp" /\ decision.pool # NoPool /\ node[n] = "absent"
      /\ node' = [node EXCEPT ![n] = "requested"]
      /\ age' = [age EXCEPT ![n] = 0]
      /\ phase' = "idle"
  BY DEF ScaleUpSucceeds, ScaleUpReplyLost, Ordered, Return
<1>2. sinceUp = ScaleUpCooldown /\ Cardinality(P) < MaxNodes + F
  BY <1>1 DEF OrdersInv
<1>3. Cardinality(R) <= F /\ F \in Nat
  BY <1>2, NothingCovered, FaultsNat
<1>4. R' = R \cup {n} /\ P' = P \cup {n} /\ n \notin R /\ n \notin P
  BY <1>1 DEF Requested, Provisioned, NodesIn, TypeOK
<1>5. Cardinality(R') = Cardinality(R) + 1 /\ Cardinality(P') = Cardinality(P) + 1
  BY <1>4, OrderSetsFinite, FS_AddElement
<1>6. \A x \in R' : age'[x] <= JoinDelay
  BY <1>1, <1>4, TimingAssumption DEF OrdersInv, TypeOK, Requested, NodesIn
<1>7. CASE ScaleUpSucceeds(n)
  <2>1. sinceUp' = 0 /\ F' = F
    BY <1>7 DEF ScaleUpSucceeds, faultVars, Faults
  <2>2. Uncovered' \subseteq R
    BY <1>1, <1>4, <2>1 DEF Uncovered, TypeOK
  <2>3. Cardinality(Uncovered') <= Cardinality(R) /\ Cardinality(Uncovered') \in Nat
    BY <2>2, OrderSetsFinite, FS_Subset, FS_CardinalityType
  <2>4. MaxNodesBound'
    BY <1>2, <1>3, <1>5, <2>1, OrderSetsFinite, LimitsAssumption DEF MaxNodesBound
  <2>5. OrdersInv'
    BY <1>1, <1>3, <1>5, <1>6, <2>1, <2>3, OrderSetsFinite DEF OrdersInv
  <2> QED
    BY <2>4, <2>5
<1>8. CASE ScaleUpReplyLost(n)
  <2>1. F' = F + 1
    BY <1>8, ScopeAssumption DEF ScaleUpReplyLost, Faults, TypeOK
  <2>2. Uncovered' \subseteq R'
    BY DEF Uncovered
  <2>3. Cardinality(Uncovered') <= Cardinality(R) + 1
    BY <1>4, <1>5, <2>2, OrderSetsFinite, FS_AddElement, CardinalityMonotone
  <2>4. Cardinality(Uncovered') \in Nat
    BY <1>4, <2>2, OrderSetsFinite, FS_AddElement, FS_Subset, FS_CardinalityType
  <2>5. MaxNodesBound'
    BY <1>2, <1>3, <1>5, <2>1, OrderSetsFinite, LimitsAssumption DEF MaxNodesBound
  <2>6. OrdersInv'
    BY <1>1, <1>3, <1>5, <1>6, <2>1, <2>3, <2>4, OrderSetsFinite DEF OrdersInv
  <2> QED
    BY <2>5, <2>6
<1> QED
  BY <1>7, <1>8

\* A restart forgets the cooldown: one order more may be uncovered.
LEMMA OrdersRestart ==
  ASSUME TypeOK, OrdersInv, MaxNodesBound, Restart
  PROVE  OrdersInv' /\ MaxNodesBound'
<1>1. /\ UNCHANGED <<node, age>> /\ Faults' = Faults + 1 /\ phase' = "idle"
      /\ Faults \in Nat
  BY FaultsNat, ScopeAssumption DEF Restart, Return, clusterVars, Faults, TypeOK
<1>2. Requested' = Requested /\ Provisioned' = Provisioned /\ Uncovered' \subseteq Requested
  BY <1>1 DEF Requested, Provisioned, NodesIn, Uncovered
<1>3. Cardinality(Uncovered') <= Cardinality(Requested) /\ Cardinality(Uncovered') \in Nat
  BY <1>2, OrderSetsFinite, FS_Subset, FS_CardinalityType
<1>4. MaxNodesBound'
  BY <1>1, <1>2, OrderSetsFinite, LimitsAssumption DEF MaxNodesBound
<1>5. \A n \in Requested' : age'[n] <= JoinDelay
  BY <1>1, <1>2 DEF OrdersInv
<1> QED
  BY <1>1, <1>2, <1>3, <1>4, <1>5, OrderSetsFinite DEF OrdersInv

\* The cooldown and the covered order grow old together.
LEMMA OrdersTick ==
  ASSUME TypeOK, OrdersInv, MaxNodesBound, Tick
  PROVE  OrdersInv' /\ MaxNodesBound'
<1>1. UNCHANGED <<node, phase, decision, restarts, lostReplies>>
  BY DEF Tick, faultVars
<1>2. /\ UNCHANGED <<Requested, Provisioned, Faults>>
      /\ MaxNodesBound'
  BY <1>1 DEF Requested, Provisioned, NodesIn, Faults, MaxNodesBound
<1>3. \A n \in Requested : age'[n] = age[n] + 1 /\ age[n] < JoinDelay /\ age[n] \in Nat
  BY TimingAssumption DEF Tick, TypeOK, Requested, NodesIn, Larger
<1>a. sinceUp' = Smaller(sinceUp + 1, ScaleUpCooldown)
  BY DEF Tick, Elapsed
<1>b. ScaleUpCooldown \in Nat /\ sinceUp \in 0..ScaleUpCooldown
  BY TimingAssumption DEF TypeOK
<1>4. \/ sinceUp = ScaleUpCooldown /\ sinceUp' = ScaleUpCooldown
      \/ sinceUp < ScaleUpCooldown /\ sinceUp' = sinceUp + 1
  BY <1>a, <1>b DEF Smaller
<1>5. CASE sinceUp = ScaleUpCooldown
  <2>1. Uncovered' \subseteq Requested
    BY <1>2 DEF Uncovered
  <2>2. Cardinality(Uncovered') <= Cardinality(Requested) /\ Cardinality(Uncovered') \in Nat
    BY <2>1, OrderSetsFinite, FS_Subset, FS_CardinalityType
  <2>3. Cardinality(Requested) <= Faults
    BY <1>5, NothingCovered
  <2> QED
    BY <1>1, <1>2, <1>3, <1>4, <1>5, <2>2, <2>3, OrderSetsFinite, FaultsNat, TimingAssumption
    DEF OrdersInv
<1>6. CASE sinceUp # ScaleUpCooldown
  <2>1. Uncovered' = Uncovered
    BY <1>2, <1>3, <1>4, <1>6 DEF Uncovered, TypeOK
  <2> QED
    BY <1>1, <1>2, <1>3, <1>6, <2>1, TimingAssumption DEF OrdersInv
<1> QED
  BY <1>5, <1>6

LEMMA OrdersNext ==
  TypeOK /\ OrdersInv /\ MaxNodesBound /\ [Next]_vars => OrdersInv' /\ MaxNodesBound'
<1> SUFFICES ASSUME TypeOK, OrdersInv, MaxNodesBound, [Next]_vars
             PROVE  OrdersInv' /\ MaxNodesBound'
  OBVIOUS
<1>1. CASE Analyze
  BY <1>1, OrdersAnalyze
<1>2. CASE \E n \in Node : ScaleUpSucceeds(n) \/ ScaleUpReplyLost(n)
  BY <1>2, OrdersOrdered
<1>3. CASE Restart
  BY <1>3, OrdersRestart
<1>4. CASE Tick
  BY <1>4, OrdersTick
<1>5. CASE UNCHANGED <<node, age, sinceUp, restarts, lostReplies>> /\ phase' # "scaleUp"
  BY <1>5, OrdersShrink
<1>6. CASE UNCHANGED <<node, age, sinceUp, restarts, lostReplies, phase, decision>>
  BY <1>6, OrdersShrink
<1>7. CASE RemoveNode
  <2>1. /\ node' = [node EXCEPT ![current] = "leaving"] /\ node[current] = "ready"
        /\ age' = [age EXCEPT ![current] = 0]
        /\ phase' = "next" /\ UNCHANGED <<sinceUp, restarts, lostReplies>>
    BY <1>7 DEF RemoveNode, NextNode, controllerVars, faultVars
  <2>2. /\ \A n \in Node : node'[n] = "requested" => node[n] = "requested" /\ age'[n] = age[n]
        /\ \A n \in Node : node'[n] # "absent" => node[n] # "absent"
    BY <2>1 DEF TypeOK
  <2> QED
    BY <2>1, <2>2, OrdersShrink
<1>8. CASE \E n \in Node : Join(n) \/ OrderGivenUp(n) \/ Leave(n) \/ Lose(n)
  <2>1. PICK n \in Node : /\ node[n] # "absent"
                          /\ \/ node' = [node EXCEPT ![n] = "ready"]
                             \/ node' = [node EXCEPT ![n] = "absent"]
                          /\ age' = [age EXCEPT ![n] = 0]
    BY <1>8 DEF Join, OrderGivenUp, Leave, Lose, Vanish
  <2>2. UNCHANGED <<sinceUp, restarts, lostReplies, phase, decision>>
    BY <1>8 DEF Join, OrderGivenUp, Leave, Lose, Vanish, controllerVars, runVars, faultVars
  <2>3. /\ \A x \in Node : node'[x] = "requested" => node[x] = "requested" /\ age'[x] = age[x]
        /\ \A x \in Node : node'[x] # "absent" => node[x] # "absent"
    BY <2>1 DEF TypeOK
  <2> QED
    BY <2>2, <2>3, OrdersShrink
<1>9. ScaleUpFails \/ SelectNodesToRemove \/ SelectNodesFails \/ Evict \/ Poll \/ DrainTimesOut
        \/ RemoveNodeFails \/ ScaleDownReturns \/ DrainListFails \/ (\E n \in Node : Cordon(n)) =>
        UNCHANGED <<node, age, sinceUp, restarts, lostReplies>> /\ phase' # "scaleUp"
  BY DEF ScaleUpFails, SelectNodesToRemove, SelectNodesFails, Evict, Poll, DrainTimesOut,
         RemoveNodeFails, ScaleDownReturns, DrainListFails, Cordon, Return, NextNode,
         clusterVars, controllerVars, faultVars
<1>10. (\E n \in Node : CordonFails(n)) \/ (\E p \in Pod : Submit(p) \/ Bind(p) \/ Start(p) \/ Exit(p))
         \/ (\E p \in Pod, n \in Node : Schedule(p, n)) \/ UNCHANGED vars =>
         UNCHANGED <<node, age, sinceUp, restarts, lostReplies, phase, decision>>
  BY DEF CordonFails, Submit, Bind, Start, Exit, Schedule, vars, clusterVars, controllerVars, runVars,
         faultVars
<1> QED
  BY <1>1, <1>2, <1>3, <1>4, <1>5, <1>6, <1>7, <1>8, <1>9, <1>10
  DEF Next, Reconcile, ScaleUpStep, ScaleDownProgress, Environment

-----------------------------------------------------------------------------
(* The lower limit.                                                        *)

\* Without a restart, nodes terminated by an earlier scale-down are gone
\* before the next one is decided, and what is not picked for removal is
\* enough.
FloorInv ==
  /\ \A n \in Leaving : age[n] <= LeaveDelay
  /\ restarts = 0 =>
       /\ phase \in {"idle", "scaleUp"} => \A n \in Leaving : age[n] >= sinceDown
       /\ phase = "scaleDown" => Leaving = {} /\ decision.desired >= MinNodes
       /\ Cardinality(Ready \ todo) + lost >= MinNodes

LEMMA NodesFinite ==
  ASSUME NEW S, S \subseteq Node
  PROVE  IsFiniteSet(S) /\ Cardinality(S) \in Nat
BY NodesAssumption, FS_Subset, FS_CardinalityType

\* Steps that take no node of those that are to stay.
LEMMA FloorKept ==
  ASSUME TypeOK, Cardinality(Ready \ todo) + lost >= MinNodes,
         Ready \ todo \subseteq (Ready \ todo)', lost' = lost
  PROVE  (Cardinality(Ready \ todo) + lost >= MinNodes)'
<1>1. (Ready \ todo)' \subseteq Node /\ Ready \ todo \subseteq Node
  BY DEF Ready, NodesIn
<1>2. /\ Cardinality(Ready \ todo) \in Nat /\ Cardinality((Ready \ todo)') \in Nat
      /\ Cardinality(Ready \ todo) <= Cardinality((Ready \ todo)')
  BY <1>1, NodesFinite, CardinalityMonotone
<1>3. lost \in Nat /\ MinNodes \in Nat
  BY ScopeAssumption, LimitsAssumption DEF TypeOK
<1> QED
  BY <1>2, <1>3

\* A decision to shrink was made with the cooldown over, and its target is
\* above the floor; prediction never makes one.
LEMMA ShrinkDecision ==
  ASSUME NEW m, NEW recommended, NEW pool,
         WithPrediction(BaseDecision(m, pool), recommended).action = "scale-down"
  PROVE  /\ ShouldScaleDown(m)
         /\ WithPrediction(BaseDecision(m, pool), recommended).desired
              = ScaleDownTarget(Cardinality(Listed), m.under)
BY DEF WithPrediction, BaseDecision

LEMMA FloorAnalyze ==
  ASSUME TypeOK, FloorInv, Analyze, restarts = 0, phase' = "scaleDown"
  PROVE  Leaving = {} /\ decision'.desired >= MinNodes
<1>1. PICK m \in Metrics, recommended \in Recommendations,
           pool \in SelectPools(Cardinality(Listed \cap SpotNodes), Cardinality(Listed)) :
        /\ decision' = WithPrediction(BaseDecision(m, pool), recommended)
        /\ decision'.action # "no-action"
        /\ decision'.action # "scale-up"
  BY DEF Analyze
<1>2. decision'.action \in Actions
  BY <1>1 DEF WithPrediction, BaseDecision, Actions
<1>3. ShouldScaleDown(m) /\ decision'.desired = ScaleDownTarget(Cardinality(Listed), m.under)
  BY <1>1, <1>2, ShrinkDecision DEF Actions
<1>4. Cardinality(Listed) \in Nat /\ m.under \in Nat
  BY ListedFinite DEF Metrics
<1>5. decision'.desired >= MinNodes
  <2>1. \A x, y \in Int : Larger(x, y) >= y
    BY DEF Larger
  <2>2. Cardinality(Listed) - Smaller(m.under, Cardinality(Listed) \div 5) \in Int
    BY <1>4 DEF Smaller
  <2> QED
    BY <1>3, <2>1, <2>2, LimitsAssumption DEF ScaleDownTarget
<1>6. sinceDown = ScaleDownCooldown /\ phase = "idle"
  BY <1>3, TimingAssumption DEF ShouldScaleDown, TypeOK, Analyze
<1>7. \A n \in Leaving : age[n] \in Nat /\ age[n] <= LeaveDelay /\ age[n] >= ScaleDownCooldown
  BY <1>6, TimingAssumption DEF FloorInv, TypeOK, Leaving, NodesIn, Larger
<1> QED
  BY <1>5, <1>7, TimingAssumption

\* The picked nodes leave as many listed as were decided on.
LEMMA FloorSelect ==
  ASSUME TypeOK, DrainInv, FloorInv, SelectNodesToRemove, restarts = 0
  PROVE  (Cardinality(Ready \ todo) + lost >= MinNodes)'
<1> DEFINE c == Cardinality(Listed)
           d == decision.desired
<1>1. /\ phase = "scaleDown" /\ Leaving = {} /\ d >= MinNodes
      /\ UNCHANGED <<node, lost>>
  BY DEF SelectNodesToRemove, FloorInv, clusterVars, faultVars
<1>2. Ready = Listed /\ Ready' = Ready
  BY <1>1 DEF Ready, Listed, Leaving, NodesIn
<1>3. /\ todo' \subseteq Listed
      /\ Cardinality(todo') = Smaller(Larger(c - d, 0),
            Cardinality((Listed \cap SpotNodes) \cup (Listed \cap OnDemandNodes)))
  BY DEF SelectNodesToRemove, RemovalChoices
<1>4. /\ Cardinality((Listed \cap SpotNodes) \cup (Listed \cap OnDemandNodes)) \in Nat
      /\ IsFiniteSet(todo') /\ Cardinality(todo') \in Nat /\ c \in Nat /\ IsFiniteSet(Listed)
  BY <1>3, NodesFinite, ListedFinite
<1>5. d \in Nat /\ lost \in Nat /\ MinNodes \in Nat
  BY ScopeAssumption, LimitsAssumption DEF TypeOK, Decisions
<1>6. Cardinality(todo') <= Larger(c - d, 0)
  BY <1>3, <1>4, <1>5 DEF Smaller, Larger
<1>7. CASE c > d
  <2>1. Cardinality(todo') <= c - d
    BY <1>6, <1>7, <1>4, <1>5 DEF Larger
  <2>2. Cardinality(Listed \ todo') = c - Cardinality(todo')
    <3>1. Listed \cap todo' = todo'
      BY <1>3
    <3> QED
      BY <1>4, <3>1, FS_Difference
  <2> QED
    BY <1>1, <1>2, <1>4, <1>5, <2>1, <2>2
<1>8. CASE c <= d
  <2>1. Cardinality(todo') = 0
    BY <1>4, <1>5, <1>6, <1>8 DEF Larger
  <2>2. todo' = {}
    BY <1>4, <2>1, FS_EmptySet
  <2>3. Cardinality(Ready \ todo) + lost >= MinNodes
    BY DEF FloorInv
  <2> QED
    BY <1>1, <1>2, <2>2, <2>3, FloorKept
<1> QED
  BY <1>4, <1>5, <1>7, <1>8

\* A machine is lost: one node fewer, one loss more.
LEMMA FloorLose ==
  ASSUME TypeOK, Cardinality(Ready \ todo) + lost >= MinNodes, NEW n \in Node, Lose(n)
  PROVE  (Cardinality(Ready \ todo) + lost >= MinNodes)'
<1> DEFINE K == Ready \ todo
<1>1. lost' = lost + 1 /\ todo' = todo /\ node' = [node EXCEPT ![n] = "absent"]
  BY DEF Lose, Vanish, runVars
<1>2. K' = K \ {n} /\ K \subseteq Node
  BY <1>1 DEF Ready, NodesIn, TypeOK
<1>3. IsFiniteSet(K) /\ Cardinality(K) \in Nat
  BY <1>2, NodesFinite
<1>4. Cardinality(K \ {n}) >= Cardinality(K) - 1 /\ Cardinality(K \ {n}) \in Nat
  <2>1. Cardinality(K \ {n}) \in Nat
    BY <1>2, NodesFinite
  <2>2. Cardinality(K \ {n}) = IF n \in K THEN Cardinality(K) - 1 ELSE Cardinality(K)
    BY <1>3, FS_RemoveElement
  <2> QED
    BY <1>3, <2>1, <2>2
<1>5. lost \in Nat /\ MinNodes \in Nat
  BY ScopeAssumption, LimitsAssumption DEF TypeOK
<1> HIDE DEF K
<1>6. Cardinality(K) + lost >= MinNodes
  BY DEF K
<1>7. Cardinality(K') + lost' >= MinNodes
  BY <1>1, <1>2, <1>3, <1>4, <1>5, <1>6
<1> QED
  BY <1>7 DEF K

\* Steps outside the decision: terminated nodes stay within their deadline and
\* no younger than the cooldown.
LEMMA FloorOther ==
  ASSUME TypeOK, FloorInv,
         \A n \in Node : node'[n] = "leaving" => node[n] = "leaving" /\ age'[n] = age[n],
         UNCHANGED <<sinceDown, restarts>>,
         phase' \in {"idle", "scaleUp"} => phase \in {"idle", "scaleUp", "scaleDown"},
         phase' = "scaleDown" => phase = "scaleDown" /\ decision' = decision,
         restarts = 0 => (Cardinality(Ready \ todo) + lost >= MinNodes)'
  PROVE  FloorInv'
<1>1. \A n \in Leaving' : n \in Leaving /\ age'[n] = age[n]
  BY DEF Leaving, NodesIn
<1>2. (\A n \in Leaving : age[n] <= LeaveDelay)'
  BY <1>1 DEF FloorInv
<1>3. (restarts = 0 /\ phase \in {"idle", "scaleUp"} => \A n \in Leaving : age[n] >= sinceDown)'
  BY <1>1 DEF FloorInv
<1>4. (restarts = 0 /\ phase = "scaleDown" => Leaving = {} /\ decision.desired >= MinNodes)'
  BY <1>1 DEF FloorInv
<1> QED
  BY <1>2, <1>3, <1>4 DEF FloorInv

LEMMA FloorTick ==
  ASSUME TypeOK, FloorInv, Tick
  PROVE  FloorInv'
<1>1. UNCHANGED <<node, todo, phase, decision, lost, restarts>>
  BY DEF Tick, faultVars
<1>2. Leaving' = Leaving /\ Ready' = Ready
  BY <1>1 DEF Leaving, Ready, NodesIn
<1>3. \A n \in Leaving : age'[n] = age[n] + 1 /\ age[n] < LeaveDelay /\ age[n] \in Nat
  BY TimingAssumption DEF Tick, TypeOK, Leaving, NodesIn, Larger
<1>4. sinceDown' = Smaller(sinceDown + 1, ScaleDownCooldown)
  BY DEF Tick, Elapsed
<1>5. sinceDown \in Nat /\ ScaleDownCooldown \in Nat /\ LeaveDelay \in Nat
  BY TimingAssumption DEF TypeOK
<1>6. sinceDown' <= sinceDown + 1 /\ sinceDown' \in Nat
  BY <1>4, <1>5 DEF Smaller
<1>7. \A n \in Leaving : age[n] >= sinceDown => age'[n] >= sinceDown'
  BY <1>3, <1>5, <1>6
<1>8. \A n \in Leaving : age'[n] <= LeaveDelay
  BY <1>3, <1>5
<1> QED
  BY <1>1, <1>2, <1>7, <1>8 DEF FloorInv

LEMMA FloorNext == TypeOK /\ DrainInv /\ FloorInv /\ [Next]_vars => FloorInv'
<1> SUFFICES ASSUME TypeOK, DrainInv, FloorInv, [Next]_vars PROVE FloorInv'
  OBVIOUS
<1> DEFINE Kept == Cardinality(Ready \ todo) + lost >= MinNodes
           Same == UNCHANGED <<node, age, sinceDown, restarts, lost>>
<1>k. restarts = 0 => Kept
  BY DEF FloorInv
<1>s. ASSUME Same, todo' \subseteq todo, restarts = 0 PROVE Kept'
  <2>1. Ready \ todo \subseteq (Ready \ todo)'
    BY <1>s DEF Ready, NodesIn
  <2> QED
    BY <1>s, <1>k, <2>1, FloorKept
<1>1. CASE Analyze
  <2>1. Same /\ todo' = todo /\ phase = "idle" /\ phase' \in {"scaleUp", "scaleDown"}
    BY <1>1 DEF Analyze, clusterVars, controllerVars, faultVars
  <2>2. Leaving' = Leaving
    BY <2>1 DEF Leaving, NodesIn
  <2> QED
    BY <1>1, <1>s, <2>1, <2>2, FloorAnalyze DEF FloorInv
<1>2. CASE SelectNodesToRemove
  <2>1. Same /\ phase' = "next"
    BY <1>2 DEF SelectNodesToRemove, clusterVars, controllerVars, faultVars
  <2> QED
    BY <1>2, <2>1, FloorSelect, FloorOther
<1>3. CASE ScaleUpFails \/ SelectNodesFails
             \/ \E n \in Node : ScaleUpSucceeds(n) \/ ScaleUpReplyLost(n)
  <2>1. /\ \A n \in Node : node'[n] # node[n] => node[n] = "absent" /\ node'[n] = "requested"
        /\ \A n \in Node : age'[n] # age[n] => node[n] = "absent"
        /\ UNCHANGED <<sinceDown, restarts, lost>>
        /\ Return /\ phase \in {"scaleUp", "scaleDown"}
    BY <1>3 DEF ScaleUpFails, SelectNodesFails, ScaleUpSucceeds, ScaleUpReplyLost, Ordered,
                clusterVars, controllerVars, faultVars, TypeOK
  <2>2. Ready \ todo \subseteq (Ready \ todo)'
    BY <2>1 DEF Ready, NodesIn, Return
  <2>3. restarts = 0 => Kept'
    BY <1>k, <2>1, <2>2, FloorKept
  <2>4. \A n \in Node : node'[n] = "leaving" => node[n] = "leaving" /\ age'[n] = age[n]
    BY <2>1
  <2> QED
    BY <2>1, <2>3, <2>4, FloorOther DEF Return
<1>4. CASE ScaleDownReturns
  <2>1. UNCHANGED <<node, age, lost, restarts>> /\ sinceDown' = 0 /\ phase' = "idle" /\ todo' = {}
    BY <1>4 DEF ScaleDownReturns, Return, clusterVars, faultVars
  <2>2. Ready \ todo \subseteq (Ready \ todo)' /\ Leaving' = Leaving
    BY <2>1 DEF Ready, Leaving, NodesIn
  <2>3. restarts = 0 => Kept'
    BY <1>k, <2>1, <2>2, FloorKept
  <2>4. \A n \in Leaving : age[n] \in Nat
    BY TimingAssumption DEF TypeOK, Leaving, NodesIn, Larger
  <2> QED
    BY <2>1, <2>2, <2>3, <2>4 DEF FloorInv
<1>5. CASE RemoveNode
  <2>1. /\ node' = [node EXCEPT ![current] = "leaving"] /\ node[current] = "ready"
        /\ age' = [age EXCEPT ![current] = 0] /\ todo' = todo \ {current}
        /\ phase' = "next" /\ UNCHANGED <<sinceDown, restarts, lost>>
    BY <1>5 DEF RemoveNode, NextNode, controllerVars, faultVars
  <2>2. current \in todo
    BY <1>5 DEF RemoveNode, DrainInv, DrainPhases
  <2>3. Ready \ todo \subseteq (Ready \ todo)'
    BY <2>1, <2>2 DEF Ready, NodesIn, TypeOK
  <2>4. restarts = 0 => Kept'
    BY <1>k, <2>1, <2>3, FloorKept
  <2>5. /\ age'[current] = 0
        /\ \A n \in Node \ {current} : node'[n] = node[n] /\ age'[n] = age[n]
    BY <2>1, <2>2 DEF TypeOK
  <2>6. \A n \in Leaving' : age'[n] <= LeaveDelay
    BY <2>5, TimingAssumption DEF FloorInv, Leaving, NodesIn
  <2> QED
    BY <2>1, <2>4, <2>6 DEF FloorInv
<1>6. CASE Restart
  BY <1>6, ScopeAssumption DEF Restart, FloorInv, Leaving, NodesIn, clusterVars, TypeOK
<1>7. CASE \E n \in Node : Join(n) \/ OrderGivenUp(n)
  <2>1. PICK n \in Node : /\ node[n] = "requested"
                          /\ \/ node' = [node EXCEPT ![n] = "ready"]
                             \/ node' = [node EXCEPT ![n] = "absent"]
                          /\ age' = [age EXCEPT ![n] = 0]
    BY <1>7 DEF Join, OrderGivenUp
  <2>2. UNCHANGED <<sinceDown, restarts, lost, phase, todo, decision>>
    BY <1>7 DEF Join, OrderGivenUp, controllerVars, runVars, faultVars
  <2>3. Ready \ todo \subseteq (Ready \ todo)'
    BY <2>1, <2>2 DEF Ready, NodesIn, TypeOK
  <2>4. restarts = 0 => Kept'
    BY <1>k, <2>2, <2>3, FloorKept
  <2>5. \A x \in Node : node'[x] = "leaving" => node[x] = "leaving" /\ age'[x] = age[x]
    BY <2>1 DEF TypeOK
  <2> QED
    BY <2>2, <2>4, <2>5, FloorOther
<1>8. CASE \E n \in Node : Leave(n) \/ Lose(n)
  <2>1. PICK n \in Node : Leave(n) \/ Lose(n)
    BY <1>8
  <2>2. /\ node' = [node EXCEPT ![n] = "absent"]
        /\ age' = [age EXCEPT ![n] = 0]
        /\ UNCHANGED <<sinceDown, restarts, phase, todo, decision>>
    BY <2>1 DEF Leave, Lose, Vanish, controllerVars, runVars
  <2>3. ASSUME Leave(n), restarts = 0 PROVE Kept'
    <3>1. Ready \ todo \subseteq (Ready \ todo)' /\ lost' = lost
      BY <2>2, <2>3 DEF Ready, NodesIn, TypeOK, Leave
    <3> QED
      BY <1>k, <2>3, <3>1, FloorKept
  <2>4. restarts = 0 => Kept'
    BY <1>k, <2>1, <2>3, FloorLose
  <2>5. \A x \in Node : node'[x] = "leaving" => node[x] = "leaving" /\ age'[x] = age[x]
    BY <2>2 DEF TypeOK
  <2> QED
    BY <2>2, <2>4, <2>5, FloorOther
<1>9. CASE Tick
  BY <1>9, FloorTick
<1>10. CASE /\ Same /\ todo' \subseteq todo
            /\ phase' \notin {"idle", "scaleUp", "scaleDown"} \/ UNCHANGED <<phase, decision>>
  <2>1. restarts = 0 => Kept'
    BY <1>10, <1>s
  <2> QED
    BY <1>10, <2>1, FloorOther
<1>11. (\E n \in Node : Cordon(n)) \/ Evict \/ Poll \/ DrainTimesOut \/ RemoveNodeFails
          \/ DrainListFails =>
        Same /\ todo' \subseteq todo /\ phase' \notin {"idle", "scaleUp", "scaleDown"}
  BY DEF Cordon, Evict, Poll, DrainTimesOut, RemoveNodeFails, DrainListFails, NextNode,
         clusterVars, controllerVars, faultVars
<1>12. (\E n \in Node : CordonFails(n)) \/ (\E p \in Pod : Submit(p) \/ Bind(p) \/ Start(p) \/ Exit(p))
          \/ (\E p \in Pod, n \in Node : Schedule(p, n)) \/ UNCHANGED vars =>
        Same /\ todo' \subseteq todo /\ UNCHANGED <<phase, decision>>
  BY DEF CordonFails, Submit, Bind, Start, Exit, Schedule, vars, clusterVars, controllerVars, runVars,
         faultVars
<1> QED
  BY <1>1, <1>2, <1>3, <1>4, <1>5, <1>6, <1>7, <1>8, <1>9, <1>10, <1>11, <1>12
  DEF Next, Reconcile, ScaleUpStep, ScaleDownProgress, Environment

-----------------------------------------------------------------------------
(* Spot machines first.                                                    *)

\* The nodes not yet tried are listed ones; while an on-demand node is to be
\* removed, the spot nodes among them are to be removed too; and while an
\* on-demand node is drained, no spot node is to be removed any more.
TierInv ==
  /\ untried \subseteq Listed
  /\ todo \cap OnDemandNodes # {} => untried \cap SpotNodes \cap Ready \subseteq todo
  /\ phase \in DrainPhases /\ current \in OnDemandNodes => todo \cap SpotNodes = {}

LEMMA TierNext == TypeOK /\ DrainInv /\ TierInv /\ [Next]_vars => TierInv'
<1> SUFFICES ASSUME TypeOK, DrainInv, TierInv, [Next]_vars PROVE TierInv'
  OBVIOUS
<1> USE DEF TierInv, DrainPhases
<1>l. untried \subseteq Node /\ \A n \in untried : node[n] \in {"ready", "leaving"}
  BY DEF Listed, NodesIn
\* A step of the cluster that makes no node it listed ready again.
<1>a. ASSUME UNCHANGED <<phase, todo, current>>, untried' \subseteq untried,
             \A n \in untried' : node'[n] \in {"ready", "leaving"},
             \A n \in untried' : node'[n] = "ready" => node[n] = "ready"
      PROVE  TierInv'
  BY <1>a, <1>l DEF Listed, Ready, NodesIn
\* A step of Reconcile that gives up or hands over a node and nothing else.
<1>b. ASSUME NEW n, UNCHANGED node, todo' = todo \ {n}, untried' = untried \ {n},
             phase' = "next"
      PROVE  TierInv'
  BY <1>b, <1>l DEF Listed, Ready, NodesIn
<1>1. CASE Analyze
  BY <1>1, <1>l DEF Analyze, clusterVars, Listed, Ready, NodesIn
<1>2. CASE ScaleUpStep \/ SelectNodesFails \/ ScaleDownReturns \/ Restart
  <2>1. Return
    BY <1>2 DEF ScaleUpStep, ScaleUpFails, ScaleUpSucceeds, ScaleUpReplyLost, Ordered,
                SelectNodesFails, ScaleDownReturns, Restart
  <2> QED
    BY <2>1 DEF Return
<1>3. CASE SelectNodesToRemove
  <2>1. /\ todo' \in RemovalChoices(Listed \cap SpotNodes, Listed \cap OnDemandNodes,
                                    Cardinality(Listed) - decision.desired)
        /\ untried' = Listed /\ node' = node /\ phase' = "next"
    BY <1>3 DEF SelectNodesToRemove, clusterVars
  <2>2. todo' \subseteq Listed
        /\ (todo' \cap OnDemandNodes # {} => Listed \cap SpotNodes \subseteq todo')
    BY <2>1 DEF RemovalChoices
  <2> QED
    BY <2>1, <2>2 DEF Listed, Ready, NodesIn
<1>4. ASSUME NEW n \in Node, Cordon(n) PROVE TierInv'
  <2>1. /\ UNCHANGED <<node, todo, untried>> /\ current' = n
        /\ n \in SpotNodes \/ todo \cap SpotNodes = {}
    BY <1>4 DEF Cordon, NextToDrain
  <2> QED
    BY <1>l, <2>1, NodesAssumption DEF Listed, Ready, NodesIn
<1>5. ASSUME NEW n \in Node, CordonFails(n) PROVE TierInv'
  BY <1>5, <1>b DEF CordonFails, NextToDrain, clusterVars
<1>6. CASE Evict \/ Poll \/ Tick
  BY <1>6, <1>l DEF Evict, Poll, Tick, clusterVars, Listed, Ready, NodesIn
<1>7. CASE DrainTimesOut \/ RemoveNodeFails \/ DrainListFails
  BY <1>7, <1>b DEF DrainTimesOut, RemoveNodeFails, DrainListFails, NextNode, clusterVars
<1>8. CASE RemoveNode
  <2>1. /\ todo' = todo \ {current} /\ untried' = untried \ {current} /\ phase' = "next"
        /\ \A n \in Node \ {current} : node'[n] = node[n]
    BY <1>8 DEF RemoveNode, NextNode, TypeOK
  <2> QED
    BY <1>l, <2>1 DEF Listed, Ready, NodesIn
<1>9. ASSUME NEW n \in Node, Join(n) \/ OrderGivenUp(n) PROVE TierInv'
  <2>1. /\ UNCHANGED <<phase, todo, current, untried>> /\ node[n] = "requested"
        /\ \A x \in Node \ {n} : node'[x] = node[x]
    BY <1>9 DEF Join, OrderGivenUp, runVars, TypeOK
  <2> QED
    BY <1>a, <1>l, <2>1
<1>10. ASSUME NEW n \in Node, Leave(n) \/ Lose(n) PROVE TierInv'
  <2>1. /\ UNCHANGED <<phase, todo, current>> /\ untried' = untried \ {n}
        /\ \A x \in Node \ {n} : node'[x] = node[x]
    BY <1>10 DEF Leave, Lose, Vanish, TypeOK
  <2> QED
    BY <1>a, <1>l, <2>1
<1>11. CASE UNCHANGED <<node, phase, todo, current, untried>>
  BY <1>11, <1>l DEF Listed, Ready, NodesIn
<1>12. (\E p \in Pod : Submit(p) \/ Bind(p) \/ Start(p) \/ Exit(p))
         \/ (\E p \in Pod, n \in Node : Schedule(p, n)) \/ UNCHANGED vars
       => UNCHANGED <<node, phase, todo, current, untried>>
  BY DEF Submit, Bind, Start, Exit, Schedule, vars, clusterVars, runVars
<1> QED
  BY <1>1, <1>2, <1>3, <1>4, <1>5, <1>6, <1>7, <1>8, <1>9, <1>10, <1>11, <1>12
  DEF Next, Reconcile, ScaleDownProgress, Environment

-----------------------------------------------------------------------------
(* The theorems.                                                           *)

LEMMA InvInit ==
  Init => HostInv /\ DrainInv /\ OrdersInv /\ MaxNodesBound /\ FloorInv /\ TierInv
<1> SUFFICES ASSUME Init
             PROVE  HostInv /\ DrainInv /\ OrdersInv /\ MaxNodesBound /\ FloorInv /\ TierInv
  OBVIOUS
<1>1. HostInv
  BY DEF Init, HostInv
<1>2. DrainInv
  BY DEF Init, DrainInv, DrainPhases
<1>3. PICK R \in SUBSET Node :
        /\ Cardinality(R) \in MinNodes..MaxNodes
        /\ node = [n \in Node |-> IF n \in R THEN "ready" ELSE "absent"]
  BY DEF Init
<1>4. Ready = R /\ Provisioned = R /\ Requested = {} /\ Leaving = {}
  BY <1>3 DEF Ready, Provisioned, Requested, Leaving, NodesIn
<1>5. /\ phase = "idle" /\ todo = {} /\ restarts = 0 /\ lostReplies = 0 /\ lost = 0
      /\ sinceUp = ScaleUpCooldown
  BY DEF Init
<1>6. Uncovered = {}
  BY <1>4 DEF Uncovered
<1>7. Faults = 0
  BY <1>5 DEF Faults
<1>8. OrdersInv
  BY <1>4, <1>5, <1>6, <1>7, FS_EmptySet DEF OrdersInv
<1>9. MaxNodesBound
  BY <1>3, <1>4, <1>7, LimitsAssumption DEF MaxNodesBound
<1>10. Ready \ todo = R
  BY <1>4, <1>5
<1>11. FloorInv
  BY <1>3, <1>4, <1>5, <1>10, LimitsAssumption DEF FloorInv
<1>12. TierInv
  BY DEF Init, TierInv, DrainPhases
<1> QED
  BY <1>1, <1>2, <1>8, <1>9, <1>11, <1>12

\* What every reachable state satisfies; the limits follow from it.
Inv ==
  TypeOK /\ HostInv /\ DrainInv /\ OrdersInv /\ MaxNodesBound /\ FloorInv /\ TierInv

LEMMA InvNext == Inv /\ [Next]_vars => Inv'
BY TypeNext, HostNext, DrainNext, OrdersNext, FloorNext, TierNext DEF Inv

THEOREM Invariance == Spec => []Inv
<1>1. Init => Inv
  BY TypeInit, InvInit DEF Inv
<1> QED
  BY <1>1, InvNext, PTL DEF Spec

\* The upper limit: "maxNodes" holds for all machines paid for, whatever the
\* order of joins, failures and runs of Reconcile, if JoinDelay < ScaleUpCooldown;
\* each restart and each lost reply costs at most one machine beyond it.
THEOREM UpperLimit == Spec => []MaxNodesBound
BY Invariance, PTL DEF Inv

\* The lower limit: a process that is not restarted leaves "minNodes" machines,
\* those lost to the outside aside, if LeaveDelay < ScaleDownCooldown.
THEOREM LowerLimit == Spec => []MinNodesKept
<1>1. Inv => MinNodesKept
  <2> SUFFICES ASSUME Inv, restarts = 0 PROVE Cardinality(Ready) + lost >= MinNodes
    BY DEF MinNodesKept
  <2>1. /\ Cardinality(Ready \ todo) + lost >= MinNodes
        /\ lost \in Nat /\ MinNodes \in Nat
    BY ScopeAssumption, LimitsAssumption DEF Inv, FloorInv, TypeOK
  <2>2. Ready \ todo \subseteq Ready /\ Ready \subseteq Node
    BY DEF Ready, NodesIn
  <2>3. /\ Cardinality(Ready) \in Nat /\ Cardinality(Ready \ todo) \in Nat
        /\ Cardinality(Ready \ todo) <= Cardinality(Ready)
    BY <2>2, NodesFinite, CardinalityMonotone
  <2> QED
    BY <2>1, <2>3
<1> QED
  BY <1>1, Invariance, PTL

\* Only scaleDown terminates a node, the one it has drained.
LEMMA RetiredByScaleDown ==
  ASSUME TypeOK, Next, NEW n \in Node, node[n] = "ready", node'[n] = "leaving"
  PROVE  n = current /\ phase = "drained"
<1>1. CASE RemoveNode
  BY <1>1 DEF RemoveNode, TypeOK
<1>2. CASE \E x \in Node : ScaleUpSucceeds(x) \/ ScaleUpReplyLost(x)
  BY <1>2 DEF ScaleUpSucceeds, ScaleUpReplyLost, Ordered, TypeOK
<1>3. CASE \E x \in Node : Join(x) \/ OrderGivenUp(x) \/ Leave(x) \/ Lose(x)
  BY <1>3 DEF Join, OrderGivenUp, Leave, Lose, Vanish, TypeOK
<1>4. CASE node' = node
  BY <1>4
<1>5. Analyze \/ ScaleUpFails \/ SelectNodesToRemove \/ SelectNodesFails \/ Evict \/ Poll
        \/ (\E x \in Node : Cordon(x) \/ CordonFails(x)) \/ DrainTimesOut \/ RemoveNodeFails
        \/ ScaleDownReturns \/ DrainListFails \/ Restart \/ Tick
        \/ (\E p \in Pod : Submit(p) \/ Bind(p) \/ Start(p) \/ Exit(p))
        \/ (\E p \in Pod, x \in Node : Schedule(p, x)) => node' = node
  BY DEF Analyze, ScaleUpFails, SelectNodesToRemove, SelectNodesFails, Evict, Poll, Cordon,
         CordonFails, DrainTimesOut, RemoveNodeFails, ScaleDownReturns, DrainListFails,
         Restart, Tick, Submit, Bind, Start, Exit, Schedule, clusterVars
<1> QED
  BY <1>1, <1>2, <1>3, <1>4, <1>5
  DEF Next, Reconcile, ScaleUpStep, ScaleDownProgress, Environment

\* drainNode: no node is terminated with a pod bound to it.
THEOREM GracefulRemoval == Spec => RemovalIsGraceful
<1> DEFINE A == \A n \in Node : node[n] = "ready" /\ node'[n] = "leaving" => BoundPods(n) = {}
<1>1. Inv /\ [Next]_vars => [A]_vars
  <2> SUFFICES ASSUME Inv, Next, NEW n \in Node, node[n] = "ready", node'[n] = "leaving"
               PROVE  BoundPods(n) = {}
    OBVIOUS
  <2>1. n = current /\ phase = "drained"
    BY RetiredByScaleDown DEF Inv
  <2> QED
    BY <2>1 DEF Inv, DrainInv, BoundPods
<1>2. Spec => [][A]_vars
  BY <1>1, Invariance, PTL DEF Spec
<1> QED
  BY <1>2 DEF RemovalIsGraceful

\* scaleDown terminates an on-demand machine only when each spot machine it had
\* listed was terminated before, is lost, or was tried in vain, for any number
\* of machines and whatever joined, failed or was drained since.
THEOREM SpotBeforeOnDemand == Spec => SpotGoesFirst
<1> DEFINE A == (\E n \in OnDemandNodes : node[n] = "ready" /\ node'[n] = "leaving")
                  => untried \cap SpotNodes \cap Ready = {}
<1>1. Inv /\ [Next]_vars => [A]_vars
  <2> SUFFICES ASSUME Inv, Next, NEW n \in OnDemandNodes,
                      node[n] = "ready", node'[n] = "leaving"
               PROVE  untried \cap SpotNodes \cap Ready = {}
    OBVIOUS
  <2>1. n = current /\ phase = "drained"
    BY RetiredByScaleDown DEF Inv, Node
  <2>2. current \in todo /\ todo \cap SpotNodes = {}
    BY <2>1 DEF Inv, DrainInv, TierInv, DrainPhases
  <2> QED
    BY <2>1, <2>2 DEF Inv, TierInv
<1>2. Spec => [][A]_vars
  BY <1>1, Invariance, PTL DEF Spec
<1> QED
  BY <1>2 DEF SpotGoesFirst
=============================================================================
