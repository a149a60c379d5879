-------------------------- MODULE LifecycleProofs ---------------------------
(***************************************************************************)
(* The controller in its cluster implements NodeLifecycle, for every set   *)
(* of machines and pods, every limit, cooldown and number of faults.       *)
(***************************************************************************)
EXTENDS AutoscalerProofs

\* A machine that a pod is assumed or bound to is ready: the scheduler takes
\* ready machines only, a drained one has no pod left when it is terminated,
\* and one that goes takes its pods with it.
HostReady == \A p \in Pod : host[p] # NoNode => node[host[p]] = "ready"

LEMMA HostReadyNext ==
  TypeOK /\ HostInv /\ DrainInv /\ HostReady /\ [Next]_vars => HostReady'
<1> SUFFICES ASSUME TypeOK, HostInv, DrainInv, HostReady, [Next]_vars PROVE HostReady'
  OBVIOUS
<1> USE NodesAssumption DEF TypeOK, HostReady
<1>1. CASE UNCHANGED <<node, host>>
  BY <1>1
<1>2. CASE \E n \in Node : ScaleUpSucceeds(n) \/ ScaleUpReplyLost(n)
  BY <1>2 DEF ScaleUpSucceeds, ScaleUpReplyLost, Ordered
<1>3. CASE RemoveNode
  BY <1>3 DEF RemoveNode, DrainInv
<1>4. CASE \E n \in Node : Join(n) \/ OrderGivenUp(n)
  BY <1>4 DEF Join, OrderGivenUp
<1>5. CASE \E n \in Node : Leave(n) \/ Lose(n)
  BY <1>5 DEF Leave, Lose, Vanish
<1>6. CASE \E p \in Pod : Submit(p) \/ Bind(p) \/ Start(p) \/ Exit(p)
  BY <1>6 DEF Submit, Bind, Start, Exit
<1>7. CASE \E p \in Pod, n \in Node : Schedule(p, n)
  BY <1>7 DEF Schedule
<1>8. Analyze \/ ScaleUpFails \/ SelectNodesToRemove \/ SelectNodesFails \/ Evict \/ Poll
        \/ (\E n \in Node : Cordon(n) \/ CordonFails(n)) \/ DrainTimesOut \/ RemoveNodeFails
        \/ ScaleDownReturns \/ DrainListFails \/ Restart \/ Tick \/ UNCHANGED vars =>
        UNCHANGED <<node, host>>
  BY DEF Analyze, ScaleUpFails, SelectNodesToRemove, SelectNodesFails, Evict, Poll, Cordon,
         CordonFails, DrainTimesOut, RemoveNodeFails, ScaleDownReturns, DrainListFails,
         Restart, Tick, clusterVars, vars
<1> QED
  BY <1>1, <1>2, <1>3, <1>4, <1>5, <1>6, <1>7, <1>8
  DEF Next, Reconcile, ScaleUpStep, ScaleDownProgress, Environment

-----------------------------------------------------------------------------
(* Each kind of step maps to one of the abstract actions.                  *)

\* The abstract state is that of the machines and of the bound pods only.
SameLifecycle == UNCHANGED <<node, BoundTo, restarts, lostReplies, lost>>

\* The instance brings its own FiniteSets.
LEMMA SameCardinality == \A S : Lifecycle!Cardinality(S) = Cardinality(S)
BY DEF Lifecycle!Cardinality, Cardinality

LEMMA InitImplements == Init => Lifecycle!Init
<1> SUFFICES ASSUME Init PROVE Lifecycle!Init
  OBVIOUS
<1>1. BoundTo = [p \in Pod |-> NoNode]
  BY DEF Init, BoundTo
<1> QED
  BY <1>1, SameCardinality DEF Init, Lifecycle!Init

\* A step that changes neither the machines nor which pods are bound.
LEMMA Unbound ==
  ASSUME UNCHANGED <<node, host, restarts, lostReplies, lost>>,
         \A p \in Pod : pod'[p] \in {"starting", "running", "terminating"}
                          <=> pod[p] \in {"starting", "running", "terminating"}
  PROVE  SameLifecycle
BY DEF SameLifecycle, BoundTo

LEMMA OrderImplements ==
  ASSUME Inv, NEW n \in Node, ScaleUpSucceeds(n) \/ ScaleUpReplyLost(n)
  PROVE  Lifecycle!Order(n)
<1>1. /\ phase = "scaleUp" /\ decision.pool # NoPool /\ node[n] = "absent"
      /\ node' = [node EXCEPT ![n] = "requested"]
      /\ UNCHANGED <<pod, host, restarts, lost>>
      /\ lostReplies' \in {lostReplies, lostReplies + 1}
  BY DEF ScaleUpSucceeds, ScaleUpReplyLost, Ordered, faultVars
<1>2. BoundTo' = BoundTo
  BY <1>1 DEF BoundTo
<1>3. Lifecycle!Machines = Provisioned
  BY DEF Inv, TypeOK, Lifecycle!Machines, Provisioned, NodesIn
<1>4. Cardinality(Provisioned) < MaxNodes + Faults
  BY <1>1 DEF Inv, OrdersInv
<1>5. MaxNodes + Faults = MaxNodes + restarts + lostReplies
  BY LimitsAssumption, ScopeAssumption DEF Inv, TypeOK, Faults
<1> QED
  BY <1>1, <1>2, <1>3, <1>4, <1>5, SameCardinality DEF Lifecycle!Order, Lifecycle!Move

LEMMA RetireImplements ==
  ASSUME Inv, RemoveNode
  PROVE  \E n \in Node : Lifecycle!Retire(n)
<1>1. /\ phase = "drained" /\ node[current] = "ready"
      /\ node' = [node EXCEPT ![current] = "leaving"]
      /\ UNCHANGED <<pod, host, restarts, lostReplies, lost>>
  BY DEF RemoveNode, faultVars
<1>2. /\ current \in todo /\ current \in Node
      /\ \A p \in Pod : host[p] # current
  BY <1>1 DEF Inv, TypeOK, DrainInv, DrainPhases
<1>3. Lifecycle!Empty(current)
  BY <1>2, NodesAssumption DEF Lifecycle!Empty, BoundTo
<1>4. restarts = 0 => Cardinality(Lifecycle!Ready \ {current}) + lost >= MinNodes
  <2>1. Lifecycle!Ready = Ready
    BY DEF Lifecycle!Ready, Ready, NodesIn
  <2>2. /\ Ready \ todo \subseteq Ready \ {current}
        /\ Ready \ {current} \subseteq Node /\ Ready \ todo \subseteq Node
    BY <1>2 DEF Ready, NodesIn
  <2>3. /\ Cardinality(Ready \ todo) \in Nat /\ Cardinality(Ready \ {current}) \in Nat
        /\ Cardinality(Ready \ todo) <= Cardinality(Ready \ {current})
    BY <2>2, NodesFinite, CardinalityMonotone
  <2>4. /\ restarts = 0 => Cardinality(Ready \ todo) + lost >= MinNodes
        /\ lost \in Nat /\ MinNodes \in Nat
    BY ScopeAssumption, LimitsAssumption DEF Inv, FloorInv, TypeOK
  <2> QED
    BY <2>1, <2>3, <2>4
<1>5. BoundTo' = BoundTo
  BY <1>1 DEF BoundTo
<1> QED
  BY <1>1, <1>2, <1>3, <1>4, <1>5, SameCardinality DEF Lifecycle!Retire, Lifecycle!Move

LEMMA VanishImplements ==
  ASSUME Inv, HostReady, NEW n \in Node, Leave(n) \/ Lose(n)
  PROVE  Lifecycle!Gone(n) \/ Lifecycle!Lose(n)
<1>1. /\ node' = [node EXCEPT ![n] = "absent"]
      /\ pod' = [p \in Pod |-> IF host[p] = n THEN "absent" ELSE pod[p]]
      /\ host' = [p \in Pod |-> IF host[p] = n THEN NoNode ELSE host[p]]
      /\ UNCHANGED <<restarts, lostReplies>>
  BY DEF Leave, Lose, Vanish
<1>2. BoundTo' = [p \in Pod |-> IF BoundTo[p] = n THEN NoNode ELSE BoundTo[p]]
  BY <1>1, NodesAssumption DEF BoundTo
<1>3. CASE Leave(n)
  <2>1. node[n] = "leaving" /\ lost' = lost
    BY <1>3 DEF Leave
  <2>2. \A p \in Pod : host[p] # n
    BY <2>1, NodesAssumption DEF HostReady
  <2>3. Lifecycle!Empty(n)
    BY <2>2, NodesAssumption DEF Lifecycle!Empty, BoundTo
  <2>4. BoundTo' = BoundTo
    BY <1>1, <2>2 DEF BoundTo
  <2> QED
    BY <1>1, <2>1, <2>3, <2>4 DEF Lifecycle!Gone, Lifecycle!Move
<1>4. CASE Lose(n)
  BY <1>1, <1>2, <1>4 DEF Lose, Lifecycle!Lose, Lifecycle!Move
<1> QED
  BY <1>3, <1>4

LEMMA PodImplements ==
  ASSUME Inv, HostReady, NEW p \in Pod, Submit(p) \/ Bind(p) \/ Start(p) \/ Exit(p)
  PROVE  SameLifecycle \/ Lifecycle!Release(p) \/ \E n \in Node : Lifecycle!Place(p, n)
<1> USE DEF Inv, TypeOK
<1>1. CASE Submit(p) \/ Start(p)
  BY <1>1, Unbound DEF Submit, Start, faultVars
<1>2. CASE Bind(p)
  <2>1. /\ pod[p] = "assumed" /\ pod' = [pod EXCEPT ![p] = "starting"]
        /\ UNCHANGED <<node, host, restarts, lostReplies, lost>>
    BY <1>2 DEF Bind, faultVars
  <2>2. host[p] \in Node /\ node[host[p]] = "ready"
    BY <2>1 DEF HostInv, HostReady
  <2>3. BoundTo[p] = NoNode /\ BoundTo' = [BoundTo EXCEPT ![p] = host[p]]
    BY <2>1 DEF BoundTo
  <2> QED
    BY <2>1, <2>2, <2>3 DEF Lifecycle!Place
<1>3. CASE Exit(p)
  <2>1. /\ pod[p] \in {"running", "terminating"} /\ pod' = [pod EXCEPT ![p] = "absent"]
        /\ host' = [host EXCEPT ![p] = NoNode]
        /\ UNCHANGED <<node, restarts, lostReplies, lost>>
    BY <1>3 DEF Exit, faultVars
  <2>2. BoundTo[p] # NoNode
    BY <2>1 DEF BoundTo, HostInv
  <2>3. BoundTo' = [BoundTo EXCEPT ![p] = NoNode]
    BY <2>1 DEF BoundTo
  <2> QED
    BY <2>1, <2>2, <2>3 DEF Lifecycle!Release
<1> QED
  BY <1>1, <1>2, <1>3

LEMMA NextImplements ==
  Inv /\ HostReady /\ [Next]_vars => [Lifecycle!Next]_(Lifecycle!vars)
<1> SUFFICES ASSUME Inv, HostReady, [Next]_vars PROVE Lifecycle!Next \/ SameLifecycle
  BY DEF SameLifecycle, Lifecycle!vars
<1>1. CASE \E n \in Node : ScaleUpSucceeds(n) \/ ScaleUpReplyLost(n)
  BY <1>1, OrderImplements DEF Lifecycle!Next
<1>2. CASE RemoveNode
  BY <1>2, RetireImplements DEF Lifecycle!Next
<1>3. CASE \E n \in Node : Join(n) \/ OrderGivenUp(n)
  <2>1. PICK n \in Node : Join(n) \/ OrderGivenUp(n)
    BY <1>3
  <2>2. BoundTo' = BoundTo /\ UNCHANGED <<restarts, lostReplies, lost>>
    BY <2>1 DEF Join, OrderGivenUp, BoundTo, faultVars
  <2>3. Lifecycle!Join(n) \/ Lifecycle!Abandon(n)
    BY <2>1, <2>2 DEF Join, OrderGivenUp, Lifecycle!Join, Lifecycle!Abandon, Lifecycle!Move
  <2> QED
    BY <2>3 DEF Lifecycle!Next
<1>4. CASE \E n \in Node : Leave(n) \/ Lose(n)
  BY <1>4, VanishImplements DEF Lifecycle!Next
<1>5. CASE \E p \in Pod : Submit(p) \/ Bind(p) \/ Start(p) \/ Exit(p)
  BY <1>5, PodImplements DEF Lifecycle!Next
<1>6. CASE \E p \in Pod, n \in Node : Schedule(p, n)
  BY <1>6, NodesAssumption
  DEF Schedule, SameLifecycle, BoundTo, faultVars, Inv, TypeOK
<1>7. CASE Evict
  BY <1>7, Unbound DEF Evict, BoundPods, faultVars
<1>8. CASE Restart
  <2>1. BoundTo' = BoundTo
    BY <1>8 DEF Restart, clusterVars, BoundTo
  <2> QED
    BY <1>8, <2>1 DEF Restart, clusterVars, Lifecycle!Next, Lifecycle!Forget
<1>9. Analyze \/ ScaleUpFails \/ SelectNodesToRemove \/ SelectNodesFails \/ Poll
        \/ (\E n \in Node : Cordon(n) \/ CordonFails(n)) \/ DrainTimesOut \/ RemoveNodeFails
        \/ ScaleDownReturns \/ DrainListFails \/ Tick \/ UNCHANGED vars =>
        UNCHANGED <<node, pod, host, restarts, lostReplies, lost>>
  BY DEF Analyze, ScaleUpFails, SelectNodesToRemove, SelectNodesFails, Poll, Cordon,
         CordonFails, DrainTimesOut, RemoveNodeFails, ScaleDownReturns, DrainListFails,
         Tick, clusterVars, faultVars, vars
<1>10. UNCHANGED <<node, pod, host, restarts, lostReplies, lost>> => SameLifecycle
  BY DEF SameLifecycle, BoundTo
<1> QED
  BY <1>1, <1>2, <1>3, <1>4, <1>5, <1>6, <1>7, <1>8, <1>9, <1>10
  DEF Next, Reconcile, ScaleUpStep, ScaleDownProgress, Environment

-----------------------------------------------------------------------------

\* The controller (Reconcile, scaleUp, scaleDown, drainNode) in its cluster
\* keeps every promise of NodeLifecycle: orders within the limit, machines
\* retired empty and above the floor, no pod on a machine once retired.
THEOREM Implements == Spec => ImplementsLifecycle
<1>1. Init => HostReady
  BY DEF Init, HostReady
<1>2. Inv /\ HostReady /\ [Next]_vars => HostReady'
  BY HostReadyNext DEF Inv
<1>3. Spec => [](Inv /\ HostReady)
  BY <1>1, <1>2, Invariance, PTL DEF Spec
<1>4. Spec => Lifecycle!Init /\ [][Lifecycle!Next]_(Lifecycle!vars)
  BY <1>3, InitImplements, NextImplements, PTL DEF Spec
<1> QED
  BY <1>4 DEF ImplementsLifecycle, Lifecycle!Spec
=============================================================================
