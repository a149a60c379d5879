----------------------------- MODULE Autoscaler -----------------------------
(***************************************************************************)
(* The autoscaling engine, pkg/autoscaler/controller.go, in its cluster.   *)
(*                                                                         *)
(* One worker runs Reconcile: analyze the cluster, then scale up by one    *)
(* node or scale down by draining the selected nodes one after the other.  *)
(* A drain takes minutes, so nodes join, pods bind and machines fail       *)
(* between any two of its steps.  Around the controller stand the cloud    *)
(* provider (orders and terminations take time, may fail, and their        *)
(* replies may be lost), the kube-scheduler (its choice of a node and the  *)
(* binding are two steps) and the kubelets (a deleted pod may linger).     *)
(*                                                                         *)
(* Time is counted in ticks.  A time.Since(t) that the code only compares  *)
(* with a constant is a counter of ticks that stops at that constant; the  *)
(* zero time.Time of a new process is a counter already at its end.        *)
(***************************************************************************)
EXTENDS ScalingRules

CONSTANTS
  SpotNodes, OnDemandNodes, ReservedNodes,  \* all machines there can be, by type
  Pod,                                      \* the GPU pods
  NoNode,
  ScaleUpCooldown, ScaleDownCooldown, PendingPodTimeout,  \* AutoscalerConfig
  DrainTimeout,            \* drainNode's five minutes
  JoinDelay, LeaveDelay,   \* ticks within which an ordered machine joins or is
                           \* given up, and a terminated one leaves the API
  EnablePredictiveScaling,
  MaxRecommended,          \* bound on PredictFutureLoad's RecommendedNodes
  MaxRestarts, MaxLostReplies, MaxLost  \* bounds on how often a fault strikes

Node == SpotNodes \cup OnDemandNodes \cup ReservedNodes

ASSUME NodesAssumption ==
  /\ IsFiniteSet(Node) /\ IsFiniteSet(Pod)
  /\ NoNode \notin Node
  /\ SpotNodes \cap OnDemandNodes = {}

ASSUME TimingAssumption ==
  /\ {ScaleUpCooldown, ScaleDownCooldown, PendingPodTimeout, DrainTimeout} \subseteq Nat
  /\ DrainTimeout > 0
  /\ JoinDelay \in Nat /\ JoinDelay < ScaleUpCooldown
  /\ LeaveDelay \in Nat /\ LeaveDelay < ScaleDownCooldown

ASSUME ScopeAssumption ==
  /\ EnablePredictiveScaling \in BOOLEAN
  /\ {MaxRecommended, MaxRestarts, MaxLostReplies, MaxLost} \subseteq Nat

VARIABLES
  (* the cluster *)
  node,       \* "absent", "requested" (ordered), "ready", "leaving" (terminated,
              \* its Node object still listed)
  age,        \* ticks since the node was ordered or terminated
  cordoned,   \* nodes with Spec.Unschedulable
  pod,        \* "absent", "pending", "assumed" (scheduled, not bound),
              \* "starting" (bound), "running", "terminating" (deleted, still bound)
  host,       \* the node a pod is assumed or bound to
  waited,     \* ticks since a pod was created, while it is not running
  (* the controller's fields *)
  sinceUp,    \* time.Since(lastScaleUpTime)
  sinceDown,  \* time.Since(lastScaleDownTime)
  (* the locals of the running Reconcile *)
  phase,      \* what it does next
  decision,   \* its ScalingDecision
  todo,       \* scaleDown: nodes still to drain and remove
  current,    \* scaleDown: the node being drained
  drainAge,   \* drainNode: ticks since its pods were deleted
  (* observation only *)
  untried,    \* scaleDown: nodes it listed that it has neither handed over nor
              \* given up since, and that are still there
  restarts, lostReplies, lost  \* how many faults have struck

clusterVars == <<node, age, cordoned, pod, host, waited>>
controllerVars == <<sinceUp, sinceDown>>
runVars == <<phase, decision, todo, current, drainAge, untried>>
faultVars == <<restarts, lostReplies, lost>>
vars == <<clusterVars, controllerVars, runVars, faultVars>>

Phases == {"idle", "scaleUp", "scaleDown", "next", "evict", "wait", "drained"}
Actions == {"scale-up", "scale-down", "no-action"}
Decisions == [action : Actions, desired : Nat, pool : PoolNames]

TypeOK ==
  /\ node \in [Node -> {"absent", "requested", "ready", "leaving"}]
  /\ age \in [Node -> 0..Larger(JoinDelay, LeaveDelay)]
  /\ cordoned \subseteq Node
  /\ pod \in [Pod -> {"absent", "pending", "assumed", "starting", "running", "terminating"}]
  /\ host \in [Pod -> Node \cup {NoNode}]
  /\ waited \in [Pod -> 0..PendingPodTimeout + 1]
  /\ sinceUp \in 0..ScaleUpCooldown
  /\ sinceDown \in 0..ScaleDownCooldown
  /\ phase \in Phases
  /\ decision \in Decisions
  /\ todo \subseteq Node
  /\ current \in Node \cup {NoNode}
  /\ drainAge \in 0..DrainTimeout
  /\ untried \subseteq Node
  /\ restarts \in 0..MaxRestarts
  /\ lostReplies \in 0..MaxLostReplies
  /\ lost \in 0..MaxLost

NodesIn(states) == {n \in Node : node[n] \in states}
Ready == NodesIn({"ready"})
Requested == NodesIn({"requested"})
Leaving == NodesIn({"leaving"})
Provisioned == NodesIn({"requested", "ready", "leaving"})

\* getGPUNodes: every Node object, cordoned and leaving ones included.
Listed == NodesIn({"ready", "leaving"})

\* getPendingGPUPods: the phase of a pod is Pending until its containers run.
Pending == {p \in Pod : pod[p] \in {"pending", "assumed", "starting"}}

BoundPods(n) == {p \in Pod : host[p] = n /\ pod[p] \in {"starting", "running", "terminating"}}

NoDecision == [action |-> "no-action", desired |-> 0, pool |-> NoPool]

\* A cluster at its minimum size or above, a controller process just started.
Init ==
  /\ \E R \in SUBSET Node :
       /\ Cardinality(R) \in MinNodes..MaxNodes
       /\ node = [n \in Node |-> IF n \in R THEN "ready" ELSE "absent"]
  /\ age = [n \in Node |-> 0]
  /\ cordoned = {}
  /\ pod = [p \in Pod |-> "absent"]
  /\ host = [p \in Pod |-> NoNode]
  /\ waited = [p \in Pod |-> 0]
  /\ sinceUp = ScaleUpCooldown
  /\ sinceDown = ScaleDownCooldown
  /\ phase = "idle"
  /\ decision = NoDecision
  /\ todo = {}
  /\ current = NoNode
  /\ drainAge = 0
  /\ untried = {}
  /\ restarts = 0
  /\ lostReplies = 0
  /\ lost = 0

-----------------------------------------------------------------------------
(* Analysis.                                                               *)

\* What the collector reports: the average utilization against the two
\* thresholds (a failed read counts as 0, hence "low") and the number of
\* listed nodes below the lower one (a node without metrics counts as one).
Metrics == [avg : {"low", "mid", "high"}, under : 0..Cardinality(Listed)]

\* Faulty forms: the cooldown is not consulted; pending pods are not consulted.
ShouldScaleUpNoCooldown(m) ==
  /\ Cardinality(Listed) < MaxNodes
  /\ \/ \E p \in Pending : waited[p] > PendingPodTimeout
     \/ m.avg = "high" /\ Listed # {}
ShouldScaleUpOnLoadOnly(m) ==
  /\ sinceUp >= ScaleUpCooldown
  /\ Cardinality(Listed) < MaxNodes
  /\ m.avg = "high" /\ Listed # {}
ShouldScaleUp(m) ==
  /\ sinceUp >= ScaleUpCooldown
  /\ Cardinality(Listed) < MaxNodes
  /\ \/ \E p \in Pending : waited[p] > PendingPodTimeout
     \/ m.avg = "high" /\ Listed # {}

\* Faulty form: the cooldown is not consulted.
ShouldScaleDownNoCooldown(m) ==
  /\ Cardinality(Listed) > MinNodes
  /\ m.under > 0 /\ m.avg = "low"
ShouldScaleDown(m) ==
  /\ sinceDown >= ScaleDownCooldown
  /\ Cardinality(Listed) > MinNodes
  /\ m.under > 0 /\ m.avg = "low"

\* The decision before prediction; "pool" matters to a scale-up only.
BaseDecision(m, pool) ==
  LET n == Cardinality(Listed) IN
  CASE ShouldScaleUp(m) ->
         [action |-> "scale-up", pool |-> pool,
          desired |-> ScaleUpTarget(n, Cardinality(Pending))]
    [] ~ShouldScaleUp(m) /\ ShouldScaleDown(m) ->
         [action |-> "scale-down", pool |-> NoPool,
          desired |-> ScaleDownTarget(n, m.under)]
    [] OTHER -> [action |-> "no-action", pool |-> NoPool, desired |-> n]

\* applyPredictiveScaling: 0 stands for ~ShouldPreWarm.  The override turns any
\* decision into a scale-up, and leaves its node pool as it was.
Recommendations == IF EnablePredictiveScaling THEN 0..MaxRecommended ELSE {0}
WithPrediction(d, recommended) ==
  IF recommended > d.desired
  THEN [d EXCEPT !.action = "scale-up", !.desired = recommended]
  ELSE d

\* analyzeClusterState.  A failed list, or "no-action", ends Reconcile with
\* nothing changed and is a stuttering step.
Analyze ==
  /\ phase = "idle"
  /\ \E m \in Metrics, recommended \in Recommendations,
        pool \in SelectPools(Cardinality(Listed \cap SpotNodes), Cardinality(Listed)) :
       LET d == WithPrediction(BaseDecision(m, pool), recommended) IN
       /\ d.action # "no-action"
       /\ decision' = d
       /\ phase' = IF d.action = "scale-up" THEN "scaleUp" ELSE "scaleDown"
  /\ UNCHANGED <<clusterVars, controllerVars, todo, current, drainAge, untried, faultVars>>

\* Reconcile returns: its locals are gone.
Return ==
  /\ phase' = "idle"
  /\ decision' = NoDecision
  /\ todo' = {}
  /\ current' = NoNode
  /\ drainAge' = 0
  /\ untried' = {}

-----------------------------------------------------------------------------
(* scaleUp.                                                                *)

\* No such pool, or the cloud provider refuses: the cooldown is not started.
ScaleUpFails ==
  /\ phase = "scaleUp"
  /\ Return
  /\ UNCHANGED <<clusterVars, controllerVars, faultVars>>

\* nodesToAdd is DesiredNodeCount - (DesiredNodeCount - 1): always one machine,
\* of the pool's capacity type.
Ordered(n) ==
  /\ phase = "scaleUp"
  /\ decision.pool # NoPool
  /\ node[n] = "absent"
  /\ \/ NodePools[decision.pool] = "spot" /\ n \in SpotNodes
     \/ NodePools[decision.pool] = "on-demand" /\ n \in OnDemandNodes
     \/ NodePools[decision.pool] = "reserved" /\ n \in ReservedNodes
  /\ node' = [node EXCEPT ![n] = "requested"]
  /\ age' = [age EXCEPT ![n] = 0]
  /\ Return
  /\ UNCHANGED <<cordoned, pod, host, waited>>

ScaleUpSucceeds(n) ==
  /\ Ordered(n)
  /\ sinceUp' = 0
  /\ UNCHANGED <<sinceDown, faultVars>>

\* The order went through, but the call returned an error (a timeout, say).
ScaleUpReplyLost(n) ==
  /\ lostReplies < MaxLostReplies
  /\ Ordered(n)
  /\ lostReplies' = lostReplies + 1
  /\ UNCHANGED <<controllerVars, restarts, lost>>

-----------------------------------------------------------------------------
(* scaleDown and drainNode.                                                *)

\* The nodes are listed afresh, the target is the one decided before.
SelectNodesToRemove ==
  /\ phase = "scaleDown"
  /\ \E R \in RemovalChoices(Listed \cap SpotNodes, Listed \cap OnDemandNodes,
                             Cardinality(Listed) - decision.desired) : todo' = R
  /\ phase' = "next"
  /\ untried' = Listed
  /\ UNCHANGED <<clusterVars, controllerVars, decision, current, drainAge, faultVars>>

\* The list fails: Reconcile returns the error, the cooldown is not started.
SelectNodesFails ==
  /\ phase = "scaleDown"
  /\ Return
  /\ UNCHANGED <<clusterVars, controllerVars, faultVars>>

\* The next of nodesToRemove: spot nodes come before on-demand ones.
\* Faulty form: in any order.
NextToDrainInAnyOrder(n) ==
  /\ phase = "next"
  /\ n \in todo
NextToDrain(n) ==
  /\ phase = "next"
  /\ n \in todo
  /\ n \in SpotNodes \/ todo \cap SpotNodes = {}

Cordon(n) ==
  /\ NextToDrain(n)
  /\ n \in Listed
  /\ cordoned' = cordoned \cup {n}
  /\ current' = n
  /\ phase' = "evict"
  /\ UNCHANGED <<node, age, pod, host, waited, controllerVars, decision, todo, drainAge,
                 untried, faultVars>>

\* The update is refused: the copy of the node is minutes old by now, or the
\* node is gone.  "continue" with the next one.
CordonFails(n) ==
  /\ NextToDrain(n)
  /\ todo' = todo \ {n}
  /\ untried' = untried \ {n}
  /\ UNCHANGED <<clusterVars, controllerVars, phase, decision, current, drainAge, faultVars>>

\* Delete every pod bound to the node.  A failed Delete is only logged.
Evict ==
  /\ phase = "evict"
  /\ \E deleted \in SUBSET BoundPods(current) :
       /\ pod' = [p \in Pod |-> IF p \in deleted THEN "terminating" ELSE pod[p]]
       /\ waited' = [p \in Pod |-> IF p \in deleted THEN 0 ELSE waited[p]]
  /\ phase' = "wait"
  /\ drainAge' = 0
  /\ UNCHANGED <<node, age, cordoned, host, controllerVars, decision, todo, current,
                 untried, faultVars>>

\* Every five seconds (a tick at the earliest) the pods are listed again.
\* Faulty form: the drain is over without looking.
PollNoCheck ==
  /\ phase = "wait"
  /\ phase' = "drained"
  /\ UNCHANGED <<clusterVars, controllerVars, decision, todo, current, drainAge, untried,
                 faultVars>>
\* Faulty form: it looks at once, when a binding may still be on its way.
PollAtOnce ==
  /\ phase = "wait"
  /\ BoundPods(current) = {}
  /\ phase' = "drained"
  /\ UNCHANGED <<clusterVars, controllerVars, decision, todo, current, drainAge, untried,
                 faultVars>>
Poll ==
  /\ phase = "wait"
  /\ drainAge > 0
  /\ BoundPods(current) = {}
  /\ phase' = "drained"
  /\ UNCHANGED <<clusterVars, controllerVars, decision, todo, current, drainAge, untried,
                 faultVars>>

\* Leave the node behind, cordoned, and go on with the next.
NextNode ==
  /\ todo' = todo \ {current}
  /\ current' = NoNode
  /\ drainAge' = 0
  /\ phase' = "next"
  /\ untried' = untried \ {current}
  /\ UNCHANGED decision

\* A list of pods fails, at once or at a poll.
DrainListFails ==
  /\ phase \in {"evict", "wait"}
  /\ phase = "wait" => drainAge > 0
  /\ NextNode
  /\ UNCHANGED <<clusterVars, controllerVars, faultVars>>

\* Faulty form: there is no time limit.
DrainTimesOutNever ==
  /\ phase = "none"
  /\ UNCHANGED vars
DrainTimesOut ==
  /\ phase = "wait"
  /\ drainAge = DrainTimeout
  /\ NextNode
  /\ UNCHANGED <<clusterVars, controllerVars, faultVars>>

\* CloudProvider.ScaleDown.  Its reply makes no difference to what follows.
RemoveNode ==
  /\ phase = "drained"
  /\ node[current] = "ready"
  /\ node' = [node EXCEPT ![current] = "leaving"]
  /\ age' = [age EXCEPT ![current] = 0]
  /\ NextNode
  /\ UNCHANGED <<cordoned, pod, host, waited, controllerVars, faultVars>>

\* Refused, or the machine is already gone: only logged.
RemoveNodeFails ==
  /\ phase = "drained"
  /\ NextNode
  /\ UNCHANGED <<clusterVars, controllerVars, faultVars>>

\* The cooldown starts when the last node is done, whatever became of each.
ScaleDownReturns ==
  /\ phase = "next"
  /\ todo = {}
  /\ sinceDown' = 0
  /\ Return
  /\ UNCHANGED <<clusterVars, sinceUp, faultVars>>

\* The process dies, between any two steps, and starts anew: all it remembers
\* is in memory, and a half-drained node stays cordoned.
Restart ==
  /\ restarts < MaxRestarts
  /\ restarts' = restarts + 1
  /\ sinceUp' = ScaleUpCooldown
  /\ sinceDown' = ScaleDownCooldown
  /\ Return
  /\ UNCHANGED <<clusterVars, lostReplies, lost>>

-----------------------------------------------------------------------------
(* The cluster around the controller (external).                           *)

Join(n) ==
  /\ node[n] = "requested"
  /\ node' = [node EXCEPT ![n] = "ready"]
  /\ age' = [age EXCEPT ![n] = 0]
  /\ UNCHANGED <<cordoned, pod, host, waited, controllerVars, runVars, faultVars>>

OrderGivenUp(n) ==
  /\ node[n] = "requested"
  /\ node' = [node EXCEPT ![n] = "absent"]
  /\ age' = [age EXCEPT ![n] = 0]
  /\ UNCHANGED <<cordoned, pod, host, waited, controllerVars, runVars, faultVars>>

\* The Node object goes, and the pods on it with it.
Vanish(n) ==
  /\ node' = [node EXCEPT ![n] = "absent"]
  /\ age' = [age EXCEPT ![n] = 0]
  /\ cordoned' = cordoned \ {n}
  /\ pod' = [p \in Pod |-> IF host[p] = n THEN "absent" ELSE pod[p]]
  /\ waited' = [p \in Pod |-> IF host[p] = n THEN 0 ELSE waited[p]]
  /\ host' = [p \in Pod |-> IF host[p] = n THEN NoNode ELSE host[p]]
  /\ untried' = untried \ {n}
  /\ UNCHANGED <<controllerVars, phase, decision, todo, current, drainAge, restarts, lostReplies>>

Leave(n) ==
  /\ node[n] = "leaving"
  /\ Vanish(n)
  /\ UNCHANGED lost

\* A spot interruption or a broken machine.
Lose(n) ==
  /\ node[n] = "ready"
  /\ lost < MaxLost
  /\ lost' = lost + 1
  /\ Vanish(n)

Submit(p) ==
  /\ pod[p] = "absent"
  /\ pod' = [pod EXCEPT ![p] = "pending"]
  /\ UNCHANGED <<node, age, cordoned, host, waited, controllerVars, runVars, faultVars>>

\* A node holds one of these pods at a time.
Schedule(p, n) ==
  /\ pod[p] = "pending"
  /\ node[n] = "ready"
  /\ n \notin cordoned
  /\ \A q \in Pod : host[q] # n
  /\ pod' = [pod EXCEPT ![p] = "assumed"]
  /\ host' = [host EXCEPT ![p] = n]
  /\ UNCHANGED <<node, age, cordoned, waited, controllerVars, runVars, faultVars>>

\* The API server does not look at Spec.Unschedulable again.
Bind(p) ==
  /\ pod[p] = "assumed"
  /\ pod' = [pod EXCEPT ![p] = "starting"]
  /\ UNCHANGED <<node, age, cordoned, host, waited, controllerVars, runVars, faultVars>>

Start(p) ==
  /\ pod[p] = "starting"
  /\ pod' = [pod EXCEPT ![p] = "running"]
  /\ waited' = [waited EXCEPT ![p] = 0]
  /\ UNCHANGED <<node, age, cordoned, host, controllerVars, runVars, faultVars>>

\* A job ends, or a deleted pod's containers have stopped.
Exit(p) ==
  /\ pod[p] \in {"running", "terminating"}
  /\ pod' = [pod EXCEPT ![p] = "absent"]
  /\ host' = [host EXCEPT ![p] = NoNode]
  /\ UNCHANGED <<node, age, cordoned, waited, controllerVars, runVars, faultVars>>

Elapsed(t, limit) == Smaller(t + 1, limit)

\* Orders and terminations keep their deadlines, and a binding takes less than
\* a tick.
Tick ==
  /\ \A n \in Requested : age[n] < JoinDelay
  /\ \A n \in Leaving : age[n] < LeaveDelay
  /\ \A p \in Pod : pod[p] # "assumed"
  /\ sinceUp' = Elapsed(sinceUp, ScaleUpCooldown)
  /\ sinceDown' = Elapsed(sinceDown, ScaleDownCooldown)
  /\ age' = [n \in Node |-> IF node[n] \in {"requested", "leaving"} THEN age[n] + 1 ELSE age[n]]
  /\ waited' = [p \in Pod |-> IF p \in Pending THEN Elapsed(waited[p], PendingPodTimeout + 1)
                              ELSE waited[p]]
  /\ drainAge' = IF phase = "wait" THEN Elapsed(drainAge, DrainTimeout) ELSE drainAge
  /\ UNCHANGED <<node, cordoned, pod, host, phase, decision, todo, current, untried, faultVars>>

-----------------------------------------------------------------------------

ScaleUpStep == \/ ScaleUpFails
               \/ \E n \in Node : ScaleUpSucceeds(n) \/ ScaleUpReplyLost(n)
ScaleDownProgress ==
  \/ SelectNodesToRemove \/ SelectNodesFails
  \/ \E n \in Node : Cordon(n) \/ CordonFails(n)
  \/ Evict \/ Poll \/ DrainTimesOut
  \/ RemoveNode \/ RemoveNodeFails \/ ScaleDownReturns
Reconcile == Analyze \/ ScaleUpStep \/ ScaleDownProgress \/ DrainListFails

Environment ==
  \/ \E n \in Node : Join(n) \/ OrderGivenUp(n) \/ Leave(n) \/ Lose(n)
  \/ \E p \in Pod : Submit(p) \/ Bind(p) \/ Start(p) \/ Exit(p)
  \/ \E p \in Pod, n \in Node : Schedule(p, n)
  \/ Tick

Next == Reconcile \/ Restart \/ Environment

Spec == Init /\ [][Next]_vars
-----------------------------------------------------------------------------
(* Safety.                                                                 *)

\* Each of these can make the controller forget an order.
Faults == restarts + lostReplies

\* The limit "maxNodes" holds for all machines that are paid for, although the
\* controller compares only the listed ones with it (shouldScaleUp) and knows
\* nothing of those on order: the cooldown outlasts an order.  It is lost when
\* the process restarts and not started when a reply is lost, and each such
\* fault can cost one machine beyond the limit.
MaxNodesBound == Cardinality(Provisioned) <= MaxNodes + Faults

\* A process that is not restarted takes no more nodes than "minNodes" allows
\* (shouldScaleDown, calculateScaleDownNodeCount, selectNodesToRemove), though
\* it counts terminated nodes that are still listed, decides on one list and
\* removes from a later one.  Nodes lost to the outside are not its doing.
MinNodesKept == restarts = 0 => Cardinality(Ready) + lost >= MinNodes

\* scaleDown hands a node to the cloud provider only when no pod is bound to it
\* (drainNode cordons, deletes, and polls until the node is empty), even when
\* the scheduler binds a pod it had chosen the node for before the cordon.
RemovalIsGraceful ==
  [][\A n \in Node : node[n] = "ready" /\ node'[n] = "leaving" => BoundPods(n) = {}]_vars

\* An on-demand machine is handed to the cloud provider only when no spot
\* machine is left that was listed when the nodes were chosen: each has been
\* handed over before it, was lost, or was tried and could not be drained or
\* removed (selectNodesToRemove and the order in which scaleDown works through
\* its choice), although minutes of drains, joins and losses lie in between.
SpotGoesFirst ==
  [][(\E n \in OnDemandNodes : node[n] = "ready" /\ node'[n] = "leaving")
       => untried \cap SpotNodes \cap Ready = {}]_vars

-----------------------------------------------------------------------------
(* Refinement.                                                             *)

\* A pod that is assumed is not bound yet, and may never be.
BoundTo == [p \in Pod |-> IF pod[p] \in {"starting", "running", "terminating"}
                         THEN host[p] ELSE NoNode]
Lifecycle == INSTANCE NodeLifecycle WITH stage <- node, on <- BoundTo

\* Whatever Reconcile has in mind, each of its steps is one that NodeLifecycle
\* allows a machine, or none: orders within the limit, machines retired empty
\* that take no pod afterwards although a binding may be on its way, and
\* nothing else done to a machine.
ImplementsLifecycle == Lifecycle!Spec

-----------------------------------------------------------------------------
(* Liveness.                                                               *)

\* Reconcile is run again and again and its calls return; ordered machines are
\* resolved, the cloud provider does not refuse orders forever nor let each of
\* them fail, and a pod that fits somewhere again and again is scheduled.
\* Nothing is assumed of the pods (a deleted one may linger forever), nor that
\* a list ever fails.
Fairness ==
  /\ SF_vars(Tick)
  /\ WF_vars(Analyze)
  /\ WF_vars(ScaleUpStep) /\ SF_vars(\E n \in Node : ScaleUpSucceeds(n))
  /\ WF_vars(ScaleDownProgress)
  /\ WF_vars(\E n \in Node : Join(n) \/ OrderGivenUp(n) \/ Leave(n))
  /\ SF_vars(\E n \in Node : Join(n))
  /\ \A p \in Pod : WF_vars(Bind(p)) /\ SF_vars(\E n \in Node : Schedule(p, n))

FairSpec == Spec /\ Fairness

\* Reconcile, the only worker, always comes back, even when a pod it has
\* deleted never goes (drainNode's timeout).
ReconcileReturns == phase # "idle" ~> phase = "idle"

\* A pending GPU pod is scheduled sooner or later, unless the cluster reaches
\* its maximum size; cordoned nodes count towards that size.
PendingIsServed ==
  \A p \in Pod :
    pod[p] = "pending" ~> (pod[p] # "pending" \/ Cardinality(Listed) >= MaxNodes)

=============================================================================
