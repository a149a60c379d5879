-------------------------- MODULE SpotOrchestrator --------------------------
(***************************************************************************)
(* The spot orchestrator, pkg/autoscaler/spot_orchestrator.go.             *)
(*                                                                         *)
(* A monitor goroutine wakes up every SpotCheckInterval, asks the cloud    *)
(* provider about each spot node, and on a termination notice records the  *)
(* node in the map terminationWarnings, annotates it, cordons it and       *)
(* starts a goroutine that evicts its pods in three batches with pauses in *)
(* between.  Monitor and eviction goroutines share the map without a lock. *)
(*                                                                         *)
(* A tick is one SpotCheckInterval (5 s).  Calls to the API server and the *)
(* cloud provider take less than that: what is due is done before time     *)
(* goes on, in any order.                                                  *)
(***************************************************************************)
EXTENDS Integers, FiniteSets

CONSTANTS
  SpotNodes, OtherNodes,   \* node names; only spot nodes get notices
  Pod,                     \* pod names; a name is used again (StatefulSets)
  Labels,                  \* what getPodEvictionPriority reads, for each pod
  NoNode,
  NoticePeriod,            \* ticks from a notice to the machine's end
  Pause,                   \* the sleep between two batches
  HighGrace,               \* grace period of the last batch
  NamesReused,             \* whether a new machine may take an old one's name
  FaultKinds, MaxFaults    \* the faults that may strike, and how often in all

Node == SpotNodes \cup OtherNodes

Priorities == {"low", "medium", "high"}

\* "none" stands for an absent annotation or label, "other" for any value the
\* code does not know.
PodLabels == [annotation : Priorities \cup {"none", "other"},
              workload : {"none", "training", "inference", "serving",
                          "development", "batch", "other"},
              important : BOOLEAN]

ASSUME SpotAssumption ==
  /\ IsFiniteSet(Node) /\ NoNode \notin Node
  /\ SpotNodes \cap OtherNodes = {}
  /\ Labels \in [Pod -> PodLabels]
  /\ {NoticePeriod, Pause, HighGrace} \subseteq Nat \ {0}
  /\ NamesReused \in BOOLEAN
  /\ FaultKinds \subseteq {"restart", "read", "update", "list", "delete"}
  /\ MaxFaults \in Nat

\* getPodEvictionPriority: the annotation, whatever its value; then the
\* workload type; then the pod's own priority.
EvictionPriority(l) ==
  CASE l.annotation # "none" -> l.annotation
    [] l.annotation = "none" /\ l.workload = "training" -> "high"
    [] l.annotation = "none" /\ l.workload \in {"inference", "serving"} -> "medium"
    [] l.annotation = "none" /\ l.workload \in {"development", "batch"} -> "low"
    [] OTHER -> IF l.important THEN "high" ELSE "medium"

\* The pods gracefullyEvictPods sorts into a batch; a pod with an unknown
\* annotation is in none.
Batch(pods, priority) == {p \in pods : EvictionPriority(Labels[p]) = priority}

VARIABLES
  (* the cluster *)
  alive,      \* names of the nodes there are
  notice,     \* nodes under a termination notice
  left,       \* ticks left to each of these
  cordoned,   \* nodes with Spec.Unschedulable
  pod,        \* as in Autoscaler: "absent", "pending", "assumed", "running",
              \* "terminating"
  host,       \* the node a pod is assumed or bound to
  dying,      \* ticks since a terminating pod was deleted
  (* the process *)
  warnings,   \* terminationWarnings
  monitor,    \* what the monitor does next: "sleep", "list", "check",
              \* "annotate", "cordon"
  todo,       \* nodes of its list still to be checked
  fresh,      \* listed nodes whose copy is that of the machine still there
  handled,    \* the node handleSpotTermination is at work on
  runs,       \* the running gracefullyEvictPods
  faults      \* observation only: how many faults have struck

clusterVars == <<alive, notice, left, cordoned>>
podVars == <<pod, host, dying>>
monitorVars == <<monitor, todo, fresh, handled>>
vars == <<clusterVars, podVars, warnings, monitorVars, runs, faults>>

\* A run holds the pods it listed at its start to its end; "pause" is what is
\* left of the sleep before its next step.
Runs == [node : SpotNodes, step : {"list", "low", "medium", "high", "cleanup"},
         pods : SUBSET Pod, pause : 0..Pause]

TypeOK ==
  /\ alive \subseteq Node
  /\ notice \subseteq SpotNodes \cap alive
  /\ left \in [Node -> 0..NoticePeriod]
  /\ cordoned \subseteq alive
  /\ pod \in [Pod -> {"absent", "pending", "assumed", "running", "terminating"}]
  /\ host \in [Pod -> alive \cup {NoNode}]
  /\ dying \in [Pod -> 0..HighGrace]
  /\ warnings \subseteq SpotNodes
  /\ monitor \in {"sleep", "list", "check", "annotate", "cordon"}
  /\ todo \subseteq SpotNodes
  /\ fresh \subseteq SpotNodes \cap alive
  /\ handled \in SpotNodes \cup {NoNode}
  /\ runs \subseteq Runs
  /\ faults \in 0..MaxFaults

\* A pod bound to a node; an assumed one is not yet in the API server's index.
BoundPods(n) == {p \in Pod : host[p] = n /\ pod[p] \in {"running", "terminating"}}

Init ==
  /\ alive = Node
  /\ notice = {}
  /\ left = [n \in Node |-> 0]
  /\ cordoned = {}
  /\ pod = [p \in Pod |-> "absent"]
  /\ host = [p \in Pod |-> NoNode]
  /\ dying = [p \in Pod |-> 0]
  /\ warnings = {}
  /\ monitor = "sleep"
  /\ todo = {}
  /\ fresh = {}
  /\ handled = NoNode
  /\ runs = {}
  /\ faults = 0

Strikes(kind) ==
  /\ kind \in FaultKinds
  /\ faults < MaxFaults
  /\ faults' = faults + 1

-----------------------------------------------------------------------------
(* The monitor.                                                            *)

\* checkSpotTerminations lists the spot nodes, or fails and waits for the next
\* tick.
ListSpotNodes ==
  /\ monitor = "list"
  /\ todo' = alive \cap SpotNodes
  /\ fresh' = todo'
  /\ monitor' = "check"
  /\ UNCHANGED <<clusterVars, podVars, warnings, handled, runs, faults>>

ListSpotNodesFails ==
  /\ monitor = "list"
  /\ Strikes("read")
  /\ monitor' = "sleep"
  /\ UNCHANGED <<clusterVars, podVars, warnings, fresh, todo, handled, runs>>

\* GetSpotTerminationNotice reports nothing (or the machine is gone), or the
\* node is in the map already.
Pass(n) ==
  /\ monitor = "check"
  /\ n \in todo
  /\ n \notin notice \/ n \in warnings
  /\ todo' = todo \ {n}
  /\ UNCHANGED <<clusterVars, podVars, warnings, fresh, monitor, handled, runs, faults>>

\* GetSpotTerminationNotice fails: "continue".
NoticeFails(n) ==
  /\ monitor = "check"
  /\ n \in todo
  /\ Strikes("read")
  /\ todo' = todo \ {n}
  /\ UNCHANGED <<clusterVars, podVars, warnings, fresh, monitor, handled, runs>>

\* handleSpotTermination, up to its first update.
\* Faulty form: the map is not consulted.
RecordWarningAlways(n) ==
  /\ monitor = "check"
  /\ n \in todo
  /\ n \in notice
  /\ warnings' = warnings \cup {n}
  /\ todo' = todo \ {n}
  /\ handled' = n
  /\ monitor' = "annotate"
  /\ UNCHANGED <<clusterVars, podVars, fresh, runs, faults>>
RecordWarning(n) ==
  /\ monitor = "check"
  /\ n \in todo
  /\ n \in notice
  /\ n \notin warnings
  /\ warnings' = warnings \cup {n}
  /\ todo' = todo \ {n}
  /\ handled' = n
  /\ monitor' = "annotate"
  /\ UNCHANGED <<clusterVars, podVars, fresh, runs, faults>>

Annotate ==
  /\ monitor = "annotate"
  /\ handled \in fresh
  /\ monitor' = "cordon"
  /\ UNCHANGED <<clusterVars, podVars, warnings, fresh, todo, handled, runs, faults>>

\* The second update cordons the node and "go gracefullyEvictPods" starts a run.
\* Faulty form: a stale copy is written all the same.
CordonStale ==
  /\ monitor = "cordon"
  /\ cordoned' = cordoned \cup {handled}
  /\ runs' = runs \cup {[node |-> handled, step |-> "list", pods |-> {}, pause |-> 0]}
  /\ monitor' = "check"
  /\ handled' = NoNode
  /\ UNCHANGED <<alive, notice, left, podVars, warnings, fresh, todo, faults>>
Cordon ==
  /\ monitor = "cordon"
  /\ handled \in fresh
  /\ cordoned' = cordoned \cup {handled}
  /\ runs' = runs \cup {[node |-> handled, step |-> "list", pods |-> {}, pause |-> 0]}
  /\ monitor' = "check"
  /\ handled' = NoNode
  /\ UNCHANGED <<alive, notice, left, podVars, warnings, fresh, todo, faults>>

\* Either update is refused, because the node was changed since it was listed,
\* or because it is gone: the error is logged and the node stays in the map.
UpdateFails ==
  /\ monitor \in {"annotate", "cordon"}
  /\ \/ handled \notin fresh /\ UNCHANGED faults
     \/ handled \in fresh /\ Strikes("update")
  /\ monitor' = "check"
  /\ handled' = NoNode
  /\ UNCHANGED <<clusterVars, podVars, warnings, fresh, todo, runs>>

CheckEnds ==
  /\ monitor = "check"
  /\ todo = {}
  /\ fresh' = {}
  /\ monitor' = "sleep"
  /\ UNCHANGED <<clusterVars, podVars, warnings, todo, handled, runs, faults>>

-----------------------------------------------------------------------------
(* gracefullyEvictPods.                                                    *)

Advance(r, step, pause) ==
  runs' = (runs \ {r}) \cup {[r EXCEPT !.step = step, !.pause = pause]}

ListPods(r) ==
  /\ r.step = "list"
  /\ runs' = (runs \ {r}) \cup {[r EXCEPT !.step = "low", !.pods = BoundPods(r.node)]}
  /\ UNCHANGED <<clusterVars, podVars, warnings, monitorVars, faults>>

\* The list fails: the goroutine returns, and the node stays in the map.
ListPodsFails(r) ==
  /\ r.step = "list"
  /\ Strikes("list")
  /\ runs' = runs \ {r}
  /\ UNCHANGED <<clusterVars, podVars, warnings, monitorVars>>

\* evictPods: those of a batch whose Delete does not fail.
Deletions(batch, deleted) ==
  /\ deleted \subseteq batch
  /\ \/ deleted = batch /\ UNCHANGED faults
     \/ deleted # batch /\ Strikes("delete")

\* With a grace period of zero the pod is gone from the API server at once.
\* The pod that has the name now is deleted, wherever it is.
DeleteNow(deleted) ==
  /\ pod' = [p \in Pod |-> IF p \in deleted THEN "absent" ELSE pod[p]]
  /\ host' = [p \in Pod |-> IF p \in deleted THEN NoNode ELSE host[p]]
  /\ dying' = [p \in Pod |-> IF p \in deleted THEN 0 ELSE dying[p]]

EvictLow(r) ==
  /\ r.step = "low"
  /\ \E deleted \in SUBSET Batch(r.pods, "low") :
       Deletions(Batch(r.pods, "low"), deleted) /\ DeleteNow(deleted)
  /\ Advance(r, "medium", Pause)
  /\ UNCHANGED <<clusterVars, warnings, monitorVars>>

EvictMedium(r) ==
  /\ r.step = "medium"
  /\ r.pause = 0
  /\ \E deleted \in SUBSET Batch(r.pods, "medium") :
       Deletions(Batch(r.pods, "medium"), deleted) /\ DeleteNow(deleted)
  /\ Advance(r, "high", Pause)
  /\ UNCHANGED <<clusterVars, warnings, monitorVars>>

\* A bound pod gets HighGrace ticks to end, any other is gone at once.
EvictHigh(r) ==
  /\ r.step = "high"
  /\ r.pause = 0
  /\ \E deleted \in SUBSET Batch(r.pods, "high") :
       /\ Deletions(Batch(r.pods, "high"), deleted)
       /\ LET bound == {p \in deleted : pod[p] \in {"running", "terminating"}} IN
          /\ pod' = [p \in Pod |-> IF p \in bound THEN "terminating"
                                   ELSE IF p \in deleted THEN "absent" ELSE pod[p]]
          /\ host' = [p \in Pod |-> IF p \in deleted \ bound THEN NoNode ELSE host[p]]
  /\ Advance(r, "cleanup", 0)
  /\ UNCHANGED <<clusterVars, dying, warnings, monitorVars>>

\* Faulty form: the entry is left in the map.
CleanupKeepsWarning(r) ==
  /\ r.step = "cleanup"
  /\ runs' = runs \ {r}
  /\ UNCHANGED <<clusterVars, podVars, warnings, monitorVars, faults>>
Cleanup(r) ==
  /\ r.step = "cleanup"
  /\ warnings' = warnings \ {r.node}
  /\ runs' = runs \ {r}
  /\ UNCHANGED <<clusterVars, podVars, monitorVars, faults>>

-----------------------------------------------------------------------------
(* The end of the process.                                                 *)

\* All goroutines are gone and the next process starts with an empty map.
Die ==
  /\ warnings' = {}
  /\ monitor' = "sleep"
  /\ todo' = {}
  /\ fresh' = {}
  /\ handled' = NoNode
  /\ runs' = {}
  /\ UNCHANGED <<clusterVars, podVars>>

Restart ==
  /\ Strikes("restart")
  /\ Die

\* Two goroutines may be at the map at the same time, and one of them writes:
\* the Go runtime may then end the process.
MapRace ==
  /\ \E r \in runs :
       /\ r.step = "cleanup"
       /\ \/ monitor = "check" /\ todo \cap notice # {}
          \/ \E other \in runs \ {r} : other.step = "cleanup"
  /\ UNCHANGED faults
  /\ Die

-----------------------------------------------------------------------------
(* The cluster around the process (external).                              *)

GiveNotice(n) ==
  /\ n \in (alive \cap SpotNodes) \ notice
  /\ notice' = notice \cup {n}
  /\ left' = [left EXCEPT ![n] = NoticePeriod]
  /\ UNCHANGED <<alive, cordoned, podVars, warnings, monitorVars, runs, faults>>

\* The machine ends with the notice period, and every pod on it too.
Reclaim(n) ==
  /\ n \in notice
  /\ left[n] = 0
  /\ alive' = alive \ {n}
  /\ notice' = notice \ {n}
  /\ cordoned' = cordoned \ {n}
  /\ pod' = [p \in Pod |-> IF host[p] = n THEN "absent" ELSE pod[p]]
  /\ dying' = [p \in Pod |-> IF host[p] = n THEN 0 ELSE dying[p]]
  /\ host' = [p \in Pod |-> IF host[p] = n THEN NoNode ELSE host[p]]
  /\ fresh' = fresh \ {n}
  /\ UNCHANGED <<left, warnings, monitor, todo, handled, runs, faults>>

\* A managed instance group brings the machine back under its old name.
Replace(n) ==
  /\ NamesReused
  /\ n \in SpotNodes \ alive
  /\ alive' = alive \cup {n}
  /\ UNCHANGED <<notice, left, cordoned, podVars, warnings, monitorVars, runs, faults>>

Submit(p) ==
  /\ pod[p] = "absent"
  /\ pod' = [pod EXCEPT ![p] = "pending"]
  /\ UNCHANGED <<clusterVars, host, dying, warnings, monitorVars, runs, faults>>

Schedule(p, n) ==
  /\ pod[p] = "pending"
  /\ n \in alive \ cordoned
  /\ pod' = [pod EXCEPT ![p] = "assumed"]
  /\ host' = [host EXCEPT ![p] = n]
  /\ UNCHANGED <<clusterVars, dying, warnings, monitorVars, runs, faults>>

Bind(p) ==
  /\ pod[p] = "assumed"
  /\ pod' = [pod EXCEPT ![p] = "running"]
  /\ UNCHANGED <<clusterVars, host, dying, warnings, monitorVars, runs, faults>>

Exit(p) ==
  /\ pod[p] \in {"running", "terminating"}
  /\ pod' = [pod EXCEPT ![p] = "absent"]
  /\ host' = [host EXCEPT ![p] = NoNode]
  /\ dying' = [dying EXCEPT ![p] = 0]
  /\ UNCHANGED <<clusterVars, warnings, monitorVars, runs, faults>>

\* Nothing that is due is left undone; the monitor's ticker fires.
Tick ==
  /\ monitor = "sleep"
  /\ \A r \in runs : r.pause > 0
  /\ \A n \in notice : left[n] > 0
  /\ \A p \in Pod : pod[p] # "assumed" /\ (pod[p] = "terminating" => dying[p] < HighGrace)
  /\ left' = [n \in Node |-> IF n \in notice THEN left[n] - 1 ELSE 0]
  /\ dying' = [p \in Pod |-> IF pod[p] = "terminating" THEN dying[p] + 1 ELSE 0]
  /\ runs' = {[r EXCEPT !.pause = @ - 1] : r \in runs}
  /\ monitor' = "list"
  /\ UNCHANGED <<alive, notice, cordoned, pod, host, warnings, fresh, todo, handled, faults>>

-----------------------------------------------------------------------------

Monitor ==
  \/ ListSpotNodes \/ ListSpotNodesFails
  \/ \E n \in SpotNodes : Pass(n) \/ NoticeFails(n) \/ RecordWarning(n)
  \/ Annotate \/ Cordon \/ UpdateFails \/ CheckEnds
Evict ==
  \E r \in runs : \/ ListPods(r) \/ ListPodsFails(r)
                  \/ EvictLow(r) \/ EvictMedium(r) \/ EvictHigh(r) \/ Cleanup(r)
Environment ==
  \/ \E n \in SpotNodes : GiveNotice(n) \/ Reclaim(n) \/ Replace(n)
  \/ \E p \in Pod : Submit(p) \/ Bind(p) \/ Exit(p)
  \/ \E p \in Pod, n \in Node : Schedule(p, n)
  \/ Tick

Next == Monitor \/ Evict \/ Restart \/ MapRace \/ Environment

Spec == Init /\ [][Next]_vars
-----------------------------------------------------------------------------
(* Safety.                                                                 *)

\* The map keeps a node from being evicted twice at a time, although the notice
\* is seen again every five seconds and the goroutines clean up on their own.
OneRunPerNode == \A r1, r2 \in runs : r1.node = r2.node => r1 = r2

\* When the notice period ends, the pods have gone or had their grace, those of
\* unknown priority aside: also one that was bound after the pods were listed, after a Delete or
\* a reading of the notice has failed, or after the process has died midway,
\* since a node that is finished with is handled again while its notice lasts.
DrainedInTime ==
  \A n \in notice : left[n] = 0 =>
    \A p \in Pod :
      host[p] = n => \/ EvictionPriority(Labels[p]) \notin Priorities
                     \/ pod[p] = "terminating" /\ dying[p] = HighGrace

-----------------------------------------------------------------------------
(* What the documents say.                                                 *)

\* docs/phase3-autoscaling-engine.md:442, "Cordon: Marks node as unschedulable":
\* no machine comes to its announced end without having been cordoned.
CordonedInTime == \A n \in notice : left[n] = 0 => n \in cordoned

\* spot_orchestrator.go:131, "gracefullyEvictPods evicts all pods from a node":
\* a run deletes no pod that is bound to another node.
EvictsFromItsNode ==
  [][\A r \in runs : EvictLow(r) \/ EvictMedium(r) \/ EvictHigh(r) =>
       \A p \in Pod : host[p] # r.node /\ pod[p] \in {"running", "terminating"}
                       => pod'[p] = pod[p]]_vars
=============================================================================
