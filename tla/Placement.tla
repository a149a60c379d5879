------------------------------- MODULE Placement -------------------------------
(***************************************************************************)
(* From the admission of a GPU pod to the advice about it: the webhook     *)
(* converts it (module GPUSharing), the managers of pkg/sharing make nodes *)
(* ready, the kube-scheduler binds it, the bin-packing scheduler plans for *)
(* those that wait (module BinPacking), and the GPU controller             *)
(* (pkg/controller/gpu_controller.go), with what the metrics collector     *)
(* reads (pkg/metrics/collector.go), advises on those that waste a GPU.    *)
(*                                                                         *)
(* The packing pass reads the cluster in steps: the nodes, then the pods   *)
(* of one node after the other, then the pods that are pending.  Pods go   *)
(* on being admitted, bound, started and finished between the steps.       *)
(***************************************************************************)
EXTENDS GPUSharing, BinPacking

CONSTANTS
  Pod,         \* the pods, [ns, name]
  Node,
  Submitted,   \* for a pod, the specifications it may be submitted with
  Physical,    \* the GPUs of a node
  Usage,       \* for a pod, the average [gpu, memory] percentages of a GPU it holds
  Replicas,    \* the replicas of a GPU when it is time-sliced
  MaxPrepared, \* bound: how many nodes are made ready for a kind of sharing
  NoNode

ASSUME PlacementAssumption ==
  /\ \A p \in Pod : \A spec \in Submitted[p] : IsSubmitted(spec)
  /\ IsFiniteSet(Node) /\ NoNode \notin Node
  /\ Physical \in [Node -> Nat] /\ Replicas \in Nat \ {0}
  /\ \A n \in Node : Physical[n] * Replicas < MaxWaste
  /\ Usage \in [Pod -> [gpu : 0..100, memory : 0..100]]

VARIABLES
  pods,        \* admitted pods: [spec, node, phase, aged]
  nodes,       \* [capacity, original, mps, replicas, mig] of every node
  pass,        \* "idle", "listing" or "done": the packing pass
  todo,        \* nodes the pass has still to list the pods of
  listed,      \* nodes as the pass listed them
  plan,        \* what the pass made of them
  advised      \* the last event created: none or one of [pod, what]

vars == <<pods, nodes, pass, todo, listed, plan, advised>>

NoPlan == [nodes |-> <<>>, placements |-> <<>>, consolidated |-> 0]

Init ==
  /\ pods = <<>>
  /\ nodes = [n \in Node |-> [capacity |-> Physical[n], original |-> 0, mps |-> FALSE,
                              replicas |-> 0, mig |-> "none"]]
  /\ pass = "idle" /\ todo = <<>> /\ listed = <<>> /\ plan = NoPlan
  /\ advised = {}

Request(p) == GetTotalGPURequest(pods[p].spec)
Requests(ps) == SumFunction([p \in ps |-> Request(p)])

\* The pods of a node in the phases, and those of them that request a GPU.
PodsOn(n, phases) == {p \in DOMAIN pods : pods[p].node = n /\ pods[p].phase \in phases}
GPUPodsOn(n, phases) == {p \in PodsOn(n, phases) : HasGPURequest(pods[p].spec)}

-----------------------------------------------------------------------------
(* Admission, and the nodes.                                               *)

Admit(p) ==
  /\ p \notin DOMAIN pods
  /\ \E submitted \in Submitted[p] : \E spec \in AsAdmitted(submitted) :
       pods' = Updated(pods, [q \in {p} |->
                 [spec |-> spec, node |-> NoNode, phase |-> "Pending", aged |-> FALSE]])
  /\ UNCHANGED <<nodes, pass, todo, listed, plan, advised>>

SetNode(n, node) ==
  /\ nodes' = [nodes EXCEPT ![n] = node]
  /\ UNCHANGED <<pods, pass, todo, listed, plan, advised>>

EnableMPSOnNode(n) == SetNode(n, [nodes[n] EXCEPT !.mps = TRUE])

\* Mutant: the capacity is multiplied here, not left to the device plugin.
EnableTimeSlicingOnNodeMultiplied(n) ==
  SetNode(n, [nodes[n] EXCEPT !.replicas = Replicas, !.original = nodes[n].capacity,
                              !.capacity = @ * Replicas])

\* The capacity of the moment is kept as the original one.
EnableTimeSlicingOnNode(n) ==
  SetNode(n, [nodes[n] EXCEPT !.replicas = Replicas, !.original = nodes[n].capacity])

ApplyMIGConfiguration(n, profile) == SetNode(n, [nodes[n] EXCEPT !.mig = profile])

\* The device plugin of a time-sliced node advertises every GPU several times.
AdvertiseReplicas(n) ==
  /\ nodes[n].replicas > 0
  /\ SetNode(n, [nodes[n] EXCEPT !.capacity = Physical[n] * nodes[n].replicas])

Prepared == {n \in Node : nodes[n].mps \/ nodes[n].replicas > 0 \/ nodes[n].mig # "none"}

RequestedProfiles(spec) ==
  UNION {DOMAIN spec.containers[i] \intersect ProfileNames : i \in DOMAIN spec.containers}

\* Nodes are made ready for pods that were admitted.
Prepare(n) ==
  \/ /\ n \in Prepared \/ Cardinality(Prepared) < MaxPrepared
     /\ \E p \in DOMAIN pods :
          LET strategy == Annotation(pods[p].spec, "strategy") IN
          \/ strategy = "mps" /\ EnableMPSOnNode(n)
          \/ strategy = "timeslicing" /\ EnableTimeSlicingOnNode(n)
          \/ \E profile \in RequestedProfiles(pods[p].spec) : ApplyMIGConfiguration(n, profile)
  \/ AdvertiseReplicas(n)

-----------------------------------------------------------------------------
(* The cluster.                                                            *)

SetPod(p, pod) ==
  /\ pods' = [pods EXCEPT ![p] = pod]
  /\ UNCHANGED <<nodes, pass, todo, listed, plan, advised>>

Labels(n) ==
  {l \in {"mps", "timeslicing"} : IF l = "mps" THEN nodes[n].mps ELSE nodes[n].replicas > 0}

\* The kube-scheduler binds a pod to a node with the labels it selects and the
\* devices it requests, and counts the GPUs of every pod bound and not finished.
\* Of devices that are not whole GPUs a node that has any has enough.
Bind(p, n) ==
  /\ pods[p].phase = "Pending" /\ pods[p].node = NoNode
  /\ pods[p].spec.selector \subseteq Labels(n)
  /\ RequestedProfiles(pods[p].spec) \subseteq {nodes[n].mig}
  /\ Request(p) + Requests(PodsOn(n, {"Pending", "Running"})) <= nodes[n].capacity
  /\ SetPod(p, [pods[p] EXCEPT !.node = n])

Start(p) ==
  /\ pods[p].phase = "Pending" /\ pods[p].node # NoNode
  /\ SetPod(p, [pods[p] EXCEPT !.phase = "Running"])

\* Five minutes have passed since the pod started.
Age(p) ==
  pods[p].phase = "Running" /\ ~pods[p].aged /\ SetPod(p, [pods[p] EXCEPT !.aged = TRUE])

Finish(p) ==
  /\ pods[p].phase = "Running"
  /\ SetPod(p, [pods[p] EXCEPT !.phase = "Succeeded", !.aged = FALSE])

Progress(p) == Start(p) \/ Age(p) \/ Finish(p) \/ \E n \in Node : Bind(p, n)

-----------------------------------------------------------------------------
(* The packing pass.                                                       *)

GPUNodes == {n \in Node : nodes[n].capacity > 0}

\* The nodes come in any order: the cache they are listed from has none.
ListNodes ==
  /\ pass = "idle"
  /\ \E order \in SetToSeqs(GPUNodes) :
       todo' = [i \in DOMAIN order |-> [name |-> order[i], total |-> nodes[order[i]].capacity]]
  /\ pass' = "listing" /\ listed' = <<>>
  /\ UNCHANGED <<pods, nodes, plan, advised>>

\* Mutant: the pods that are bound are not counted against their node.
ListNodePodsUncharged ==
  /\ pass = "listing" /\ todo # <<>>
  /\ LET n == Head(todo) IN
       listed' = Append(listed, [name |-> n.name, total |-> n.total, free |-> n.total,
                                 pods |-> GPUPodsOn(n.name, {"Running"})])
  /\ todo' = Tail(todo)
  /\ UNCHANGED <<pods, nodes, pass, plan, advised>>

\* Only running pods are counted; their requests come off what the node had
\* when the nodes were listed.
ListNodePods ==
  /\ pass = "listing" /\ todo # <<>>
  /\ LET n == Head(todo)
         running == GPUPodsOn(n.name, {"Running"}) IN
       listed' = Append(listed, [name |-> n.name, total |-> n.total,
                                 free |-> n.total - Requests(running), pods |-> running])
  /\ todo' = Tail(todo)
  /\ UNCHANGED <<pods, nodes, pass, plan, advised>>

\* A list fails, and the pass with it.
ListFails ==
  /\ pass = "listing"
  /\ pass' = "idle" /\ todo' = <<>> /\ listed' = <<>>
  /\ UNCHANGED <<pods, nodes, plan, advised>>

\* Pods are pending until they start, whether or not they are bound.
PendingGPUWorkloads ==
  {[pod |-> p, request |-> Request(p), priority |-> pods[p].spec.priority] :
     p \in {p \in DOMAIN pods : pods[p].phase = "Pending" /\ HasGPURequest(pods[p].spec)}}

PackPending ==
  /\ pass = "listing" /\ todo = <<>>
  /\ \E strategy \in Strategies :
       plan' \in PackWorkloads(strategy, listed, PendingGPUWorkloads)
  /\ pass' = "done"
  /\ UNCHANGED <<pods, nodes, todo, listed, advised>>

\* The plan is logged, and nothing acts on it.
RunBinPackingAnalysis ==
  /\ pass = "done"
  /\ pass' = "idle" /\ listed' = <<>> /\ plan' = NoPlan
  /\ UNCHANGED <<pods, nodes, todo, advised>>

-----------------------------------------------------------------------------
(* Advice.                                                                 *)

\* Mutant: memory weighs more than the GPU.
CalculateWasteScoreSwapped(use) == (4 * (100 - use.gpu)) + (6 * (100 - use.memory))

\* In tenths of a point.
CalculateWasteScore(use) == (6 * (100 - use.gpu)) + (4 * (100 - use.memory))

GenerateRecommendation(use) ==
  CASE use.gpu < 30 /\ use.memory < 30 -> "mig or mps"
    [] use.gpu < 50 /\ use.memory < 40 /\ ~(use.gpu < 30 /\ use.memory < 30) -> "mig"
    [] use.gpu < 50 /\ use.memory >= 40 -> "mps"
    [] use.gpu >= 50 /\ use.memory < 40 -> "time-slicing"
    [] OTHER -> "no optimization needed"

\* What the GPUs of a node show: one for every pod that holds any of them, and
\* an idle one while not all are requested.
Samples(n) ==
  LET running == GPUPodsOn(n, {"Running"}) IN
  {Usage[p] : p \in {p \in running : Request(p) > 0}}
  \union (IF Requests(running) < nodes[n].capacity THEN {[gpu |-> 0, memory |-> 0]} ELSE {})

\* The pod a GPU is taken to be held by: the first on the node, in the order of
\* a cache that has none, that requests any GPU, whatever its phase.
PodForGPU(n) == GPUPodsOn(n, {"Pending", "Running", "Succeeded"})

\* The memory of a GPU counts as unused when its query fails.
MemoryRead(use) == {use, [use EXCEPT !.memory = 0]}

WasteOn(ns) == UNION {MemoryRead(use) : use \in UNION {Samples(n) : n \in ns}}

\* Mutant: the pods of a name are told apart by nothing else.
GetWasteMetricsByName(p) ==
  WasteOn({n \in Node : \E q \in PodForGPU(n) : q.name = p.name})

\* What is reported of a pod, for any outcome of the reads.
GetWasteMetrics(p) == WasteOn({n \in Node : p \in PodForGPU(n)})

\* Only a pod that has run for five minutes and has not opted out is advised.
MayAdvise(p) ==
  /\ HasGPURequest(pods[p].spec) /\ Annotation(pods[p].spec, "sharing") # "disabled"
  /\ pods[p].phase = "Running" /\ pods[p].aged

\* A query that fails ends the reconciliation with no advice.
Reconcile(p) ==
  /\ MayAdvise(p)
  /\ \E waste \in GetWasteMetrics(p) :
       /\ CalculateWasteScore(waste) > 500
       /\ advised' = {[pod |-> p, what |-> GenerateRecommendation(waste)]}
  /\ UNCHANGED <<pods, nodes, pass, todo, listed, plan>>

-----------------------------------------------------------------------------

Next ==
  \/ RunBinPackingAnalysis
  \/ /\ pass # "done"
     /\ \/ \E p \in Pod : Admit(p)
        \/ \E p \in DOMAIN pods : Progress(p) \/ Reconcile(p)
        \/ \E n \in Node : Prepare(n)
        \/ ListNodes \/ ListNodePods \/ ListFails \/ PackPending

Spec == Init /\ [][Next]_vars

-----------------------------------------------------------------------------
(* Properties.                                                             *)

Admitted == UNION {UNION {AsAdmitted(spec) : spec \in Submitted[p]} : p \in Pod}

TypeOK ==
  /\ DOMAIN pods \subseteq Pod
  /\ pods \in [DOMAIN pods -> [spec : Admitted, node : Node \union {NoNode},
                              phase : {"Pending", "Running", "Succeeded"}, aged : BOOLEAN]]
  /\ \A p \in DOMAIN pods : pods[p].phase # "Pending" => pods[p].node \in Node
  /\ nodes \in [Node -> [capacity : Nat, original : Nat, mps : BOOLEAN,
                         replicas : {0, Replicas}, mig : {"none"} \union ProfileNames]]
  /\ \A n \in Node : nodes[n].capacity \in {Physical[n], Physical[n] * Replicas}
  /\ pass \in {"idle", "listing", "done"}
  /\ \A i \in DOMAIN listed :
       listed[i].free <= listed[i].total /\ listed[i].pods \subseteq DOMAIN pods

\* A pod the webhook converted to MIG got a profile with the compute units it
\* asked for, and with the memory but for less than an MB, which the search rounds
\* away; and no profile of the same card with fewer units has what it asked for
\* (GetMIGProfile, in the order of GetSupportedProfiles).  Of another card there
\* may be one: 8 GB and a GPU get 2g.10gb, although 1g.10gb has them too.
ProfileFits ==
  \A p \in DOMAIN pods :
    LET spec == pods[p].spec
        gpus == spec.annotations.original
        memory == GetTotalMemoryRequest(spec) IN
    Annotation(spec, "strategy") = "mig" =>
      \E i \in DOMAIN SupportedProfiles :
        LET chosen == SupportedProfiles[i] IN
        /\ chosen.name = spec.annotations.profile
        /\ chosen.compute >= gpus /\ memory - chosen.memory * MB < MB
        /\ \A j \in DOMAIN SupportedProfiles :
             LET other == SupportedProfiles[j] IN
             other.compute >= gpus /\ other.memory * MB >= memory /\ other.card = chosen.card
               => other.compute >= chosen.compute

\* The webhook may be called again with a pod it converted (a retry, or an
\* update of the pod), at another time: all that changes is the time it notes
\* on the pod (Handle, the ConvertPodTo methods).
AdmittedOnce ==
  \A p \in DOMAIN pods : \A time \in Times :
    LET spec == pods[p].spec IN
    "optimized" \in DOMAIN spec.annotations =>
      Handle(spec, time) \in {spec, Annotated(spec, [timestamp |-> time])}

\* Pods bound to the i-th node of the listing that it does not count: they had
\* not started when the pass listed the pods of that node.
Unseen(i) == GPUPodsOn(listed[i].name, {"Pending", "Running"}) \ listed[i].pods

\* The pods the plan adds to the i-th node.
Packed(i) == {p \in plan.nodes[i].pods \ listed[i].pods : pods[p].node # listed[i].name}

\* When the plan is made, the pods that are bound to a node and those planned
\* for it fit together on its GPUs, but for what pods hold that the listing
\* could not count (PackWorkloads, getGPUNodes, getPendingGPUWorkloads).
PlanFits ==
  pass = "done" => \A i \in DOMAIN listed :
    Requests(GPUPodsOn(listed[i].name, {"Pending", "Running"})) + Requests(Packed(i))
      <= nodes[listed[i].name].capacity + Requests(Unseen(i))

\* A pending pod is left out of the plan only where the pods that go before it,
\* or are tied with it, leave it no room (PackWorkloads, selectNode).
PriorityRespected ==
  pass = "done" => \A v \in PendingGPUWorkloads :
    (v.request > 0 /\ \A i \in DOMAIN plan.nodes : v.pod \notin plan.nodes[i].pods) =>
      \A i \in DOMAIN listed :
        LET ahead == {w \in PendingGPUWorkloads :
                        /\ w.pod \in plan.nodes[i].pods \ listed[i].pods
                        /\ \/ w.priority > v.priority
                           \/ w.priority = v.priority /\ w.request >= v.request} IN
        listed[i].free - Requests({w.pod : w \in ahead}) < v.request

\* The GPUs of the i-th node that no pod bound to it holds, and those that pods
\* hold which the listing could not count.
Spare(i) ==
  LET n == listed[i].name IN
  nodes[n].capacity - Requests(GPUPodsOn(n, {"Pending", "Running"})) + Requests(Unseen(i))

\* What the analyses of the same listing report of it: the GPUs that could be
\* saved are no more than those that are spare, and the fragmentation is between
\* 0 and 1, unless a node has more pods than GPUs: it advertised its replicas
\* after the nodes were listed and before its pods were
\* (AnalyzeConsolidationOpportunities, CalculateFragmentation).
AnalysisIsSound ==
  pass = "done" =>
    /\ AnalyzeConsolidationOpportunities(listed).savings
         <= SumFunction([i \in DOMAIN listed |-> Spare(i)])
    /\ \/ \E i \in DOMAIN listed : listed[i].free < 0
       \/ CalculateFragmentation(listed)
            \in 0..(Len(listed) * Len(listed) * Total(listed, "total", DOMAIN listed))

\* A pod whose own GPUs are not wasted is advised to share them only when its
\* node shows GPUs that it does not hold, or is taken to (getPodForGPU returns
\* the first GPU pod of the node), or a failed query hid its memory from the
\* score (GetWasteMetrics, checkOptimizationOpportunities).
AdviceIsEarned ==
  [][\A advice \in advised' \ advised :
       LET p == advice.pod IN
       \/ CalculateWasteScore(Usage[p]) > 500
       \/ Usage[p].gpu < 84
       \/ Request(p) < nodes[pods[p].node].capacity
     ]_vars

=============================================================================
