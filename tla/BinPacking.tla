------------------------------ MODULE BinPacking ------------------------------
(***************************************************************************)
(* How pending pods are packed on nodes: pkg/scheduler/binpacking.go once  *)
(* the cluster has been listed.  A node is [name, total, free, pods]: the  *)
(* GPUs it has, those no pod it was listed with holds, and the pods (with  *)
(* those packed on it since).  A workload is [pod, request, priority].     *)
(***************************************************************************)
EXTENDS Integers, FiniteSets, SequencesExt

Strategies == {"bestfit", "firstfit", "worstfit"}

CanFit(nodes, w) == {i \in DOMAIN nodes : nodes[i].free >= w.request}

\* The first of the positions with the least leftover; one that leaves MaxWaste
\* GPUs or more is never chosen.
MaxWaste == 999999
BestFitNode(nodes, positions, w) ==
  LET waste(i) == nodes[i].free - w.request
      best == {i \in positions : waste(i) < MaxWaste /\ \A j \in positions : waste(i) <= waste(j)} IN
  IF best = {} THEN {} ELSE {Min(best)}

\* The first of the positions with the most free GPUs; a node with none is
\* never chosen, not even for a pod that asks for none.
WorstFitNode(nodes, positions) ==
  LET free(i) == nodes[i].free
      worst == {i \in positions : free(i) > 0 /\ \A j \in positions : free(i) >= free(j)} IN
  IF worst = {} THEN {} ELSE {Min(worst)}

\* Mutant: a node is a candidate when any GPU of it is free.
SelectNodeAnyFree(strategy, nodes, w) ==
  LET candidates == {i \in DOMAIN nodes : nodes[i].free > 0} IN
  IF candidates = {} THEN {} ELSE {Min(candidates)}

\* The position of the node for a workload as a set: none or one.
SelectNode(strategy, nodes, w) ==
  LET candidates == CanFit(nodes, w) IN
  CASE candidates = {} -> {}
    [] candidates # {} /\ strategy = "firstfit" -> {Min(candidates)}
    [] candidates # {} /\ strategy = "worstfit" -> WorstFitNode(nodes, candidates)
    [] OTHER -> BestFitNode(nodes, candidates, w)

\* Mutant: the largest request goes first, whatever its priority.
GoesBeforeBySize(v, w) == v.request > w.request

\* The comparison workloads are sorted with; those it does not tell apart come
\* in any order, since sort.Slice is not stable.
GoesBefore(v, w) ==
  \/ v.priority > w.priority
  \/ v.priority = w.priority /\ v.request > w.request

SortedWorkloads(workloads) ==
  {order \in SetToSeqs(workloads) :
     \A i, j \in DOMAIN order : GoesBefore(order[i], order[j]) => i < j}

Placed(strategy, result, w) ==
  LET chosen == SelectNode(strategy, result.nodes, w) IN
  IF chosen = {} THEN result
  ELSE LET i == CHOOSE i \in chosen : TRUE IN
       [ nodes |-> [result.nodes EXCEPT ![i].free = @ - w.request,
                                        ![i].pods = @ \union {w.pod}],
         placements |-> [name \in DOMAIN result.placements \union {w.pod.name} |->
                           IF name = w.pod.name THEN result.nodes[i].name
                           ELSE result.placements[name]],
         consolidated |-> result.consolidated + 1 ]

\* What is made of the workloads in an order: result[k] after the first k.
Packing(strategy, nodes, order) ==
  LET result[k \in 0..Len(order)] ==
        IF k = 0 THEN [nodes |-> nodes, placements |-> <<>>, consolidated |-> 0]
        ELSE Placed(strategy, result[k - 1], order[k]) IN
  result[Len(order)]

\* The results packing may have.  Placements are kept by the bare name of a
\* pod, so of two pods with one name only the last has its place kept.
PackWorkloads(strategy, nodes, workloads) ==
  {Packing(strategy, nodes, order) : order \in SortedWorkloads(workloads)}

Total(nodes, field, positions) == SumFunction([i \in positions |-> nodes[i][field]])

\* The nodes with less than half of their GPUs held.  A node that advertises no
\* GPU has a share of 0/0, which is not below any bound.
Underutilized(nodes) ==
  {i \in DOMAIN nodes : nodes[i].total > 0 /\ 2 * (nodes[i].total - nodes[i].free) < nodes[i].total}

AnalyzeConsolidationOpportunities(nodes) ==
  [ total |-> Len(nodes), underutilized |-> Cardinality(Underutilized(nodes)),
    savings |-> Total(nodes, "free", Underutilized(nodes)) ]

\* In units of 1/(n*n*t) for n nodes and t GPUs.
CalculateFragmentation(nodes) ==
  LET total == Total(nodes, "total", DOMAIN nodes)
      available == Total(nodes, "free", DOMAIN nodes)
      withAvailable == Cardinality({i \in DOMAIN nodes : nodes[i].free > 0}) IN
  IF available = 0 THEN 0 ELSE withAvailable * ((Len(nodes) * total) - available)
=============================================================================
