---------------------------- MODULE ScalingRules ----------------------------
(***************************************************************************)
(* The arithmetic of the autoscaling engine (pkg/autoscaler/controller.go):*)
(* pure rules that turn counts of nodes, pods and underutilized nodes into *)
(* target sizes, a capacity type and a node pool.  The controller itself   *)
(* is module Autoscaler.                                                   *)
(***************************************************************************)
EXTENDS Integers, Sequences, FiniteSets

CONSTANTS
  MinNodes,        \* AutoscalerConfig.MinNodes
  MaxNodes,        \* AutoscalerConfig.MaxNodes
  SpotPercentage,  \* AutoscalerConfig.SpotInstancePercentage, in percent
  NodePools        \* the CapacityType of each AutoscalerConfig.NodePools entry

CapacityTypes == {"spot", "on-demand", "reserved"}

ASSUME LimitsAssumption ==
  /\ MinNodes \in Nat
  /\ MaxNodes \in Nat
  /\ SpotPercentage \in 0..100
  /\ NodePools \in Seq(CapacityTypes)

\* A pool is named by its place in NodePools.  No pool has the name 0, which
\* stands for both "" (a decision that never chose one) and "default".
NoPool == 0
PoolNames == 0..Len(NodePools)

Smaller(a, b) == IF a <= b THEN a ELSE b
Larger(a, b) == IF a >= b THEN a ELSE b

\* One node per started group of four pending pods, never beyond MaxNodes.
ScaleUpTarget(n, pending) == Smaller(n + ((pending + 3) \div 4), MaxNodes)

\* Drop the underutilized nodes, at most a fifth of the cluster (truncated),
\* and never below MinNodes.
ScaleDownTarget(n, under) == Larger(n - Smaller(under, n \div 5), MinNodes)

\* The spot share is compared with its target; the share of an empty cluster
\* is 0/0, which compares below nothing, so an empty cluster prefers on-demand.
PreferSpot(spot, total) == total > 0 /\ spot * 100 < SpotPercentage * total

\* getPreferredNodePool: the first pool of that type, else the first pool at
\* all, else a name no pool has.  Always a singleton.
\* Faulty form: off by one, past the end for the last pool.
PreferredPoolsOffByOne(type) ==
  {i + 1 : i \in {j \in DOMAIN NodePools : NodePools[j] = type}}
PreferredPools(type) ==
  LET ofType == {i \in DOMAIN NodePools : NodePools[i] = type}
  IN  IF ofType # {} THEN {i \in ofType : \A j \in ofType : i <= j}
      ELSE IF NodePools # <<>> THEN {1}
      ELSE {NoPool}

\* selectCapacityType
SelectPools(spot, total) ==
  PreferredPools(IF PreferSpot(spot, total) THEN "spot" ELSE "on-demand")

\* selectNodesToRemove: "count" of the spot nodes or, when there are fewer,
\* all of them and on-demand nodes for the rest.  The order in which the API
\* server lists nodes of one type is not fixed, so any choice of that size.
\* Other nodes (reserved, unlabelled) are never chosen.
\* Faulty form: the two tiers are taken as one.
RemovalChoicesOneTier(spot, onDemand, count) ==
  {R \in SUBSET (spot \cup onDemand) :
     Cardinality(R) = Smaller(Larger(count, 0), Cardinality(spot \cup onDemand))}
RemovalChoices(spot, onDemand, count) ==
  {R \in SUBSET (spot \cup onDemand) :
     /\ Cardinality(R) = Smaller(Larger(count, 0), Cardinality(spot \cup onDemand))
     /\ R \cap onDemand # {} => spot \subseteq R}
=============================================================================
