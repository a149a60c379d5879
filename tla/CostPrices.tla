------------------------------- MODULE CostPrices -------------------------------
(***************************************************************************)
(* The cost tracker (module CostTracker) at the prices of the catalogue    *)
(* (module Pricing), on AWS.  A kind of pod is here a record of the pod,   *)
(* its node and its team.                                                  *)
(***************************************************************************)
EXTENDS CostReports, Pricing

\* calculatePodCost takes the rate from the catalogue and refuses a pod without
\* GPUs.
AtPrices ==
  \A kind \in Kind :
    /\ Rate[kind] = HourlyRate("aws", kind.pod, kind.node)
    /\ CapacityOf[kind] = GetCapacityType(kind.node)
    /\ kind \in Counted => GetGPUCount(kind.pod) \in Nat \ {0}

\* The machines the spot prices of which are below half of the others: all that
\* are listed, and where none are, those that cost more on demand than the
\* estimate for a spot machine.
FairlyPriced ==
  \A kind \in Kind :
    /\ CapacityOf[kind] = "spot" => "capacity-type" \in DOMAIN kind.node
    /\ GetRegion(kind.node) = "us-east-1" \/ GetGPUType(kind.node) \notin {"t4", "a10", "l4"}

\* A pod on a spot node is billed at less than half of what it would be on
\* demand, as cloud prices are (getAWSSpotPrices, calculatePodCost).
SpotIsCheaper ==
  \A k \in DOMAIN cache :
    LET kind == KindOf(cache[k].pod)
        onDemand == [kind.node EXCEPT !["capacity-type"] = "on-demand"] IN
    CapacityOf[kind] = "spot"
      => 2 * cache[k].rate < HourlyRate("aws", kind.pod, onDemand)

=============================================================================
