-------------------------------- MODULE MCCost --------------------------------
(* CostPrices for three names of pods.                                     *)
EXTENDS CostPrices, TLC

spotNode == [accelerator |-> "a100"] @@ "capacity-type" :> "spot"
onDemandNode == [accelerator |-> "v100", region |-> "us-west-2"]

Pod(requests) == [requests |-> requests, mode |-> "", timeslicing |-> FALSE]

training == [pod |-> Pod([gpu |-> 1]), node |-> spotNode, team |-> "ml"]
serving == [pod |-> Pod("gpu-shared" :> 2), node |-> onDemandNode, team |-> "ml"]
mig == [pod |-> Pod([mig |-> 1]), node |-> onDemandNode, team |-> "ml"]

MCKey == {[ns |-> "a", name |-> "p"], [ns |-> "b", name |-> "p"], [ns |-> "a", name |-> "q"]}
MCKind == {training, serving, mig}
MCShapes ==
  [k \in MCKey |-> CASE k.name = "q" -> {mig, serving}
                     [] k.name = "p" /\ k.ns = "a" -> {training}
                     [] OTHER -> {serving}]
MCRate == [kind \in MCKind |-> HourlyRate("aws", kind.pod, kind.node)]
MCCounted == {kind \in MCKind : IsGPUPod(kind.pod) /\ GetGPUCount(kind.pod) > 0}
MCTeamOf == [kind \in MCKind |-> kind.team]
MCCapacityOf == [kind \in MCKind |-> GetCapacityType(kind.node)]

\* What ReportProofs assumes of the kinds.
ASSUME AtPrices /\ FairlyPriced
=============================================================================
