-------------------------------- MODULE Billing --------------------------------
(***************************************************************************)
(* What the cost tracker (pkg/cost/tracker.go, module Pricing) makes of    *)
(* the pods the webhook has converted and the scheduler has bound (module  *)
(* Placement).                                                             *)
(***************************************************************************)
EXTENDS Placement, Pricing

\* The resources the tracker tells apart: "mig" is every profile but the one it
\* counts.
TrackerName(resource) ==
  CASE resource = "1g.5gb" -> "mig-1g.5gb"
    [] resource \in ProfileNames \ {"1g.5gb"} -> "mig"
    [] OTHER -> resource

Seen(container) ==
  LET kept == DOMAIN container \ {"memory"} IN
  [requests |-> [s \in {TrackerName(r) : r \in kept} |->
                   container[CHOOSE r \in kept : TrackerName(r) = s]]]

\* The GPUs the tracker counts of a pod, container by container.
CountedGPUs(spec) ==
  SumFunction([i \in DOMAIN spec.containers |-> GetGPUCount(Seen(spec.containers[i]))])

\* The GPUs, and the devices that are shares of one, that a pod asks for.
AskedDevices(spec) ==
  TotalRequest(spec, "gpu") + TotalRequest(spec, "gpu-shared")
    + SumFunction([profile \in ProfileNames |-> TotalRequest(spec, profile)])

\* What a pod may have been submitted as.
SubmittedAs(p) == {asked \in Submitted[p] : pods[p].spec \in AsAdmitted(asked)}

\* A container that asks for GPUs asks for one at least.
NoneAsksForZero ==
  \A p \in Pod : \A spec \in Submitted[p] : \A i \in DOMAIN spec.containers :
    RequestsGPU(spec.containers[i]) => spec.containers[i].gpu > 0

\* Whatever the webhook made of its requests, the cost tracker charges a running
\* pod for no more GPUs than it was submitted with, shares of one included, and
\* for some of a GPU if it was submitted with any (ConvertPodToMIG, getGPUCount of
\* pkg/cost/tracker.go).  Nothing is said here of what a pod that holds another
\* MIG device than a 1g.5gb is charged for at least: see the README.
RunningPodIsBilled ==
  \A p \in DOMAIN pods : pods[p].phase = "Running" =>
    LET spec == pods[p].spec IN
    \A asked \in SubmittedAs(p) :
      /\ CountedGPUs(spec) <= AskedDevices(asked)
      /\ AskedDevices(asked) > 0 /\ RequestedProfiles(spec) \subseteq {"1g.5gb"}
           => CountedGPUs(spec) > 0

=============================================================================
