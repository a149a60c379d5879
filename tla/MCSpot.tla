------------------------------- MODULE MCSpot -------------------------------
(* SpotOrchestrator on a few nodes and pods.                               *)
EXTENDS SpotOrchestrator, TLC

CONSTANTS s1, s2, o1, low, high, odd

MCSpotNodes == {s1, s2}
MCOneSpotNode == {s1}
MCOtherNodes == {o1}
MCNoNodes == {}
MCPod == {low, high, odd}
MCHighLow == {low, high}
MCHigh == {high}

Plain == [annotation |-> "none", workload |-> "none", important |-> FALSE]

\* Every way to a batch, and the annotation no batch takes.
MCLabels ==
  [p \in Pod |->
     CASE p = low -> [Plain EXCEPT !.workload = "batch", !.important = TRUE]
       [] p = high -> [Plain EXCEPT !.workload = "training"]
       [] p = odd -> [Plain EXCEPT !.annotation = "other", !.workload = "batch"]]

MCSymmetry == Permutations(MCSpotNodes)
=============================================================================
