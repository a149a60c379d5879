------------------------------ MODULE MCPlacement ------------------------------
(* Placement for two nodes and three pods, two of them with the same name, *)
(* and what the cost tracker bills of an admitted pod (module Billing).    *)
EXTENDS Billing

trainer == [ns |-> "a", name |-> "p"]
server == [ns |-> "b", name |-> "p"]
notebook == [ns |-> "a", name |-> "q"]
MCPod == {trainer, server, notebook}

PodSpec(containers, type, annotations, priority) ==
  [containers |-> containers, type |-> type, annotations |-> annotations,
   selector |-> {}, tolerations |-> <<>>, priority |-> priority]

\* Asks for shares of GPUs itself.
training == PodSpec(<<[gpu |-> 1, memory |-> 4 * GB],
                      ("gpu" :> 1) @@ ("gpu-shared" :> 1) @@ ("1g.5gb" :> 1)>>, "training",
                    [optimize |-> "true"], 2)
serving == PodSpec(<<[gpu |-> 1, memory |-> 30 * GB], [memory |-> GB]>>, "inference", <<>>, 1)
\* One KB more than the smallest profile has.
small == PodSpec(<<[gpu |-> 1, memory |-> 4 * GB], [memory |-> GB + 1]>>, "inference",
                 [profile |-> "1g.5gb", sharing |-> "enabled"], 1)
medium == PodSpec(<<[gpu |-> 1, memory |-> 8 * GB]>>, "", <<>>, 1)
batch == PodSpec(<<[gpu |-> 2, memory |-> 8 * GB]>>, "",
                 [mode |-> "timeslicing", sharing |-> "enabled"], 0)

MCSubmitted == (trainer :> {training}) @@ (server :> {small, medium})
               @@ (notebook :> {batch, serving})
MCPhysical == "n1" :> 1 @@ "n2" :> 2
MCUsage == (trainer :> [gpu |-> 100, memory |-> 90]) @@ (server :> [gpu |-> 50, memory |-> 40])
           @@ (notebook :> [gpu |-> 10, memory |-> 20])

\* One time of a call is like another.
MCSymmetry == Permutations(Times)

\* What PlacementProofs assumes of the bill.
ASSUME NoneAsksForZero
=============================================================================
