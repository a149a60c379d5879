--------------------------- MODULE NodeLifecycle ----------------------------
(***************************************************************************)
(* What the autoscaling engine promises about each machine, seen from      *)
(* outside: a machine is ordered within the upper limit, joins, carries    *)
(* pods, is retired empty and only above the lower limit, and goes.        *)
(* Autoscaler implements it: nothing here says how a decision is made,     *)
(* what the controller knows, or how a drain goes.                         *)
(***************************************************************************)
EXTENDS Naturals, FiniteSets

CONSTANTS Node, Pod, NoNode, MinNodes, MaxNodes

VARIABLES
  stage,   \* of a machine: "absent", "requested", "ready" or "leaving"
  on,      \* the machine a pod is bound to, or NoNode
  restarts, lostReplies,  \* what made the engine forget an order it gave
  lost     \* machines lost to the outside

vars == <<stage, on, restarts, lostReplies, lost>>

Machines == {n \in Node : stage[n] # "absent"}
Ready == {n \in Node : stage[n] = "ready"}
Empty(n) == \A p \in Pod : on[p] # n

Init ==
  /\ \E R \in SUBSET Node :
       /\ Cardinality(R) \in MinNodes..MaxNodes
       /\ stage = [n \in Node |-> IF n \in R THEN "ready" ELSE "absent"]
  /\ on = [p \in Pod |-> NoNode]
  /\ restarts = 0 /\ lostReplies = 0 /\ lost = 0

Move(n, from, to) ==
  /\ stage[n] = from
  /\ stage' = [stage EXCEPT ![n] = to]

\* Every forgotten order allows for one machine beyond the limit.
Order(n) ==
  /\ Move(n, "absent", "requested")
  /\ Cardinality(Machines) < MaxNodes + restarts + lostReplies
  /\ lostReplies' \in {lostReplies, lostReplies + 1}
  /\ UNCHANGED <<on, restarts, lost>>

Join(n) ==
  /\ Move(n, "requested", "ready")
  /\ UNCHANGED <<on, restarts, lostReplies, lost>>

Abandon(n) ==
  /\ Move(n, "requested", "absent")
  /\ UNCHANGED <<on, restarts, lostReplies, lost>>

\* Gracefully, and an engine that was never restarted keeps enough machines.
Retire(n) ==
  /\ Move(n, "ready", "leaving")
  /\ Empty(n)
  /\ restarts = 0 => Cardinality(Ready \ {n}) + lost >= MinNodes
  /\ UNCHANGED <<on, restarts, lostReplies, lost>>

\* A retired machine has taken no pod since.
Gone(n) ==
  /\ Move(n, "leaving", "absent")
  /\ Empty(n)
  /\ UNCHANGED <<on, restarts, lostReplies, lost>>

\* Its pods are lost with it.
Lose(n) ==
  /\ Move(n, "ready", "absent")
  /\ on' = [p \in Pod |-> IF on[p] = n THEN NoNode ELSE on[p]]
  /\ lost' = lost + 1
  /\ UNCHANGED <<restarts, lostReplies>>

Place(p, n) ==
  /\ stage[n] = "ready"
  /\ on[p] = NoNode
  /\ on' = [on EXCEPT ![p] = n]
  /\ UNCHANGED <<stage, restarts, lostReplies, lost>>

Release(p) ==
  /\ on[p] # NoNode
  /\ on' = [on EXCEPT ![p] = NoNode]
  /\ UNCHANGED <<stage, restarts, lostReplies, lost>>

Forget ==
  /\ restarts' = restarts + 1
  /\ UNCHANGED <<stage, on, lostReplies, lost>>

Next ==
  \/ \E n \in Node : \/ Order(n) \/ Join(n) \/ Abandon(n)
                     \/ Retire(n) \/ Gone(n) \/ Lose(n)
  \/ \E p \in Pod : Release(p) \/ \E n \in Node : Place(p, n)
  \/ Forget

Spec == Init /\ [][Next]_vars
=============================================================================
