------------------------------ MODULE MCBudget ------------------------------
(* BudgetController on a few alerts, policies and amounts.                 *)
EXTENDS BudgetController, TLC

CONSTANTS warn, crit, asp1, asp2, spot, od

MCAlert == {warn, crit}
MCThreshold == (warn :> 50) @@ (crit :> 80)
MCSpends == {6, 10}
MCModes == {"alert", "throttle"}
MCThrottle == {"throttle"}
MCPolicy == {asp1, asp2}
MCPool == {spot, od}
MCSpotPools == {spot}
MCNamespaces == {}
MCSizes == {[min |-> 0, max |-> 0]}
MCInitialSizes ==
  [p \in MCPolicy |-> [i \in MCPool |-> IF p = asp2 /\ i = od THEN [min |-> 0, max |-> 0]
                                                         ELSE [min |-> 1, max |-> 2]]]
=============================================================================
