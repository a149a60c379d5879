----------------------------- MODULE BudgetPromise ------------------------------
(***************************************************************************)
(* What the budget controller promises: to work as if each pass read the   *)
(* budget itself, and nobody touched it until the pass is over.  A pass    *)
(* for which this is not so is in doubt: it may alert or throttle wrongly, *)
(* but nothing it concludes is ever recorded.  BudgetController implements *)
(* it: nothing here is said of caches, copies, versions or timestamps.     *)
(***************************************************************************)
EXTENDS Naturals

CONSTANTS
  Alert, Policy, Pool, Sizes, InitialSizes, Modes, Spends, GracePeriod, Never,
  InScope,       \* the policies a budget is about
  Exceeded(_),   \* whether an amount reaches the limit
  ReachedBy(_),  \* the alerts whose thresholds it reaches
  Shrunk(_)      \* what throttling makes of the pools of a policy

VARIABLES
  spend, policies,
  mode, fired, active,  \* the budget: its action, the alerts recorded, enforcement
  over,      \* ticks since the limit was reached, Never while it is kept
  sent,      \* how often an alert was sent
  stage,     \* of the pass
  doubtful,  \* the budget is not what the pass takes it for
  judged,    \* the spend the pass has found
  left       \* the policies it has still to throttle

budgetVars == <<mode, fired, active>>
passVars == <<stage, doubtful, judged, left>>
vars == <<spend, policies, budgetVars, over, sent, passVars>>

Init ==
  /\ spend \in Spends /\ policies = InitialSizes
  /\ mode \in Modes /\ fired = {} /\ active = FALSE
  /\ over = IF Exceeded(spend) THEN 0 ELSE Never
  /\ sent = [a \in Alert |-> 0]
  /\ stage = "rest" /\ doubtful = FALSE /\ judged = 0 /\ left = {}

-----------------------------------------------------------------------------
(* A pass.                                                                 *)

Read ==
  /\ stage = "rest" /\ stage' = "read" /\ doubtful' \in BOOLEAN
  /\ UNCHANGED <<spend, policies, budgetVars, over, sent, judged, left>>

Judge ==
  /\ stage = "read" /\ stage' = "judged" /\ judged' = spend
  /\ UNCHANGED <<spend, policies, budgetVars, over, sent, doubtful, left>>

\* Alerts reached and not recorded; none that was never sent is left out.
SendAlerts ==
  /\ stage = "judged" /\ stage' = "alerted"
  /\ \E due \in SUBSET ReachedBy(judged) :
       /\ doubtful \/ due = ReachedBy(judged) \ fired
       /\ \A a \in ReachedBy(judged) \ due : sent[a] > 0
       /\ sent' = [a \in Alert |-> IF a \in due THEN sent[a] + 1 ELSE sent[a]]
  /\ UNCHANGED <<spend, policies, budgetVars, over, doubtful, judged, left>>

Throttle ==
  /\ stage = "alerted" /\ stage' = "throttling" /\ left' = InScope
  /\ Exceeded(judged)
  /\ \/ doubtful
     \/ mode = "throttle" /\ ~active /\ over = GracePeriod
  /\ UNCHANGED <<spend, policies, budgetVars, over, sent, doubtful, judged>>

\* The policy shrinks, or its update is not needed or refused.
Settle(p) ==
  /\ stage = "throttling" /\ p \in left /\ left' = left \ {p}
  /\ policies' \in {policies, [policies EXCEPT ![p] = Shrunk(@)]}
  /\ UNCHANGED <<spend, budgetVars, over, sent, stage, doubtful, judged>>

\* Enforcement goes on, or begins: when there is nothing to throttle, or all of it is.
Enforce ==
  /\ stage \in {"alerted", "throttling"} /\ stage' = "enforced"
  /\ left = {} /\ Exceeded(judged)
  /\ \/ doubtful
     \/ stage = "alerted" /\ active
     \/ over = GracePeriod /\ (stage = "throttling" <=> mode = "throttle")
  /\ UNCHANGED <<spend, policies, budgetVars, over, sent, doubtful, judged, left>>

\* Enforcement ends, or does not begin.
Forgo ==
  /\ stage = "alerted" /\ stage' = "forgone"
  /\ doubtful \/ ~Exceeded(judged) \/ ~active
  /\ UNCHANGED <<spend, policies, budgetVars, over, sent, doubtful, judged, left>>

Return == stage' = "rest" /\ doubtful' = FALSE /\ judged' = 0 /\ left' = {}

\* What was found and done is recorded, all of it at once.
Conclude ==
  /\ stage \in {"enforced", "forgone"} /\ ~doubtful
  /\ active' = (stage = "enforced")
  /\ fired' = fired \cup ReachedBy(judged)
  /\ over' = IF Exceeded(judged) \/ Exceeded(spend) THEN over ELSE Never
  /\ Return
  /\ UNCHANGED <<spend, policies, mode, sent>>

\* A call fails, the process restarts: nothing is recorded.
GiveUp == Return /\ UNCHANGED <<spend, policies, budgetVars, over, sent>>

-----------------------------------------------------------------------------
(* What goes on around it.                                                 *)

SpendChanges ==
  /\ spend' \in Spends
  /\ over' = IF over = Never /\ Exceeded(spend') THEN 0 ELSE over
  /\ UNCHANGED <<policies, budgetVars, sent, passVars>>

Age ==
  /\ over \notin {Never, GracePeriod} /\ over' = over + 1
  /\ UNCHANGED <<spend, policies, budgetVars, sent, passVars>>

\* Users change the action and acknowledge alerts.
EditBudget ==
  /\ mode' \in Modes /\ fired' \subseteq fired
  /\ doubtful' = (stage # "rest")
  /\ UNCHANGED <<spend, policies, active, over, sent, stage, judged, left>>

EditPolicy(p) ==
  /\ \E i \in Pool, size \in Sizes : policies' = [policies EXCEPT ![p][i] = size]
  /\ UNCHANGED <<spend, budgetVars, over, sent, passVars>>

Next ==
  \/ Read \/ Judge \/ SendAlerts \/ Throttle \/ Enforce \/ Forgo \/ Conclude \/ GiveUp
  \/ \E p \in Policy : Settle(p) \/ EditPolicy(p)
  \/ SpendChanges \/ Age \/ EditBudget

Spec == Init /\ [][Next]_vars
=============================================================================
