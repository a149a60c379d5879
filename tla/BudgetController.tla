--------------------------- MODULE BudgetController ---------------------------
(***************************************************************************)
(* The budget controller, pkg/cost/budget_controller.go, for one           *)
(* CostBudget.                                                             *)
(*                                                                         *)
(* Reconcile reads the budget from the informer's cache, computes what was *)
(* spent, sends the alerts that are due, enforces the budget on the        *)
(* AutoscalingPolicies of its scope, and writes the status it has built up *)
(* in memory at the very end.  Only that last write remembers the alerts   *)
(* sent, the enforcement and the start of the grace period; the API server *)
(* refuses it when the copy it rests on is out of date.  Users edit the    *)
(* budget and the policies at any time.                                    *)
(*                                                                         *)
(* How the spend comes about (calculateScopeSpend) is left open here: it   *)
(* rises as pods run and falls when a month begins, a pod ends without a   *)
(* database, or the database fails.                                        *)
(***************************************************************************)
EXTENDS Integers, FiniteSets

CONSTANTS
  Alert, Threshold,           \* Spec.Alerts: names and percentages
  MonthlyLimit, Spends,       \* the limit, and the amounts that may be spent
  GracePeriod,                \* GracePeriodMinutes, in ticks
  Modes,                      \* the enforcement actions users set
  BlockSpotCreation, MaxSpotInstances,   \* Spec.Enforcement.ThrottleConfig
  Policy, Pool, SpotPools,    \* policies, and the node pools of each
  Namespaces,                 \* Spec.Scope.Namespaces
  Sizes, InitialSizes,        \* sizes users give a pool; those they start from
  DefaultMaxSize,             \* of a pool without a MaxSize
  Never,                      \* a nil time, a nil number
  MaxStaleReads, MaxEdits, MaxFaults     \* bounds

Actions == {"alert", "throttle", "block"}

ASSUME BudgetAssumption ==
  /\ Threshold \in [Alert -> 0..100]
  /\ MonthlyLimit \in Nat /\ Spends \subseteq Nat
  /\ GracePeriod \in Nat
  /\ Never \notin Int
  /\ Modes \subseteq Actions \cup {"none"} /\ Modes # {}

ASSUME PolicyAssumption ==
  /\ IsFiniteSet(Policy)
  /\ BlockSpotCreation \in BOOLEAN
  /\ MaxSpotInstances \in Nat \cup {Never}
  /\ DefaultMaxSize \in Nat
  /\ SpotPools \subseteq Pool
  /\ Sizes \subseteq [min : Nat, max : Nat]
  /\ InitialSizes \in [Policy -> [Pool -> [min : Nat, max : Nat]]]

ASSUME BudgetBounds == {MaxStaleReads, MaxEdits, MaxFaults} \subseteq Nat

-----------------------------------------------------------------------------
(* Pure helpers.                                                           *)

\* PercentageUsed >= t; of no limit at all, 0 percent are used.
PercentageAtLeast(s, t) ==
  IF MonthlyLimit > 0 THEN s * 100 >= t * MonthlyLimit ELSE t <= 0

Exceeded(s) == PercentageAtLeast(s, 100)

ReachedBy(s) == {a \in Alert : PercentageAtLeast(s, Threshold[a])}

\* AutoscalingPolicy is a cluster-scoped resource: policy.Namespace is "".  A
\* budget of certain namespaces has no policy in its scope.
NamespaceOf(p) == ""
IsInBudgetScope(p) == Namespaces = {} \/ NamespaceOf(p) \in Namespaces

InScope == {p \in Policy : IsInBudgetScope(p)}

\* What throttleResources leaves of a pool.
ThrottledPool(i, size) ==
  CASE i \in SpotPools /\ BlockSpotCreation -> [min |-> 0, max |-> 0]
    [] /\ i \in SpotPools /\ ~BlockSpotCreation
       /\ MaxSpotInstances # Never /\ size.max > MaxSpotInstances
         -> [size EXCEPT !.max = MaxSpotInstances]
    [] OTHER -> size

Throttled(pools) == [i \in Pool |-> ThrottledPool(i, pools[i])]

\* What the API server stores: a maximum of 0 is not part of the JSON
\* (omitempty), and what is missing gets the type's default.
StoredPool(size) ==
  IF size.max = 0 THEN [size EXCEPT !.max = DefaultMaxSize] ELSE size

Stored(pools) == [i \in Pool |-> StoredPool(pools[i])]

Shrunk(pools) == Stored(Throttled(pools))

\* A pool set to zero is written again even if it was zero.
Modified(pools) ==
  \E i \in SpotPools : BlockSpotCreation \/ ThrottledPool(i, pools[i]) # pools[i]

-----------------------------------------------------------------------------
VARIABLES
  spend,       \* what calculateScopeSpend would find
  (* the API server *)
  budget,      \* the CostBudget
  policies,    \* the sizes of each policy's pools
  (* the controller *)
  cached,      \* the informer's copy of the budget
  cacheFresh,  \* that copy has the budget's resource version
  step,        \* what Reconcile does next, "idle" between two of them
  copy,        \* the budget it works on
  copyFresh,   \* which still has the budget's resource version
  seen,        \* the spend it found
  list,        \* the policies listed and still to be throttled
  changed,     \* policies written by others since they were listed
  (* observation only *)
  sent,        \* how often an alert was sent
  over,        \* ticks since the limit was first reached after the last
               \* status written that says it was not
  staleReads, edits, faults   \* how often each has happened

apiVars == <<budget, policies>>
cacheVars == <<cached, cacheFresh>>
copyVars == <<copy, copyFresh, seen>>
listVars == <<list, changed>>
boundVars == <<staleReads, edits, faults>>
vars == <<spend, apiVars, cacheVars, step, copyVars, listVars, sent, over, boundVars>>

Ages == 0..GracePeriod \cup {Never}

\* The spec fields users edit and the status fields that are read again;
\* fired are the alerts fired and not acknowledged, since is the age of
\* ExceededSince.
CostBudgets == [enabled : BOOLEAN, mode : Actions \cup {"none"},
                fired : SUBSET Alert, active : BOOLEAN, since : Ages]

NoBudget == [enabled |-> FALSE, mode |-> "none", fired |-> {}, active |-> FALSE,
             since |-> Never]

PoolSizes == [Pool -> [min : Nat, max : Nat]]

TypeOK ==
  /\ spend \in Spends /\ seen \in Spends \cup {0}
  /\ budget \in CostBudgets /\ cached \in CostBudgets /\ copy \in CostBudgets
  /\ cacheFresh \in BOOLEAN /\ copyFresh \in BOOLEAN
  /\ policies \in [Policy -> PoolSizes]
  /\ step \in {"idle", "status", "alerts", "enforce", "throttle", "write"}
  /\ DOMAIN list \subseteq InScope
  /\ \A p \in DOMAIN list : list[p] \in PoolSizes
  /\ changed \subseteq Policy
  /\ sent \in [Alert -> Nat]
  /\ over \in Ages
  /\ staleReads \in 0..MaxStaleReads /\ edits \in 0..MaxEdits /\ faults \in 0..MaxFaults

NoList == [p \in {} |-> NoBudget]

Init ==
  /\ spend \in Spends /\ seen = 0
  /\ budget \in {[NoBudget EXCEPT !.enabled = TRUE, !.mode = m] : m \in Modes}
  /\ policies = InitialSizes
  /\ cached = budget /\ cacheFresh = TRUE
  /\ step = "idle" /\ copy = NoBudget /\ copyFresh = FALSE
  /\ list = NoList /\ changed = {}
  /\ sent = [a \in Alert |-> 0]
  /\ over = IF Exceeded(spend) THEN 0 ELSE Never
  /\ staleReads = 0 /\ edits = 0 /\ faults = 0

-----------------------------------------------------------------------------
(* Reconcile.                                                              *)

\* Its locals are gone; it is called again a minute or a back-off later.
Return ==
  /\ step' = "idle" /\ copy' = NoBudget /\ copyFresh' = FALSE /\ seen' = 0
  /\ list' = NoList /\ changed' = {}

Fault == faults < MaxFaults /\ faults' = faults + 1

\* A disabled budget is left as it is.
Get ==
  /\ step = "idle" /\ cached.enabled
  /\ cacheFresh \/ staleReads < MaxStaleReads
  /\ staleReads' = IF cacheFresh THEN staleReads ELSE staleReads + 1
  /\ copy' = cached /\ copyFresh' = cacheFresh
  /\ step' = "status"
  /\ UNCHANGED <<spend, apiVars, cacheVars, seen, listVars, sent, over, edits, faults>>

\* Mutant: the start of the grace period is kept when the limit is not
\* exceeded any more.
UpdateBudgetStatusKeeps ==
  /\ step = "status"
  /\ seen' = spend
  /\ copy' = [copy EXCEPT !.since = IF Exceeded(spend) /\ @ = Never THEN 0 ELSE @]
  /\ step' = "alerts"
  /\ UNCHANGED <<spend, apiVars, cacheVars, copyFresh, listVars, sent, over, boundVars>>

\* Mutant: the percentage is taken for the amount.
UpdateBudgetStatusInPercent ==
  /\ step = "status"
  /\ seen' = (spend * 100) \div MonthlyLimit
  /\ copy' = [copy EXCEPT !.since =
                CASE ~Exceeded(spend) -> Never
                  [] Exceeded(spend) /\ copy.since = Never -> 0
                  [] OTHER -> copy.since]
  /\ step' = "alerts"
  /\ UNCHANGED <<spend, apiVars, cacheVars, copyFresh, listVars, sent, over, boundVars>>

\* Mutant: the time the limit was first exceeded is taken anew every time.
UpdateBudgetStatusRestarts ==
  /\ step = "status"
  /\ seen' = spend
  /\ copy' = [copy EXCEPT !.since = IF Exceeded(spend) THEN 0 ELSE Never]
  /\ step' = "alerts"
  /\ UNCHANGED <<spend, apiVars, cacheVars, copyFresh, listVars, sent, over, boundVars>>

\* Mutant: the budget is enforced before its alerts are looked at.
UpdateBudgetStatusEnforces ==
  /\ step = "status"
  /\ seen' = spend
  /\ copy' = [copy EXCEPT !.since =
                CASE ~Exceeded(spend) -> Never
                  [] Exceeded(spend) /\ copy.since = Never -> 0
                  [] OTHER -> copy.since]
  /\ step' = IF Exceeded(spend) THEN "enforce" ELSE "alerts"
  /\ UNCHANGED <<spend, apiVars, cacheVars, copyFresh, listVars, sent, over, boundVars>>

\* ExceededSince is set when the limit is first seen exceeded, and dropped
\* when it is not.
UpdateBudgetStatus ==
  /\ step = "status"
  /\ seen' = spend
  /\ copy' = [copy EXCEPT !.since =
                CASE ~Exceeded(spend) -> Never
                  [] Exceeded(spend) /\ copy.since = Never -> 0
                  [] OTHER -> copy.since]
  /\ step' = "alerts"
  /\ UNCHANGED <<spend, apiVars, cacheVars, copyFresh, listVars, sent, over, boundVars>>

\* The pods cannot be listed: Reconcile returns an error.
UpdateBudgetStatusFails ==
  /\ step = "status"
  /\ Fault
  /\ Return
  /\ UNCHANGED <<spend, apiVars, cacheVars, sent, over, staleReads, edits>>

\* Mutant: alreadyFired is declared outside the loop over the alerts.
CheckAlertsFiredOnce ==
  LET due == IF copy.fired # {} THEN {}
             ELSE ReachedBy(seen) IN
  /\ step = "alerts"
  /\ sent' = [a \in Alert |-> IF a \in due THEN sent[a] + 1 ELSE sent[a]]
  /\ copy' = [copy EXCEPT !.fired = @ \cup due]
  /\ step' = "enforce"
  /\ UNCHANGED <<spend, apiVars, cacheVars, copyFresh, seen, listVars, over, boundVars>>

\* An alert that no channel delivers counts as fired all the same.
CheckAlerts ==
  LET due == ReachedBy(seen) \ copy.fired IN
  /\ step = "alerts"
  /\ sent' = [a \in Alert |-> IF a \in due THEN sent[a] + 1 ELSE sent[a]]
  /\ copy' = [copy EXCEPT !.fired = @ \cup due]
  /\ step' = "enforce"
  /\ UNCHANGED <<spend, apiVars, cacheVars, copyFresh, seen, listVars, over, boundVars>>

\* Neither lifted nor in the grace period nor enforced already.
EnforcementDue ==
  /\ step = "enforce"
  /\ Exceeded(seen) /\ copy.mode # "none" /\ ~copy.active
  /\ copy.since = Never \/ copy.since >= GracePeriod

LiftEnforcement ==
  /\ step = "enforce" /\ ~Exceeded(seen)
  /\ copy' = [copy EXCEPT !.active = FALSE]
  /\ step' = "write"
  /\ UNCHANGED <<spend, apiVars, cacheVars, copyFresh, seen, listVars, sent, over, boundVars>>

EnforceNothing ==
  /\ step = "enforce" /\ Exceeded(seen) /\ ~EnforcementDue
  /\ step' = "write"
  /\ UNCHANGED <<spend, apiVars, cacheVars, copyVars, listVars, sent, over, boundVars>>

\* To block is not implemented: blockNewPods returns an error, which is noted
\* in an event.
AlertOrBlock ==
  /\ EnforcementDue /\ copy.mode \in {"alert", "block"}
  /\ copy' = [copy EXCEPT !.active = TRUE]
  /\ step' = "write"
  /\ UNCHANGED <<spend, apiVars, cacheVars, copyFresh, seen, listVars, sent, over, boundVars>>

\* throttleResources.  A list from a cache out of date is one taken before
\* the edits it misses.
ListPolicies ==
  /\ EnforcementDue /\ copy.mode = "throttle"
  /\ list' = [p \in InScope |-> policies[p]]
  /\ changed' = {}
  /\ step' = "throttle"
  /\ UNCHANGED <<spend, apiVars, cacheVars, copyVars, sent, over, boundVars>>

\* Enforcement is not marked active; the status is written all the same.
ListPoliciesFails ==
  /\ EnforcementDue /\ copy.mode = "throttle"
  /\ Fault
  /\ step' = "write"
  /\ UNCHANGED <<spend, apiVars, cacheVars, copyVars, listVars, sent, over,
                 staleReads, edits>>

Done(p) == list' = [q \in DOMAIN list \ {p} |-> list[q]]

\* Mutant: the policy is written whatever its version.
UpdatePolicyAnyVersion(p) ==
  /\ step = "throttle" /\ p \in DOMAIN list /\ Modified(list[p])
  /\ policies' = [policies EXCEPT ![p] = Shrunk(list[p])]
  /\ Done(p)
  /\ UNCHANGED <<spend, budget, cacheVars, step, copyVars, changed, sent, over, boundVars>>

\* The whole object is written, from the copy that was listed.
UpdatePolicy(p) ==
  /\ step = "throttle" /\ p \in DOMAIN list /\ Modified(list[p])
  /\ p \notin changed
  /\ policies' = [policies EXCEPT ![p] = Shrunk(list[p])]
  /\ Done(p)
  /\ UNCHANGED <<spend, budget, cacheVars, step, copyVars, changed, sent, over, boundVars>>

SkipPolicy(p) ==
  /\ step = "throttle" /\ p \in DOMAIN list /\ ~Modified(list[p])
  /\ Done(p)
  /\ UNCHANGED <<spend, apiVars, cacheVars, step, copyVars, changed, sent, over, boundVars>>

\* Mutant: the first refusal ends the loop over the policies.
UpdatePolicyFailsAll(p) ==
  /\ step = "throttle" /\ p \in DOMAIN list /\ Modified(list[p])
  /\ IF p \in changed THEN UNCHANGED faults ELSE Fault
  /\ list' = NoList
  /\ UNCHANGED <<spend, apiVars, cacheVars, step, copyVars, changed, sent, over,
                 staleReads, edits>>

\* The error is logged and the policy left as it is.
UpdatePolicyFails(p) ==
  /\ step = "throttle" /\ p \in DOMAIN list /\ Modified(list[p])
  /\ IF p \in changed THEN UNCHANGED faults ELSE Fault
  /\ Done(p)
  /\ UNCHANGED <<spend, apiVars, cacheVars, step, copyVars, changed, sent, over,
                 staleReads, edits>>

ThrottleEnds ==
  /\ step = "throttle" /\ DOMAIN list = {}
  /\ copy' = [copy EXCEPT !.active = TRUE]
  /\ step' = "write"
  /\ UNCHANGED <<spend, apiVars, cacheVars, copyFresh, seen, listVars, sent, over, boundVars>>

\* Mutant: the new status does not preserve AlertsFired.
WriteStatusLosesAlerts ==
  /\ step = "write" /\ copyFresh
  /\ budget' = [budget EXCEPT !.fired = {}, !.active = copy.active, !.since = copy.since]
  /\ over' = IF Exceeded(seen) \/ Exceeded(spend) THEN over ELSE Never
  /\ cacheFresh' = FALSE
  /\ Return
  /\ UNCHANGED <<spend, policies, cached, sent, boundVars>>

\* Mutant: the status is written whatever the version of the copy.
WriteStatusAnyVersion ==
  /\ step = "write"
  /\ budget' = [budget EXCEPT !.fired = copy.fired, !.active = copy.active,
                              !.since = copy.since]
  /\ over' = IF Exceeded(seen) \/ Exceeded(spend) THEN over ELSE Never
  /\ cacheFresh' = FALSE
  /\ Return
  /\ UNCHANGED <<spend, policies, cached, sent, boundVars>>

\* Status().Update: the status is written, the spec stays.
WriteStatus ==
  /\ step = "write" /\ copyFresh
  /\ budget' = [budget EXCEPT !.fired = copy.fired, !.active = copy.active,
                              !.since = copy.since]
  /\ over' = IF Exceeded(seen) \/ Exceeded(spend) THEN over ELSE Never
  /\ cacheFresh' = FALSE
  /\ Return
  /\ UNCHANGED <<spend, policies, cached, sent, boundVars>>

\* A conflict, or a call that fails.
WriteStatusFails ==
  /\ step = "write"
  /\ IF copyFresh THEN Fault ELSE UNCHANGED faults
  /\ Return
  /\ UNCHANGED <<spend, apiVars, cacheVars, sent, over, staleReads, edits>>

\* What was sent and throttled is not recorded.  A new process fills its
\* cache before it reconciles.
Restart ==
  /\ Fault
  /\ cached' = budget /\ cacheFresh' = TRUE
  /\ Return
  /\ UNCHANGED <<spend, apiVars, sent, over, staleReads, edits>>

-----------------------------------------------------------------------------
(* Informer, users, time.                                                  *)

CacheSync ==
  /\ ~cacheFresh
  /\ cached' = budget /\ cacheFresh' = TRUE
  /\ UNCHANGED <<spend, apiVars, step, copyVars, listVars, sent, over, boundVars>>

SpendChanges ==
  /\ spend' \in Spends \ {spend}
  /\ over' = IF over = Never /\ Exceeded(spend') THEN 0 ELSE over
  /\ UNCHANGED <<apiVars, cacheVars, step, copyVars, listVars, sent, boundVars>>

Edit == edits < MaxEdits /\ edits' = edits + 1

\* An alert is acknowledged, the budget switched on or off, its action changed.
EditBudget ==
  /\ Edit
  /\ \/ \E a \in budget.fired : budget' = [budget EXCEPT !.fired = @ \ {a}]
     \/ budget' = [budget EXCEPT !.enabled = ~@]
     \/ \E m \in Modes \ {budget.mode} : budget' = [budget EXCEPT !.mode = m]
  /\ cacheFresh' = FALSE /\ copyFresh' = FALSE
  /\ UNCHANGED <<spend, policies, cached, step, copy, seen, listVars, sent, over,
                 staleReads, faults>>

EditPolicy(p) ==
  /\ Edit
  /\ \E i \in Pool, size \in Sizes :
       /\ size # policies[p][i]
       /\ policies' = [policies EXCEPT ![p][i] = size]
  /\ changed' = changed \cup (DOMAIN list \cap {p})
  /\ UNCHANGED <<spend, budget, cacheVars, step, copyVars, list, sent, over,
                 staleReads, faults>>

Older(age) == IF age = Never \/ age = GracePeriod THEN age ELSE age + 1

Tick ==
  /\ budget' = [budget EXCEPT !.since = Older(@)]
  /\ cached' = [cached EXCEPT !.since = Older(@)]
  /\ copy' = [copy EXCEPT !.since = Older(@)]
  /\ over' = Older(over)
  /\ UNCHANGED <<spend, policies, cacheFresh, step, copyFresh, seen, listVars, sent,
                 boundVars>>

Enforce ==
  \/ LiftEnforcement \/ EnforceNothing \/ AlertOrBlock
  \/ ListPolicies \/ ListPoliciesFails \/ ThrottleEnds
  \/ \E p \in Policy : UpdatePolicy(p) \/ SkipPolicy(p) \/ UpdatePolicyFails(p)

Reconcile ==
  \/ Get \/ UpdateBudgetStatus \/ UpdateBudgetStatusFails \/ CheckAlerts
  \/ Enforce \/ WriteStatus \/ WriteStatusFails

Users == EditBudget \/ \E p \in Policy : EditPolicy(p)

Next == Reconcile \/ Restart \/ CacheSync \/ SpendChanges \/ Users \/ Tick

\* controller-runtime calls Reconcile again and again and the informer
\* catches up; nobody has to spend or to edit anything.
Fairness == WF_vars(Reconcile) /\ WF_vars(CacheSync) /\ WF_vars(Tick)

Spec == Init /\ [][Next]_vars /\ Fairness

-----------------------------------------------------------------------------
(* Refinement.                                                             *)

\* How far the pass has come.  Where it will write the status it has decided.
Stage ==
  CASE step = "idle" -> "rest"
    [] step = "status" -> "read"
    [] step = "alerts" -> "judged"
    [] step = "enforce" -> "alerted"
    [] step = "throttle" -> "throttling"
    [] step = "write" -> IF copy.active THEN "enforced" ELSE "forgone"

Promise == INSTANCE BudgetPromise WITH
  mode <- budget.mode, fired <- budget.fired, active <- budget.active,
  stage <- Stage, doubtful <- step # "idle" /\ ~copyFresh, judged <- seen,
  left <- IF step = "throttle" THEN DOMAIN list ELSE {}

\* A pass whose copy has the budget's version does what it would do with the
\* budget itself, and a pass whose copy has not leaves no trace in the budget,
\* whenever the cache lags, users edit, calls fail and the process restarts
\* (Reconcile, with the API server's check of the version).
ImplementsPromise == Promise!Spec

-----------------------------------------------------------------------------
(* Properties.                                                             *)

\* An alert goes out once, and once more only for each thing that may come
\* between sending and recording it: a user's edit (which may acknowledge the
\* alert, or make the status update conflict), a failed call or a restart, a
\* read from a cache that lags (checkAlerts looks at AlertsFired in its copy).
AlertSentOnce ==
  \A a \in Alert : sent[a] <= 1 + edits + faults + staleReads

\* Policies are shrunk and enforcement is marked active only after the limit
\* has been reached for the whole grace period, counted afresh once a status
\* has said otherwise.  A budget read out of date may shrink policies too
\* early, but never has enforcement marked active (enforceBudget,
\* getExceededTime, the conflict of the status update).
GraceIsGiven ==
  [][ /\ ~budget.active /\ budget'.active => over = GracePeriod
      /\ policies' # policies /\ edits' = edits
           => staleReads > 0 \/ over = GracePeriod ]_vars

\* Before a policy is shrunk or enforcement is marked active every alert has been
\* sent once at least, whatever copies of the budget said was sent, and
\* although a user may acknowledge an alert while Reconcile runs (checkAlerts
\* comes before enforceBudget, on the same copy).
AlertsComeFirst ==
  [][ \/ ~budget.active /\ budget'.active
      \/ policies' # policies /\ edits' = edits
      => \A a \in Alert : sent[a] > 0 ]_vars

\* A policy that still allows more spot nodes than MaxSpotInstances.  A pool
\* whose maximum was 0 from the start is another matter: it is at the default
\* once its policy is written.
Unthrottled(p) ==
  \E i \in SpotPools : InitialSizes[p][i].max # 0 /\ policies[p][i].max > MaxSpotInstances

\* When the budget comes to say that throttling is in effect, every policy of
\* its scope is throttled, but for one per failed call or restart and one per
\* edit: a refused policy is passed over for good, but it alone, and neither a
\* pass broken off nor one on an old copy of the budget makes a later pass miss
\* another (throttleResources, enforceBudget, the status update).  For a limit
\* of 0 and for BlockSpotCreation see SpotCreationIsBlocked.
ThrottlingIsComplete ==
  [][ /\ MaxSpotInstances \notin {0, Never} /\ ~BlockSpotCreation
      /\ ~budget.active /\ budget'.active /\ budget.mode = "throttle"
      => Cardinality({p \in InScope : Unthrottled(p)}) <= edits + faults ]_vars

\* The controller touches spot pools of policies in its scope only, and only
\* shrinks them; what a user changes while it works it never overwrites
\* (throttleResources writes whole objects from a list).  The exception is a
\* pool written with a maximum of 0, which gets the default instead.
OnlySpotShrinks ==
  [][ edits' = edits =>
        \A p \in Policy, i \in Pool :
          \/ policies'[p][i] = policies[p][i]
          \/ /\ IsInBudgetScope(p) /\ i \in SpotPools
             /\ policies'[p][i].min <= policies[p][i].min
             /\ policies'[p][i].max <= policies[p][i].max
          \/ /\ IsInBudgetScope(p) /\ ThrottledPool(i, policies[p][i]).max = 0
             /\ policies'[p][i].max = DefaultMaxSize ]_vars

OverLimit == budget.enabled /\ Exceeded(spend)
WithinLimit == budget.enabled /\ ~Exceeded(spend)

\* If the limit stays exceeded, enforcement becomes and stays active; if it
\* stays kept, enforcement becomes and stays inactive; whatever was edited,
\* failed or was restarted before (Reconcile, enforceBudget).
EnforcementFollowsSpend ==
  /\ <>[](OverLimit /\ budget.mode # "none") => <>[] budget.active
  /\ <>[]WithinLimit => <>[] ~budget.active

Reaches(a) == budget.enabled /\ PercentageAtLeast(spend, Threshold[a])

\* If the spend stays at an alert's threshold or above, the alert is sent
\* (checkAlerts).
AlertsAreSent ==
  \A a \in Alert :
    <>[]Reaches(a) => <>(sent[a] > 0)

\* What the comment on ThrottleConfig says, "BlockSpotCreation prevents new
\* spot instance launches": throttled policies let no spot node be added, if
\* nothing failed and nobody edited anything.
SpotCreationIsBlocked ==
  /\ BlockSpotCreation /\ edits = 0 /\ faults = 0
  /\ budget.active /\ budget.mode = "throttle"
  => \A p \in InScope, i \in SpotPools : policies[p][i].max = 0
=============================================================================
