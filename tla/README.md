# Verification of the GPU autoscaler

TLA+ specifications of the program in this repository, the configurations that
check them with TLC, and theorems proved with TLAPS. Paths are relative to the
repository's `src/`; line numbers of every definition are in `PROJECT.json`
under `map`.

## The system

| Component | State it keeps | Operations | Hard about it |
|---|---|---|---|
| autoscaler controller (`pkg/autoscaler/controller.go`) | times of the last scale-up and scale-down, in memory | `Reconcile`: analyze, then order one node or drain and remove several | a drain takes minutes; decisions are made on one list and carried out on another; the cooldowns are lost with the process |
| spot orchestrator (`spot_orchestrator.go`) | map of nodes being handled, no lock | monitor every 5 s; one eviction goroutine per node, three batches with pauses | goroutines share the map; entries left behind; pods deleted by name long after they were listed |
| predictive scaler (`predictive_scaler.go`) | week of utilization samples | similarity-weighted forecast, recommended nodes | arithmetic at week and day boundaries |
| cloud providers (`cloud_provider.go`, stubs per cloud) | machines | order, terminate, read spot notices | replies lost, orders pending |
| budget controller (`pkg/cost/budget_controller.go`) | status of each `CostBudget` | spend, alerts, throttling of autoscaling policies | side effects before the status update that remembers them |
| cost tracker, attribution, store (`pkg/cost`) | running cost per pod in memory, samples in a table | a pass over the running pods every minute; sums by namespace, team, capacity type | cumulative samples, pods between two passes, names used again, a cache lost with the process |
| pricing catalogue (`pkg/cost/pricing.go`) | tables of prices | the price of a GPU by provider, type, region and capacity type | machines with several GPUs, fallbacks under the wrong name |
| bin packing (`pkg/scheduler/binpacking.go`) | none | placement, consolidation | nodes and pods are listed one after the other; what counts as free |
| GPU sharing and webhook (`pkg/sharing`, `pkg/webhook`) | node labels, pod specs | choice of MIG profile, MPS, time slices | the search order of profiles, admission retried or unanswered |
| GPU controller and metrics collector (`pkg/controller`, `pkg/metrics`) | events | packing analysis, advice on wasted GPUs | which pod a GPU is held by, failed queries |
| ROI reports, command line, API types | none | print, serialise | none that a model reaches |

The controller reads nodes and pods from the API server and orders and
terminates machines through the `CloudProvider` interface. The scheduler binds
pods to the nodes that join. The spot orchestrator cordons and evicts on its
own, next to the controller. Budgets act on the `AutoscalingPolicy` objects
that describe its pools. `cmd/controller/main.go` starts the metrics collector
and the GPU controller; the other parts are libraries wired by whoever embeds
them. The cost tracker bills what the webhook and the scheduler made of a pod,
the budget and attribution controllers read the tracker and its table, and the
GPU controller runs the bin packing and advises on what the collector reports.

## Modules

`ScalingRules` holds the controller's arithmetic: target sizes, the share of
spot nodes, the choice of pool, the admissible choices of nodes to remove. Pure
operators, no state. `Smaller` and `Larger` are the two-argument `math.Min`
and `math.Max`.

`Autoscaler` is the controller in its cluster. One worker runs `Reconcile`;
`phase` says where it is, and `decision`, `todo`, `current`, `drainAge` are its
locals; `untried`, the nodes listed by `scaleDown` and not yet handed over nor
given up, only observes it, for `SpotGoesFirst`. The fields `lastScaleUpTime` and `lastScaleDownTime` are `sinceUp` and
`sinceDown`, ticks since that time, stopped at the cooldown they are compared
with; a new process has the zero time, which is a cooldown that is over.

| Code | Actions |
|---|---|
| `analyzeClusterState`, `applyPredictiveScaling` | `Analyze` |
| `scaleUp` | `ScaleUpSucceeds`, `ScaleUpFails`, `ScaleUpReplyLost` |
| `scaleDown`, list and selection | `SelectNodesToRemove`, `SelectNodesFails` |
| `drainNode` | `Cordon`, `CordonFails`, `Evict`, `Poll`, `DrainListFails`, `DrainTimesOut` |
| `scaleDown`, after each drain and at its end | `RemoveNode`, `RemoveNodeFails`, `ScaleDownReturns` |
| end of the process | `Restart` |
| cloud provider, machines | `Join`, `OrderGivenUp`, `Leave`, `Lose` |
| users, scheduler, kubelets | `Submit`, `Schedule`, `Bind`, `Start`, `Exit` |

Utilization enters as the outcome of the code's comparisons (`Metrics`): any
outcome at any time, so the properties do not depend on the scale of the
numbers. The prediction is any number up to `MaxRecommended`. The cordon and
the deletes are separate steps, since a binding that the scheduler decided on
before the cordon can arrive after the deletes.

`NodeLifecycle` is what the engine promises about each machine, seen from
outside: ordered within the limit (one machine more per forgotten order), joined
or given up, carrying pods only while it is ready, retired empty and above the
floor, gone. It knows nothing of decisions, cooldowns, cordons or drains.
`Autoscaler` implements it (`ImplementsLifecycle`): `stage` is `node`, `on` is
the machine of a pod from its binding to its exit (`BoundTo`), and the fault
counters are the same. An assumed pod is nowhere yet; that its binding never
reaches a retired machine is what the first poll after a tick is for, and what
the faulty `PollAtOnce` breaks.

`MCAutoscaler` gives it a few machines and pods. `AutoscalerProofs` and
`LifecycleProofs` hold its theorems.

`SpotOrchestrator` is the monitor and its eviction goroutines. `monitor`,
`todo`, `fresh`, `handled` are the progress of one pass over the spot nodes,
`warnings` is the map `terminationWarnings`, `runs` the eviction goroutines
with the pods each listed at its start. `ListSpotNodes` to `CheckEnds` are
`MonitorSpotInstances`, `checkSpotTerminations` and `handleSpotTermination`;
`ListPods` to `Cleanup` are `gracefullyEvictPods`. `MapRace` is the outcome the
Go runtime may give to unsynchronised use of the map: the process ends. `fresh`
says which listed copies are of a machine that is still there; an update of any
other is refused. Pod names are used again, as a StatefulSet's are. A batch of
deletes is one step; any part of it may fail. `MCSpot` gives it nodes and pods,
`SpotProofs` holds its theorems. Left out: the functions that only report or
advise (bids, placement, recommendations), and the annotations, which nothing
reads but a metric.

`BudgetController` is `Reconcile` for one `CostBudget`. `budget` and `policies`
are the objects in the API server, `cached` the informer's copy, `copy` the one
`Reconcile` works on and `seen` the spend it found; `list` are the policies
`throttleResources` has listed and not yet dealt with. Resource versions are
kept as the outcome of comparing them: `cacheFresh`, `copyFresh` and `changed`.
`since` is the age of `ExceededSince`, stopped at the grace period.

| Code | Actions |
|---|---|
| `Reconcile`: read, write, returns | `Get`, `WriteStatus`, `WriteStatusFails` |
| `updateBudgetStatus` | `UpdateBudgetStatus`, `UpdateBudgetStatusFails` |
| `checkAlerts` | `CheckAlerts` |
| `enforceBudget`, `blockNewPods` | `LiftEnforcement`, `EnforceNothing`, `AlertOrBlock`, `ThrottleEnds` |
| `throttleResources` | `ListPolicies`, `ListPoliciesFails`, `UpdatePolicy`, `SkipPolicy`, `UpdatePolicyFails` |
| end of the process | `Restart` |
| informer, users, spending, time | `CacheSync`, `EditBudget`, `EditPolicy`, `SpendChanges`, `Tick` |

The alerts kept are those fired and not acknowledged; the others are read only
by `getExceededTime`, and only without an `ExceededSince`, which an exceeded
budget always has at that point (`GraceInv`). `Stored` is the way of a policy
through JSON and the defaults of its type, which changes a maximum of 0. `NamespaceOf` a policy is empty, since
`AutoscalingPolicy` is a cluster-scoped type (`autoscalingpolicy_types.go:224`): a
budget for all namespaces has every policy in its scope, a budget for some has none
(`budget_controller.go:594-606`). Other fields with defaults (`enabled`) share that fate and are not modelled; neither
are the deletion of a budget, edits of its limit or its grace period, and the
copy of the status kept in the database. The spend is any amount here; how it is
computed is `CostReports`. `MCBudget` gives it alerts, policies and amounts;
`BudgetProofs` holds its theorems.

`BudgetPromise` is what the controller promises, seen from the objects in the API
server: it works as if each pass read the budget itself and nobody touched it until
the pass is over. It reads, judges the spend, sends the alerts reached and not
recorded, throttles the policies in scope one by one once the limit has been
reached for the grace period, and records all it found and did at once, or
nothing. A pass that works on anything else than the budget (`doubtful`) may alert
and throttle wrongly, and leaves no trace in it. Nothing is said of caches, copies,
versions or timestamps. `BudgetController` implements it (`ImplementsPromise`):
`Stage` says how far the pass has come, a pass is doubtful when `copyFresh` is
false, `judged` is `seen`, `left` the policies still on the list. What makes it
true is that the status update carries the resource version that was read, and
what a faulty `WriteStatusAnyVersion` breaks.

`Pricing` is the catalogue of `pricing.go` and what `calculatePodCost` makes of
it: tables as functions from regions and machines to prices, in whole eighths
of a thousandth of a dollar so that every division is exact; the machine a GPU
type stands for, the GPUs of a machine, fallback and estimates, the labels of a
node, the GPUs a pod is counted with, the factor of its sharing mode. Pure
operators. The hourly cache of prices is left out: the tables never change.

`CostTracker` is the tracker and the table `cost_data`. `lives` is every GPU pod
that has run, in order, and a pod is its index there: two pods may have one name
one after the other. `cache` is `podCostCache`, keyed by namespace and name;
`pass`, `todo`, `active` and `sinceTick` are the progress of `updateCosts`.

| Code | Actions |
|---|---|
| `updateCosts`, list | `ListPods`, `ListPodsFails` |
| `calculatePodCost` for one pod, `InsertCostDataPoint` | `UpdateCached`, `UpdateNew`, `CalculateFails` |
| end of `updateCosts` | `Cleanup` |
| end of the process | `Restart` |
| pods and time | `Begin`, `End`, `Tick` |

`merged` notes the pods that were taken for an earlier one of their name; their
cost went to the other's entry at the other's rate, and the properties about
amounts leave them out. A pass takes less than a tick.

`CostLedger` is what the table promises to those who add up its rows: pods begin
and end, and every reading added is exact, of a name not read for an interval, and
never rewritten, although `InsertCostDataPoint` is an upsert. `CostTracker`
implements it (`ImplementsLedger`); `now`, `lives` and `rows` are the same, and the
cache, the pass and the faults are not seen.

`CostReports` reads them: the queries by namespace and by team, the spend of a
budget's scope (rows from before the first running pod, the tracker for the
running ones), the status of an attribution with its breakdown. Each is one
expression of the state it is read in. `CostPrices` puts them together with
`Pricing`: a kind of pod is there a record of the pod, its node and its team, and
its rate what the catalogue asks for it (`AtPrices`). `MCCost` instantiates it, so
the rates of the run are those of the catalogue. `CostProofs` holds the theorems
about `CostTracker`, `ReportProofs` those about `CostReports` and `CostPrices`.

`GPUSharing` is the conversion of a pod to MIG, MPS or time slices and the
webhook that decides which. A container is a function from resources to
quantities, memory in KB, of which the search for a profile rounds down to MB
(`MB`, `mig.go:158`). Annotations and types are functions and members of small
sets. A pod may be submitted with shares of GPUs by name and with the documented
annotations. Each call of the webhook has a time out of `Times`, which it notes on
the pod it changes (`AsAdmitted`: what a pod may have become, answered or not).
`BinPacking` is `PackWorkloads` with its three strategies, its order (not
stable, so ties come in any order) and its two analyses, given a listing.

`Placement` composes them with the cluster and the GPU controller:

| Code | Actions |
|---|---|
| `Handle` of the webhook, answered or not | `Admit` |
| `EnableMPSOnNode`, `EnableTimeSlicingOnNode`, `ApplyMIGConfiguration` | `Prepare` |
| device plugin, scheduler, kubelet | `AdvertiseReplicas`, `Bind`, `Start`, `Age`, `Finish` |
| `getGPUNodes`, `getPendingGPUWorkloads`, `PackWorkloads` | `ListNodes`, `ListNodePods`, `ListFails`, `PackPending` |
| `RunBinPackingAnalysis` | `RunBinPackingAnalysis` |
| `Reconcile` of the GPU controller, `GetWasteMetrics` | `Reconcile` |

The pass lists the nodes and then the pods of one node after the other, with
anything else happening between two lists. `Billing` adds `Pricing`, so that
`RunningPodIsBilled` relates what the webhook made of a pod, and what the pod was
submitted with, to what the tracker counts of it. `MCPlacement` gives it nodes and
pods, `PlacementProofs` holds its theorems. Facts about the code the model keeps: the decoder of the
webhook is never injected and the timestamp it reads from the context is never
there, so an admission may end in a panic, and `failurePolicy: Ignore` lets the
pod in as it is; placements are kept by the bare name of a pod; packing ignores
selectors; a node may be listed with fewer than no free GPUs; the collector
takes the first GPU pod of a node to hold each of its GPUs and a failed memory
query for no use; making a node ready for time slices twice records the
multiplied capacity as the original one.

`Prediction` is the predictor: the samples of an update, the patterns it makes
of them, similarity, confidence, recommended nodes. Time is in hours. It is not
composed with `Autoscaler`, where a prediction is any number of nodes.
`MCPrediction` gives it one load.

`SumProofs` holds lemmas about sums of functions over finite sets, for
`ReportProofs` and `PlacementProofs`.

Every faulty form of an operation stands just before the operation it is a
form of, marked as such. It is used by no specification, only to show that a
property tells the two apart.

## What is checked

| Run | Properties | Shows |
|---|---|---|
| `autoscaler_safety` | `TypeOK`, `MaxNodesBound`, `MinNodesKept`, `RemovalIsGraceful`, `SpotGoesFirst`, `ImplementsLifecycle` | the node limits, the drain and the order of the tiers, whatever happens between two steps; the refinement |
| `autoscaler_liveness` | `ReconcileReturns`, `PendingIsServed` | the worker always comes back; a waiting pod gets a node unless the cluster is full |
| `spot_safety` | `TypeOK`, `OneRunPerNode` | no node is evicted twice at a time, under all faults and reused names |
| `spot_timing` | `DrainedInTime` | two minutes are enough to empty a node, despite one retried fault |
| `spot_conflict` | `CordonedInTime` (violated) | one refused update and a node is never cordoned |
| `spot_recreated` | `EvictsFromItsNode` (violated) | a pod that ended during the pauses, recreated under its name and running on another node, is deleted there |
| `budget` | `TypeOK`, `AlertSentOnce`, `ThrottlingIsComplete`, `GraceIsGiven`, `AlertsComeFirst`, `OnlySpotShrinks`, `ImplementsPromise`, `EnforcementFollowsSpend`, `AlertsAreSent` | alerts, grace period and throttling with a lagging cache, edits, refused writes and restarts between any two steps; the refinement |
| `budget_blocked` | `SpotCreationIsBlocked` (violated) | a blocked spot pool gets the default maximum of 100 |
| `cost` | `TypeOK`, `EntryIsExact`, `EntriesAreFresh`, `LossIsBounded`, `SpendNotOverstated`, `RunningIsCharged`, `BreakdownAddsUp`, `SpotIsCheaper`, `ImplementsLedger` | what is counted of every pod, and what budgets and attributions make of it, and that the table is a ledger, with pods that come and go, names used again, failed calls and restarts between two steps |
| `cost_namespace` | `NamespaceCostIsSpent` (violated) | cumulative samples are added up: a namespace has spent more than its pods |
| `placement` | `TypeOK`, `ProfileFits`, `AdmittedOnce`, `PlanFits`, `PriorityRespected`, `AnalysisIsSound`, `RunningPodIsBilled`, `AdviceIsEarned` | pods through admission, binding, billing and advice while a packing pass lists the cluster piece by piece |
| `prediction` | `BusyHourIsPredicted` (violated) | a week of hourly load teaches the predictor nothing |

The five violations are listed under `findings` with the sentence of the
documentation or the comment each contradicts.

Some facts came out of stating the properties. `MaxNodesBound` needs the term
for faults: a restart forgets the scale-up cooldown and a lost reply never
starts it, and since orders that have not joined are not counted, each such
fault can cost one machine beyond `maxNodes`. And it owes something to the
missing pool of a predictive override: an override is allowed with the cooldown
running or the cluster full, and would pass the limit if it could order. Nor
does a scale-down look at the nodes it removes: it picks them by type and list
order, busy ones included, and only the drain keeps that harmless.
`GraceIsGiven` needs its exception, for the policies only: a `Reconcile` that reads
the budget as it was before its own last write may find an `ExceededSince` that has
been dropped meanwhile, and throttle at once; the status update is then refused,
so enforcement is not marked active, but the policies stay throttled. And the
program never gives a throttled policy its sizes back, although enforcement is said
to be lifted; no run is about that, nothing in the code could make it otherwise.

The properties about cost carry their exceptions in their text, and each is a
fact about the code. A pod recreated under its name within two passes is charged
to the earlier pod's entry (`merged`). A pod that runs into the month is charged
from its start. After a restart a budget charges running pods nothing until the
first pass. Two pods of one name in two namespaces share an entry of the breakdown.
An AWS spot price that is not listed is estimated under the name of the machine,
for which there is no estimate. `AdviceIsEarned` holds only because of what it
excuses: a pod that uses all its GPUs is advised to share them if its node has
others.

### Disagreements no run is about

The model has each of these as the code has it. No property takes the code's side,
and a corrected program would still have the properties.

- Of the MIG devices the tracker bills `mig-1g.5gb` alone, by the equality of names
  in `tracker.go`; the comments at `tracker.go:364` and `:386` and
  `PR_6_SUMMARY.md:12` and `:111` say all profiles. `RunningPodIsBilled` asks nothing
  of a pod with another device but that it is not billed for more than it asked.
  And the tracker knows MPS replicas as `nvidia.com/gpu-shared`, where `mps.go` asks
  for `nvidia.com/gpu.shared`, to which only a request for less than one GPU comes.
- The autoscaler recognises no MIG pod, since it compares 11 characters of a name
  with a prefix of 15 (`controller.go:428`), although the comment there says "Check
  for MIG profiles". Machines are ordered for pods by GPU requests only.
- A container that asks for 0 GPUs is given one MIG device, which nobody asked for
  (the hypothesis `NoneAsksForZero`).
- `GetMIGProfile` is to "select smallest profile that satisfies requirements"
  (`mig.go:160`). It rounds the memory down to whole MB first, so the profile may
  have less than was asked for, by less than an MB; it takes the first that fits, so
  `2g.10gb` of the 40 GB card is chosen where `1g.10gb` of the other would do; and it
  compares compute units with whole GPUs. `ProfileFits` says what is left of the
  claim: enough units, enough memory but for the rounding, and no profile of the
  same card with fewer units has both.
- A second admission writes the time of optimization anew (`mutating_webhook.go:227`,
  `:250`, `:273`). `AdmittedOnce` says that nothing else changes.
- A budget for certain namespaces throttles nothing, since no policy is in any, and
  yet marks enforcement active, which `costbudget_types.go:158` says "indicates if
  enforcement actions are in effect". `ThrottlingIsComplete` is about the policies in
  scope, and the run's budget is one for all namespaces.

### Bounds

`autoscaler_safety`: one spot machine, four on-demand and one reserved, one
more than `MaxNodes = 5`, with `MinNodes = 4`: five listed nodes are the
fewest that can shrink (a fifth of fewer is no node), and the limits are one
step away in both directions. A spot machine and on-demand ones that are both to
be removed need `SpotPercentage` as low as 20. The scale-up cooldown of two ticks
outlasts the one tick an order takes, the scale-down cooldown of one the termination
that ends before the next tick; a drain of two ticks has a poll before its timeout, and
a pod has waited too long after a tick. One pod, one restart, one lost reply, one lost machine: enough for
each fault to meet each step, and for the three to combine.
`MaxRecommended = 6` lies above every target. The on-demand machines are
symmetric; the properties do not tell them apart.

`autoscaler_liveness`: no symmetry, no faults, five machines, `MinNodes = 0`,
delays of one tick or none.

`spot_timing`: the code's own figures in ticks of five seconds: pauses of 2,
grace of 6, a notice of 24. One spot and one other node, a low-priority and a
high-priority pod and one with an annotation the code does not know. The
property still holds with a notice of 21 ticks and fails with 20: a node needs
one tick to be noticed, four for its three batches, five more if a pod was
bound after the pods were listed, five more for the fault and six for the last
grace period. A notice of 30 seconds, which the documentation mentions for some
clouds, is too short even without a fault. `spot_safety`: two spot nodes,
delays of one tick, all faults, names reused.

`spot_conflict` is `spot_timing` with one refused update, `spot_recreated` with no
fault at all and the high-priority pod alone. `EvictsFromItsNode` is about a Delete
that reaches a pod bound to another node: the trace ends with one 20 seconds after
the listing.

`budget`: two alerts and two amounts, one below the limit and above the first
alert's threshold, one at the limit; two policies in the scope of a budget for all
namespaces, each with a spot pool and an on-demand pool, of which one is switched off
with a maximum of 0; one edit, one fault, one read of a cache out of date, a grace
period of one tick. Larger grace periods, more edits and policies with several spot
pools are left to the proofs.
`budget_blocked`: nothing fails and nothing is edited.

`cost`: three names, two of them one bare name in two namespaces; a training
pod on a spot node, an MPS pod and a MIG pod that is not counted, of one team.
Two pods run at most, an interval is two ticks, six ticks are three passes with
the month beginning between the first two, and two faults: two pods are the
fewest for a reused name, a shared breakdown entry or a double charge, and two
faults the fewest that add up in `LossIsBounded`. `cost_namespace`: one pod, no
fault. Deadlock is not checked in these two: time ends at `MaxTime`.

`placement`: nodes of one and two GPUs, one of which may be made ready for a
kind of sharing with two replicas; three pods, two of one bare name, two of which may
each be submitted in two ways. Between them the specifications lead to each sharing
mode and to none, by choice of the webhook and by annotation, to the smallest profile
and to another one; one asks for shares by name itself, one for a KB more than the
smallest profile has. The webhook is called at two times, which are symmetric. All
three strategies, all orders of nodes and of ties. `RunBinPackingAnalysis` follows
`PackPending` at once: the plan is logged and read by nobody. Deadlock is not
checked: every pod may have finished.

`prediction`: GPUs that are always at 90 percent, held by eight pods, for a week
and two hours, the time the lookback covers; time ends there.

### Fairness

`autoscaler_liveness`: weak fairness of the controller's own
steps: `Reconcile` is requeued after every return, and its calls return. A
scale-up that is possible again and again succeeds at some time (strong
fairness of `ScaleUpSucceeds`): the provider does not refuse for ever. Orders
are resolved, and not all of them given up. The scheduler takes a pod that fits
again and again. Time goes on. Nothing is assumed of the pods: a deleted one
may stay for ever, which is what `ReconcileReturns` is about. A list never has
to fail.

`budget`: weak fairness of `Reconcile`, which is requeued after every return
and whose calls return, of the informer and of time. Users need not edit
anything and the spend need not change; the properties speak of a spend that
stays. A fault is never owed, and their number is bounded.

`CostTracker`, `Placement` and `Prediction` state no fairness, and no liveness:
their bounds in time are `EntriesAreFresh` and `LossIsBounded`, which hold since
`Tick` waits for the pass that is due, as `Start`'s ticker and its one goroutine
justify for calls shorter than a tick.

### Assumptions about the surroundings

Lists show the current state: a cache that lags behind by less than a step. An
order joins or is given up within `JoinDelay < ScaleUpCooldown`, a terminated
node leaves the API within `LeaveDelay < ScaleDownCooldown` (the defaults are
three and ten minutes). A binding takes less than one tick, the five seconds
between two polls. A node holds one of the modelled pods. For the
spot orchestrator and the cost tracker, calls take less than one tick.

The lists of pods by `spec.nodeName` (`controller.go:635`,
`spot_orchestrator.go:137`, `binpacking.go:192`, `collector.go:256`) need an index
that no code here registers with the manager's cached client, which refuses them
without. The models are of a client that answers them; with one that refuses,
every drain is a `DrainListFails` and every packing pass a `ListFails`.

## What is proved

`AutoscalerProofs`, for every set of machines and pods, all limits, cooldowns
and numbers of faults, under the assumptions of the constants named
`LimitsAssumption`, `NodesAssumption`, `TimingAssumption`, `ScopeAssumption`:

- `TypeCorrect`: `Spec => []TypeOK`.
- `UpperLimit`: `Spec => []MaxNodesBound`.
- `LowerLimit`: `Spec => []MinNodesKept`.
- `GracefulRemoval`: `Spec => RemovalIsGraceful`.
- `SpotBeforeOnDemand`: `Spec => SpotGoesFirst`.

The limits are not inductive. `Inv` strengthens them with

- `OrdersInv`: an order is as old as the cooldown that runs, or is owed to a
  fault (`Uncovered`). When the cooldown is over every order would be older
  than it can be, so what is still on order then is at most the number of
  faults (`NothingCovered`), and the count of listed nodes the controller
  trusts is that much below the truth.
- `FloorInv`: a terminated node is at least as old as the scale-down cooldown,
  so none is left when the next scale-down is decided, and the nodes not picked
  for removal are enough. It says nothing after a restart.
- `DrainInv` and `HostInv`: the node in drain is cordoned, so nothing new is
  scheduled to it; once a tick has passed no binding is on its way; what the
  poll saw empty stays empty.
- `TierInv`: while an on-demand node is still to be removed, the ready spot nodes not
  yet tried are still to be removed too; while one is drained, none is. With the
  order of `todo` that gives `SpotGoesFirst`, whatever joins and is lost between.

`LifecycleProofs`, under the same assumptions:

- `Implements`: `Spec => ImplementsLifecycle`, that is `Lifecycle!Spec`.

Initial states map to initial states, and under `Inv` every step to one abstract
action or to a stutter. An order is below the limit by `OrdersInv`, a retirement
above the floor by `FloorInv`, and empty by `DrainInv`. One invariant is new:
`HostReady`, a machine that a pod is assumed or bound to is ready. It makes a
binding one to a ready machine, however late, and a retired machine one without
pods when it goes.

`BudgetProofs`, for all alerts, policies, pools, limits and grace periods, any
number of edits, faults and stale reads, under `BudgetAssumption`,
`PolicyAssumption` and `BudgetBounds`:

- `TypeCorrect`: `Spec => []TypeOK`.
- `AlertsNotRepeated`: `Spec => []AlertSentOnce`.
- `GraceAlwaysGiven`: `Spec => GraceIsGiven`.
- `AlertsAlwaysFirst`: `Spec => AlertsComeFirst`.
- `OnlySpotPoolsShrink`: `Spec => OnlySpotShrinks`.
- `ThrottlingCompletes`: `Spec => ThrottlingIsComplete`.
- `ControllerKeepsPromise`: `Spec => ImplementsPromise`, that is `Promise!Spec`.

Its `Inv` adds `CopyInv` (a copy that has the budget's version agrees with it up
to what `Reconcile` changed), `SentInv` (a copy out of date that may send an
alert again has been paid for by an edit or a stale read that has cost nothing
yet), `GraceInv` (no `ExceededSince`, recorded or about to be, is older than the
time the limit was reached), `AlertedInv` (what any copy knows as fired was sent;
past `checkAlerts` all the spend reaches was sent; only a spend over the limit
throttles or marks active) and `ListInv` (a listed policy nobody has written
since is as listed). `ThrottlingCompletes` adds `EffectInv`: while a pass is at the
policies, or about to record that it was, those it has missed number at most the
edits and faults so far. Missed is a policy dealt with that still allows too many
spot nodes, one written by others since it was listed, whose update will be
refused, and one with a pool a user set to 0 (`Zeroed`), which is back at the
default of 100 as soon as the policy is written for another pool's sake (`Stored`).
`AlertsAlwaysFirst` rests on the thresholds being percentages, 100 at
most: a spend over the limit reaches them all (`ExceedingReachesAll`).

`ControllerKeepsPromise` maps every step of the controller to a step of
`BudgetPromise` or to a stutter (a cache that catches up, time once the grace period
is over). A pass without doubt judges by what the budget says since its copy agrees
with it (`CopyInv`), waits since `ExceededSince` is no older than the excess
(`GraceInv`, `DueInTime`), and shrinks what the policies are now since a list
overtaken by an edit is refused (`ListInv`); `ModeInv` adds that what throttles has
the action "throttle". Any other pass is in doubt, and its write is refused.

`CostProofs`, for all names, kinds, rates, intervals, any number of pods and of
faults, under `TrackerAssumption` and `TrackerBounds`:

- `TypeCorrect`: `Spec => []TypeOK`.
- `EntriesExact`: `Spec => []EntryIsExact`.
- `EntriesFresh`: `Spec => []EntriesAreFresh`.
- `LossBounded`: `Spec => []LossIsBounded`.
- `TrackerImplementsLedger`: `Spec => ImplementsLedger`, that is `Ledger!Spec`.

Its `Inv` adds `TimeInv` (nothing is dated in the future), `KeysInv` (of the
running pods, and of those listed, no two have one name; what is listed and not
visited is not active), `EntryInv` (an entry is exact, and its pod was counted),
`FreshInv` (how old an entry may be, by whether a pass is going on and has come to
its name), `RowInv` (a row is what its pod had cost at its time; a row of the
present is of a name the pass has dealt with, so that no row is ever overwritten
by another pod's) and `LossInv` (a counted pod is covered: it is young, or has a
row that is, where what is young depends on the pass and grows by an interval
with each fault). The refinement adds `PassInv`, which relates a pass to the time
since the last one, so that no name is read twice in an interval; a pass that starts
with the process instead, as the faulty `RestartAtOnce` has it, breaks that.

`SpotProofs`, for all spot and other nodes, pods and labels, all periods and
any number of faults, under `SpotAssumption`:

- `TypeCorrect`: `Spec => []TypeOK`.
- `OneRun`: `Spec => []OneRunPerNode`.
- `RunsKnown`: `Spec => []RunsAreRecorded`.
- `DrainsInTime`: with one spot node and `Timely`, `Spec => []DrainedInTime`.
- `DrainsAllInTime`: with any number of them and `Timely`,
  `Spec /\ [][~MapRace]_vars => []DrainedInTime`.

That two goroutines do not drain the same node is not inductive: what keeps a
second one away is the entry in the map. `Inv` adds that no run outlives its
entry (`RunsAreRecorded`), and that between the entry and the start of the
goroutine the node has no run (`HandledIsFree`); then the entry a clean-up
removes is that of no other run.

`Timely` says that names are not reused, that no update and no listing of pods
fails, and that the notice lasts for `1 + 2*Pause + (MaxFaults + 1)*Lost +
HighGrace` ticks, where `Lost = 2*Pause + 1` is what a drain that comes to nothing
costs: 21 for the figures of `spot_timing`, the least with which TLC finds the
property to hold. The argument is a measure: for every pod on a machine under
notice, by how far the run that will delete it has come, `InTime` bounds the ticks
that may pass until it is gone or has had its grace, and adds a `Lost` for each
fault still to come; no step leaves more to do than ticks are left. `Orderly` says
what the measure needs to know of the order of things: what each batch leaves
behind, that a handled node is recorded, that the monitor's list is fresh, that a
node is cordoned before it is drained, and that a binding decided on before the
cordon arrives within a tick. The hypotheses are needed. A refused update leaves a
node uncordoned (`spot_conflict`), a failed listing of pods ends a run and leaves
its entry, so that the node is never handled again, and a reused name draws a
Delete to another node. `MapRace` ends the process without being counted as a
fault; with one node the goroutine it ends has only its clean-up ahead, with
several a clean-up of one node can cost another its drain.

`ReportProofs`, for all names, kinds, teams, rates and intervals, under the
assumptions of `CostTracker` and `ReportAssumption`:

- `SpendIsNotOverstated`: `Spec => []SpendNotOverstated`.
- `RunningPodsCharged`: `Spec => []RunningIsCharged`.
- `BreakdownsAddUp`: `Spec => []BreakdownAddsUp`.
- `SpotAlwaysCheaper`: with `AtPrices` and `FairlyPriced`,
  `Spec => []SpotIsCheaper`.

`ReportInvariance` adds two parts to the invariant of the tracker. `TableInv`: the
table has one row of a name and a time, and none of a time after its pod's end
unless a pod was taken for another. `TrackedInv`: while nothing has failed every
running pod that is counted has an entry or is younger than the pass. What a query
adds up is then one amount per pod at most, each at most the pod's cost, and the
sums compare term by term; that no pod is charged from the table and from the
tracker is the hard step. `SpotAlwaysCheaper` evaluates the catalogue: on AWS every
GPU of `us-east-1` costs less than half on a spot machine. Elsewhere no spot price
is listed and the estimate is the same for all; it is more than half of what
`t4`, `a10` and `l4` may cost there (in `us-west-2` it is more than the whole price
of a `g4dn.xlarge`), which `FairlyPriced` leaves out.

`PlacementProofs`, for all pods, nodes, specifications a user may submit, usages,
replicas and kinds of sharing enabled, under `PlacementAssumption`:

- `TypeCorrect`: `Spec => []TypeOK`.
- `AdmissionIsIdempotent`: `Spec => []AdmittedOnce`.
- `ProfilesFit`: `Spec => []ProfileFits`.
- `PlanAlwaysFits`: `Spec => []PlanFits`.
- `PriorityAlwaysRespected`: `Spec => []PriorityRespected`.
- `AnalysisAlwaysSound`: `Spec => []AnalysisIsSound`.
- `AdviceAlwaysEarned`: `Spec => AdviceIsEarned`.
- `RunningPodsBilled`: with `NoneAsksForZero`, `Spec => []RunningPodIsBilled`.

`PlacementInvariance` is the invariant behind them: every specification is one
that was submitted or what the webhook made of it (`CameInv`); what is bound to a
node and not finished fits on it (`CapacityInv`), since advertised replicas only
ever add to it; what a pass holds was true of nodes that have not shrunk and of
pods that had started and still hold what they held (`TodoInv`, `ListedInv`); the
plan is a packing of the listing (`PlanInv`). About packing there is an induction
over the workloads: after k of them the free GPUs of a node are the listed ones
less what the pods added ask for, and were enough (`Room`). An unplaced workload
found no room, and room only gets less, which gives `PriorityRespected`.

Three assumptions deserve a word. `PlacementAssumption` says that no node has as
many GPUs as `bestFitNode` starts its minimum with (999999), which would make it
refuse a node that fits. `AnalysisIsSound` excepts listings with an over-full
node, of which the fragmentation is no share. `NoneAsksForZero` says that a
container that asks for GPUs asks for at least one: of one that asks for none the
conversion makes one with a device, and the pod would be charged for more than it
asked for. `RunningPodsBilled` compares container by container what the tracker
counts with what was asked for: `DeviceCount` for what a conversion puts in place of
GPUs, `KeptCount` for what it leaves alone, shares asked for by name included.

`SumProofs` is what the last two modules rest on. The induction theorems of the
library take an operator as a parameter, which the provers cannot instantiate, but
that a strict subset order is well-founded is a theorem without one: a set of
counterexamples has a smallest. From it `SetInduction` and `NatSetInduction` state
induction with a set in the place of a predicate, and with them a sum, which the
community modules define by a recursive function that CHOOSE picks, is shown to
exist and to unfold: to be 0 on the empty set, to lose an element's value with the
element, to compare term by term, to add up with another, to add over disjoint sets, to follow an
injection, to be regrouped by a partition.

Each proof has one lemma per kind of step. The hypotheses on the constants of the
runs (`NoneAsksForZero`, `AtPrices`, `FairlyPriced`) are evaluated by TLC in
`MCPlacement` and `MCCost`.

Only model-checked: the liveness properties (`ReconcileReturns`, `PendingIsServed`,
`EnforcementFollowsSpend`, `AlertsAreSent`), since fairness needs ENABLED, and the
five violations, which are counterexamples. Every invariant, action property and
refinement that a passing run checks is also proved.

## Plan

All components that decide something are modelled, and every safety property,
action property and refinement of the runs is proved. What could still be stated:
an abstract packing (any placement that fits) which `BinPacking` implements, and an
eviction that promises each pod its grace, for the spot orchestrator, as
`NodeLifecycle`, `BudgetPromise` and `CostLedger` are for the other three.

## Not modelled

- The provider stubs per cloud: they log and return nil; the interface is
  modelled by what the controller makes of its replies.
- The ROI reports, the command line, the API types, generated code: they format
  or declare.
- What is only reported: estimates of savings, the checks of whether a workload
  suits MPS or time slices, `CalculateOptimalReplicas`,
  `ConvertFractionalGPURequest`, `GetPreWarmSchedule`, `AnalyzeBusyPeriods`, trends
  of attributions, savings and history in the store, the webhook's counters.
- `cmd/controller/main.go`, which starts the metrics collector and the GPU
  controller and registers neither the webhook nor the other controllers.
- Two numeric facts no property is about: on an empty cluster the spot share is
  0/0 and below no target (`controller.go:566`, modelled in `PreferSpot`), and the
  utilization is a percentage where its thresholds are fractions
  (`controller.go:448`; in the model any utilization is possible at any time).
