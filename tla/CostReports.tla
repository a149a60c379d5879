------------------------------ MODULE CostReports ------------------------------
(***************************************************************************)
(* What is read out of the cost tracker and the table cost_data: the       *)
(* queries of pkg/cost/timescaledb.go, the spend of a budget's scope       *)
(* (pkg/cost/budget_controller.go) and the status of a CostAttribution     *)
(* (pkg/cost/attribution_controller.go).                                   *)
(*                                                                         *)
(* Each report is computed in one go from the state it is read in.  The    *)
(* experiment, project, cost centre, labels and tags a scope may name      *)
(* select pods the way a team does.                                        *)
(***************************************************************************)
EXTENDS CostTracker, FiniteSetsExt

CONSTANTS
  TeamOf,      \* the label "team" of each kind, "" if it has none
  CapacityOf,  \* the capacity type of its node
  MonthStart   \* when the month began

ASSUME ReportAssumption == MonthStart \in Nat

KindOf(l) == lives[l].kind

-----------------------------------------------------------------------------
(* The store and the tracker's getters.                                    *)

Between(from, to) == {r \in rows : from <= r.time /\ r.time <= to}

SumOfTotals(samples) == SumFunction([r \in samples |-> r.total])

\* GetCostByNamespace: every sample counts with its cumulative cost.
CostByNamespace(ns, from, to) ==
  SumOfTotals({r \in Between(from, to) : r.key.ns = ns})

\* DISTINCT ON (pod_name, namespace) ... ORDER BY time DESC.
LatestOf(samples) ==
  {r \in samples : \A s \in samples : s.key = r.key => s.time <= r.time}

\* GetCostByTeam: the last sample of each name counts.
CostByTeam(team, from, to) ==
  SumOfTotals(LatestOf({r \in Between(from, to) : TeamOf[KindOf(r.pod)] = team}))

\* GetPodCost, 0 for a pod the tracker does not know.
CostOfPod(l) ==
  IF lives[l].key \in DOMAIN cache THEN cache[lives[l].key].total ELSE 0

CostOfPods(pods) == SumFunction([l \in pods |-> CostOfPod(l)])

-----------------------------------------------------------------------------
(* The budget controller.                                                  *)

\* A scope names namespaces and teams, as many as it likes of each.
ScopePods(scope) ==
  {l \in Running : /\ scope.namespaces = {} \/ lives[l].key.ns \in scope.namespaces
                   /\ scope.teams = {} \/ TeamOf[KindOf(l)] \in scope.teams}

\* Teams are looked at only if the scope names no namespace.
HistoricalSpend(scope, from, to) ==
  IF scope.namespaces # {}
  THEN SumFunction([ns \in scope.namespaces |-> CostByNamespace(ns, from, to)])
  ELSE SumFunction([team \in scope.teams |-> CostByTeam(team, from, to)])

LiveSpend(scope) == CostOfPods(ScopePods(scope))

\* Mutant: the rows are not cut off where the first running pod begins.
ScopeSpendUncut(scope) == HistoricalSpend(scope, MonthStart, now) + LiveSpend(scope)

\* Mutant: the running pods count only if none of them has a past.
ScopeSpendEitherOr(scope) ==
  LET starts == {lives[l].start : l \in ScopePods(scope)}
      history == HistoricalSpend(scope, MonthStart,
                                 IF starts = {} THEN now ELSE Min(starts)) IN
  IF history = 0 THEN LiveSpend(scope) ELSE history

\* calculateScopeSpend: rows from before the first running pod began, and what
\* the tracker holds of the running pods.
ScopeSpend(scope) ==
  LET starts == {lives[l].start : l \in ScopePods(scope)}
      history ==
        CASE starts = {} -> HistoricalSpend(scope, MonthStart, now)
          [] starts # {} /\ Min(starts) > MonthStart
               -> HistoricalSpend(scope, MonthStart, Min(starts))
          [] OTHER -> 0 IN
  history + LiveSpend(scope)

-----------------------------------------------------------------------------
(* The attribution controller.                                             *)

MatchingPods(spec) ==
  {l \in Running : /\ spec.namespace = "" \/ lives[l].key.ns = spec.namespace
                   /\ spec.team = "" \/ TeamOf[KindOf(l)] = spec.team}

KnownPods(spec) == {l \in MatchingPods(spec) : lives[l].key \in DOMAIN cache}

\* Mutant: the map is keyed by namespace.
PodCostsByNamespace(spec) ==
  LET known == KnownPods(spec) IN
  {of \in [{lives[l].key.ns : l \in known} -> known] :
     \A ns \in DOMAIN of : lives[of[ns]].key.ns = ns}

\* The map podCosts is keyed by the pod's bare name; of two pods of one name
\* the one listed last is in it.
PodCostsByName(spec) ==
  LET known == KnownPods(spec) IN
  {of \in [{lives[l].key.name : l \in known} -> known] :
     \A name \in DOMAIN of : lives[of[name]].key.name = name}

ByCapacityType(of, capacity) ==
  CostOfPods({l \in {of[name] : name \in DOMAIN of} : CapacityOf[KindOf(l)] = capacity})

\* From the table if a namespace or a team is named, the former first.
CostSince(spec, from) ==
  CASE spec.namespace # "" -> CostByNamespace(spec.namespace, from, now)
    [] spec.namespace = "" /\ spec.team # "" -> CostByTeam(spec.team, from, now)
    [] OTHER -> CostOfPods(KnownPods(spec))

AttributionStatus(spec) ==
  [TotalCost |-> CostOfPods(KnownPods(spec)),
   MonthlyCost |-> CostSince(spec, MonthStart),
   ActivePods |-> Cardinality(KnownPods(spec))]

-----------------------------------------------------------------------------
(* Properties.                                                             *)

OwedBy(pods) == SumFunction([l \in pods |-> Owed(l, now)])

OfTeam(team) == {l \in DOMAIN lives : TeamOf[KindOf(l)] = team}

Teams == {TeamOf[kind] : kind \in Kind} \ {""}

TeamScope(team) == [namespaces |-> {}, teams |-> {team}]
NamespaceScope(ns) == [namespaces |-> {ns}, teams |-> {}]
TeamSpec(team) == [namespace |-> "", team |-> team]

\* A running pod under the name of an earlier one whose entry is still there.
NameReused ==
  \E l \in Running : lives[l].key \in DOMAIN cache /\ cache[lives[l].key].pod # l

\* Neither a budget nor an attribution charges a team more than its pods have
\* cost: no pod is charged from the table and from the tracker ("to avoid
\* DB/tracker overlap", calculateScopeSpend), and no sample on top of an
\* earlier one.  A pod that runs into the month is charged from its start; a
\* pod recreated under its name within two passes may be charged twice.
SpendNotOverstated ==
  merged # {} \/ NameReused \/
    \A team \in Teams :
      LET charged == {l \in OfTeam(team) : lives[l].end = Never \/ lives[l].end >= MonthStart} IN
      /\ ScopeSpend(TeamScope(team)) <= OwedBy(charged)
      /\ AttributionStatus(TeamSpec(team)).MonthlyCost <= OwedBy(charged)

Due(l) == Rate[KindOf(l)] * Max({0, now - Interval - lives[l].start})

\* A budget charges its running pods for all but the last Interval at least,
\* unless a call failed or the process restarted: until the first pass of a
\* new process they are charged nothing at all.
RunningIsCharged ==
  faults > 0 \/ merged # {} \/ NameReused \/
    \A scope \in {NamespaceScope(k.ns) : k \in Key} \cup {TeamScope(t) : t \in Teams} :
      LET counted == {l \in ScopePods(scope) : KindOf(l) \in Counted} IN
      ScopeSpend(scope) >= SumFunction([l \in counted |-> Due(l)])

\* The breakdown of an attribution adds up to its total, unless pods of one
\* name in two namespaces share an entry of the breakdown
\* (updateAttributionStatus, buildDetailedBreakdown).
BreakdownAddsUp ==
  \A team \in Teams :
    LET spec == TeamSpec(team)
        known == KnownPods(spec)
        kinds == {CapacityOf[KindOf(l)] : l \in known} IN
    \/ \E l, m \in known : l # m /\ lives[l].key.name = lives[m].key.name
    \/ \A of \in PodCostsByName(spec) :
         SumFunction([capacity \in kinds |-> ByCapacityType(of, capacity)])
           = AttributionStatus(spec).TotalCost

\* What the comment on GetCostByNamespace says, "retrieves total cost for a
\* namespace in a time range": not more than its pods have cost.
NamespaceCostIsSpent ==
  \A ns \in {k.ns : k \in Key} :
    merged # {} \/
      CostByNamespace(ns, 0, now) <= OwedBy({l \in DOMAIN lives : lives[l].key.ns = ns})
=============================================================================
