------------------------------ MODULE CostTracker ------------------------------
(***************************************************************************)
(* The cost tracker, pkg/cost/tracker.go, and the table cost_data it       *)
(* writes (pkg/cost/timescaledb.go).                                       *)
(*                                                                         *)
(* Every Interval the tracker lists the running GPU pods and goes through  *)
(* the list: it adds the cost of the time since the last pass to a pod's   *)
(* cache entry, or makes an entry for a new pod, and inserts the           *)
(* cumulative cost as a row.  Then it forgets the pods it did not see.     *)
(* Pods begin and end, calls fail and the process restarts between any two *)
(* steps.  The cache is keyed by namespace and name: a pod recreated under *)
(* its name is taken for the one before.                                   *)
(*                                                                         *)
(* Calls take no time: a pass is over within the tick it begins in.  What  *)
(* a pod costs an hour (module Pricing) is a constant here.                *)
(***************************************************************************)
EXTENDS Integers, Sequences, FiniteSets

CONSTANTS
  Key,        \* namespaced pod names
  Kind,       \* what the tracker bills by: a pod's requests and labels, its node
  Shapes,     \* the kinds a pod of each name may have
  Rate,       \* HourlyRate of each kind
  Counted,    \* the kinds of which getGPUCount counts a GPU
  Interval,   \* of the ticker, in ticks
  Never,      \* the end of a pod that runs
  MaxTime, MaxLives, MaxFaults    \* bounds

ASSUME TrackerAssumption ==
  /\ Shapes \in [Key -> SUBSET Kind]
  /\ Rate \in [Kind -> Nat]
  /\ Counted \subseteq Kind
  /\ Interval \in Nat \ {0}
  /\ Never \notin Nat

ASSUME TrackerBounds == {MaxTime, MaxLives, MaxFaults} \subseteq Nat

VARIABLES
  now,        \* the time
  lives,      \* every GPU pod that has run so far, in order; a pod is its index
  cache,      \* podCostCache
  rows,       \* cost_data
  (* updateCosts *)
  pass,       \* "idle" or "update"
  todo,       \* the listed pods still to be updated
  active,     \* activePods
  sinceTick,  \* ticks since the ticker fired or the process started
  (* observation only *)
  merged,     \* pods whose cost was added to an earlier one's of that name
  faults      \* failed calls and restarts

passVars == <<pass, todo, active, sinceTick>>
vars == <<now, lives, cache, rows, passVars, merged, faults>>

Pods == [key : Key, kind : Kind, start : Nat, end : Nat \cup {Never}]

\* PodCost: the pod it was made for (an observation), when that started, its
\* rate, the cumulative cost and LastUpdated.  The rest follows from the pod.
PodCosts == [pod : Nat, start : Nat, rate : Nat, total : Nat, updated : Nat]

Rows == [key : Key, pod : Nat, time : Nat, total : Nat, rate : Nat]

TypeOK ==
  /\ now \in 0..MaxTime
  /\ lives \in Seq(Pods)
  /\ DOMAIN cache \subseteq Key
  /\ \A k \in DOMAIN cache : cache[k] \in PodCosts
  /\ rows \subseteq Rows
  /\ pass \in {"idle", "update"}
  /\ todo \subseteq DOMAIN lives
  /\ active \subseteq Key
  /\ sinceTick \in 0..Interval
  /\ merged \subseteq DOMAIN lives
  /\ faults \in 0..MaxFaults

NoCache == [k \in {} |-> 0]

Init ==
  /\ now = 0
  /\ lives = <<>>
  /\ cache = NoCache /\ rows = {}
  /\ pass = "idle" /\ todo = {} /\ active = {} /\ sinceTick = 0
  /\ merged = {} /\ faults = 0

Running == {l \in DOMAIN lives : lives[l].end = Never}

Fault == faults < MaxFaults /\ faults' = faults + 1

-----------------------------------------------------------------------------
(* updateCosts.                                                            *)

\* Pods().List: the running pods, at the moment of the call.
ListPods ==
  /\ pass = "idle" /\ sinceTick = Interval
  /\ pass' = "update" /\ todo' = Running /\ active' = {}
  /\ sinceTick' = 0
  /\ UNCHANGED <<now, lives, cache, rows, merged, faults>>

ListPodsFails ==
  /\ pass = "idle" /\ sinceTick = Interval
  /\ Fault
  /\ sinceTick' = 0
  /\ UNCHANGED <<now, lives, cache, rows, pass, todo, active, merged>>

\* The pod counts as active before its cost is known.  What is done for one
\* pod of the list does not touch another: any order will do.
Visit(l) ==
  /\ pass = "update" /\ l \in todo /\ \A m \in todo : l <= m
  /\ todo' = todo \ {l}
  /\ active' = active \cup {lives[l].key}
  /\ UNCHANGED <<now, lives, pass, sinceTick>>

\* InsertCostDataPoint.  A row of the same time, pod name and namespace keeps
\* its other columns.
Upserted(k, e) ==
  LET same == {r \in rows : r.key = k /\ r.time = e.updated} IN
  (rows \ same) \cup
    IF same = {}
    THEN {[key |-> k, pod |-> e.pod, time |-> e.updated, total |-> e.total, rate |-> e.rate]}
    ELSE {[r EXCEPT !.total = e.total, !.rate = e.rate] : r \in same}

\* The entry is kept even if its row cannot be inserted.
Store(k, e) ==
  /\ cache' = [j \in DOMAIN cache \cup {k} |-> IF j = k THEN e ELSE cache[j]]
  /\ \/ rows' = Upserted(k, e) /\ UNCHANGED faults
     \/ Fault /\ UNCHANGED rows

\* Mutant: LastUpdated is not moved on.
UpdateCachedKeepsTime(l) ==
  LET k == lives[l].key IN
  /\ Visit(l) /\ k \in DOMAIN cache
  /\ Store(k, [cache[k] EXCEPT !.total = @ + cache[k].rate * (now - cache[k].updated)])
  /\ merged' = IF cache[k].pod = l THEN merged ELSE merged \cup {l}

\* Mutant: the time elapsed is taken with the wrong sign.
UpdateCachedUntil(l) ==
  LET k == lives[l].key IN
  /\ Visit(l) /\ k \in DOMAIN cache
  /\ Store(k, [cache[k] EXCEPT !.total = @ + cache[k].rate * (cache[k].updated - now),
                               !.updated = now])
  /\ merged' = IF cache[k].pod = l THEN merged ELSE merged \cup {l}

\* The rate and the labels stay those of the pod the entry was made for.
UpdateCached(l) ==
  LET k == lives[l].key IN
  /\ Visit(l) /\ k \in DOMAIN cache
  /\ Store(k, [cache[k] EXCEPT !.total = @ + cache[k].rate * (now - cache[k].updated),
                               !.updated = now])
  /\ merged' = IF cache[k].pod = l THEN merged ELSE merged \cup {l}

\* Mutant: a new pod is billed from the moment it is first seen.
UpdateNewFromNow(l) ==
  LET k == lives[l].key
      rate == Rate[lives[l].kind] IN
  /\ Visit(l) /\ k \notin DOMAIN cache
  /\ lives[l].kind \in Counted
  /\ Store(k, [pod |-> l, start |-> now, rate |-> rate, total |-> 0, updated |-> now])
  /\ UNCHANGED merged

\* A new pod is billed from its start.
UpdateNew(l) ==
  LET k == lives[l].key
      rate == Rate[lives[l].kind] IN
  /\ Visit(l) /\ k \notin DOMAIN cache
  /\ lives[l].kind \in Counted
  /\ Store(k, [pod |-> l, start |-> lives[l].start, rate |-> rate,
               total |-> rate * (now - lives[l].start), updated |-> now])
  /\ UNCHANGED merged

\* A pod of which no GPU is counted, or the node cannot be read.
CalculateFails(l) ==
  /\ Visit(l) /\ lives[l].key \notin DOMAIN cache
  /\ IF lives[l].kind \in Counted THEN Fault ELSE UNCHANGED faults
  /\ UNCHANGED <<cache, rows, merged>>

\* Mutant: entries of pods that were not seen are kept.
CleanupNothing ==
  /\ pass = "update" /\ todo = {}
  /\ pass' = "idle" /\ active' = {}
  /\ UNCHANGED <<now, lives, cache, rows, todo, sinceTick, merged, faults>>

Cleanup ==
  /\ pass = "update" /\ todo = {}
  /\ cache' = [k \in DOMAIN cache \cap active |-> cache[k]]
  /\ pass' = "idle" /\ active' = {}
  /\ UNCHANGED <<now, lives, rows, todo, sinceTick, merged, faults>>

\* Mutant: a new process updates at once, not after the first Interval.
RestartAtOnce ==
  /\ Fault
  /\ cache' = NoCache
  /\ pass' = "idle" /\ todo' = {} /\ active' = {} /\ sinceTick' = Interval
  /\ UNCHANGED <<now, lives, rows, merged>>

Restart ==
  /\ Fault
  /\ cache' = NoCache
  /\ pass' = "idle" /\ todo' = {} /\ active' = {} /\ sinceTick' = 0
  /\ UNCHANGED <<now, lives, rows, merged>>

UpdateCosts ==
  \/ ListPods \/ ListPodsFails \/ Cleanup
  \/ \E l \in todo : UpdateCached(l) \/ UpdateNew(l) \/ CalculateFails(l)

-----------------------------------------------------------------------------
(* The cluster and the clock.                                              *)

Begin(k, kind) ==
  /\ kind \in Shapes[k]
  /\ Len(lives) < MaxLives
  /\ \A l \in Running : lives[l].key # k
  /\ lives' = Append(lives, [key |-> k, kind |-> kind, start |-> now, end |-> Never])
  /\ UNCHANGED <<now, cache, rows, passVars, merged, faults>>

End(l) ==
  /\ l \in Running
  /\ lives' = [lives EXCEPT ![l].end = now]
  /\ UNCHANGED <<now, cache, rows, passVars, merged, faults>>

Tick ==
  /\ pass = "idle" /\ sinceTick < Interval /\ now < MaxTime
  /\ now' = now + 1 /\ sinceTick' = sinceTick + 1
  /\ UNCHANGED <<lives, cache, rows, pass, todo, active, merged, faults>>

Next ==
  \/ UpdateCosts \/ Restart \/ Tick
  \/ \E k \in Key, kind \in Kind : Begin(k, kind)
  \/ \E l \in DOMAIN lives : End(l)

Spec == Init /\ [][Next]_vars

-----------------------------------------------------------------------------
(* Refinement.                                                             *)

Ledger == INSTANCE CostLedger

\* Whatever the tracker has lost or made anew, each of its steps adds at most
\* one exact reading to the table, of a name not read for an Interval, and
\* none writes a row over, although InsertCostDataPoint updates a row on
\* conflict.
ImplementsLedger == Ledger!Spec

-----------------------------------------------------------------------------
(* Properties.                                                             *)

\* What a pod has cost by the time t.
Owed(l, t) ==
  LET until == IF lives[l].end = Never \/ lives[l].end > t THEN t ELSE lives[l].end IN
  Rate[lives[l].kind] * (until - lives[l].start)

Patience == Interval * (1 + faults)

\* An entry holds the exact cost of one pod, from its start to the last
\* update: however often it was updated, dropped by a restart and made anew,
\* nothing is counted twice and no gap is left (calculatePodCost).
EntryIsExact ==
  \A k \in DOMAIN cache :
    LET e == cache[k]  pod == lives[e.pod] IN
    /\ e.pod \in DOMAIN lives
    /\ pod.key = k /\ pod.kind \in Counted
    /\ e.start = pod.start /\ e.rate = Rate[pod.kind]
    /\ e.total = e.rate * (e.updated - pod.start)

\* No entry grows old: it is updated once an Interval or dropped with its pod,
\* except that a failed list or a restart costs another Interval each
\* (updateCosts and its cleanup).
EntriesAreFresh ==
  \A k \in DOMAIN cache : now - cache[k].updated <= Patience

\* At most the last Interval of a pod's cost is missing from the table, one
\* more for each failed call or restart.  Not so for a pod that was taken for
\* an earlier one of its name, nor for one whose GPUs are not counted.
LossIsBounded ==
  \A l \in DOMAIN lives \ merged :
    lives[l].kind \in Counted =>
      LET bound == Rate[lives[l].kind] * Patience IN
      \/ Owed(l, now) <= bound
      \/ \E r \in rows : r.pod = l /\ Owed(l, now) - r.total <= bound
=============================================================================
