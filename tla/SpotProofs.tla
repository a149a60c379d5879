----------------------------- MODULE SpotProofs -----------------------------
(***************************************************************************)
(* What Spot_safety shows on a small instance of SpotOrchestrator, proved  *)
(* for every set of nodes and pods, every period and any number of faults; *)
(* and what Spot_timing shows of two minutes, proved of every notice that  *)
(* is long enough, which is computed.                                      *)
(***************************************************************************)
EXTENDS SpotOrchestrator, TLAPS

-----------------------------------------------------------------------------
(* Types.                                                                  *)

LEMMA AdvanceTyped ==
  ASSUME runs \subseteq Runs, NEW r \in runs,
         NEW step \in {"list", "low", "medium", "high", "cleanup"},
         NEW pause \in 0..Pause, Advance(r, step, pause)
  PROVE  runs' \subseteq Runs
BY DEF Advance, Runs

LEMMA DeleteNowTyped ==
  ASSUME TypeOK, NEW deleted, DeleteNow(deleted), alive' = alive
  PROVE  /\ pod' \in [Pod -> {"absent", "pending", "assumed", "running", "terminating"}]
         /\ host' \in [Pod -> alive' \cup {NoNode}]
         /\ dying' \in [Pod -> 0..HighGrace]
<1>1. 0 \in 0..HighGrace
  BY SpotAssumption
<1> QED
  BY <1>1 DEF TypeOK, DeleteNow

LEMMA StrikesTyped ==
  ASSUME TypeOK, NEW kind, Strikes(kind)
  PROVE  faults' \in 0..MaxFaults
BY SpotAssumption DEF TypeOK, Strikes

LEMMA DeletionsTyped ==
  ASSUME TypeOK, NEW batch, NEW deleted, Deletions(batch, deleted)
  PROVE  faults' \in 0..MaxFaults
BY StrikesTyped DEF TypeOK, Deletions

LEMMA TypeInit == Init => TypeOK
<1>1. 0 \in 0..NoticePeriod /\ 0 \in 0..HighGrace /\ 0 \in 0..MaxFaults
  BY SpotAssumption
<1> QED
  BY <1>1 DEF Init, TypeOK, Node

LEMMA TypeNext == TypeOK /\ [Next]_vars => TypeOK'
<1> SUFFICES ASSUME TypeOK, [Next]_vars PROVE TypeOK'
  OBVIOUS
<1> USE DEF TypeOK, clusterVars, podVars, monitorVars
<1>p. {NoticePeriod, Pause, HighGrace, 0} \subseteq Nat /\ 0 \in 0..Pause /\ Pause \in 0..Pause
  BY SpotAssumption
<1>1. CASE Monitor
  <2>1. CASE ListSpotNodes
    BY <2>1 DEF ListSpotNodes
  <2>2. CASE ListSpotNodesFails
    BY <2>2, StrikesTyped DEF ListSpotNodesFails
  <2>3. ASSUME NEW n \in SpotNodes, Pass(n) PROVE TypeOK'
    BY <2>3 DEF Pass
  <2>4. ASSUME NEW n \in SpotNodes, NoticeFails(n) PROVE TypeOK'
    BY <2>4, StrikesTyped DEF NoticeFails
  <2>5. ASSUME NEW n \in SpotNodes, RecordWarning(n) PROVE TypeOK'
    BY <2>5 DEF RecordWarning
  <2>6. CASE Annotate
    BY <2>6 DEF Annotate
  <2>7. CASE Cordon
    <3>1. [node |-> handled, step |-> "list", pods |-> {}, pause |-> 0] \in Runs
      BY <1>p, <2>7 DEF Cordon, Runs
    <3> QED
      BY <2>7, <3>1 DEF Cordon
  <2>8. CASE UpdateFails
    <3>1. faults' \in 0..MaxFaults
      BY <2>8, StrikesTyped DEF UpdateFails
    <3> QED
      BY <2>8, <3>1 DEF UpdateFails
  <2>9. CASE CheckEnds
    BY <2>9 DEF CheckEnds
  <2> QED
    BY <1>1, <2>1, <2>2, <2>3, <2>4, <2>5, <2>6, <2>7, <2>8, <2>9 DEF Monitor
<1>2. ASSUME NEW r \in runs, ListPods(r) PROVE TypeOK'
  <2>1. [r EXCEPT !.step = "low", !.pods = BoundPods(r.node)] \in Runs
    BY DEF Runs, BoundPods
  <2> QED
    BY <1>2, <2>1 DEF ListPods
<1>3. ASSUME NEW r \in runs, ListPodsFails(r) PROVE TypeOK'
  BY <1>3, StrikesTyped DEF ListPodsFails
<1>4. ASSUME NEW r \in runs, EvictLow(r) PROVE TypeOK'
  <2>1. PICK deleted : Deletions(Batch(r.pods, "low"), deleted) /\ DeleteNow(deleted)
    BY <1>4 DEF EvictLow
  <2>2. runs' \subseteq Runs
    BY <1>4, <1>p, AdvanceTyped DEF EvictLow
  <2>3. faults' \in 0..MaxFaults
    BY <2>1, DeletionsTyped
  <2> QED
    BY <1>4, <2>1, <2>2, <2>3, DeleteNowTyped DEF EvictLow
<1>5. ASSUME NEW r \in runs, EvictMedium(r) PROVE TypeOK'
  <2>1. PICK deleted : Deletions(Batch(r.pods, "medium"), deleted) /\ DeleteNow(deleted)
    BY <1>5 DEF EvictMedium
  <2>2. runs' \subseteq Runs
    BY <1>5, <1>p, AdvanceTyped DEF EvictMedium
  <2>3. faults' \in 0..MaxFaults
    BY <2>1, DeletionsTyped
  <2> QED
    BY <1>5, <2>1, <2>2, <2>3, DeleteNowTyped DEF EvictMedium
<1>6. ASSUME NEW r \in runs, EvictHigh(r) PROVE TypeOK'
  <2>1. PICK deleted \in SUBSET Batch(r.pods, "high") :
          /\ Deletions(Batch(r.pods, "high"), deleted)
          /\ LET bound == {p \in deleted : pod[p] \in {"running", "terminating"}} IN
             /\ pod' = [p \in Pod |-> IF p \in bound THEN "terminating"
                                      ELSE IF p \in deleted THEN "absent" ELSE pod[p]]
             /\ host' = [p \in Pod |-> IF p \in deleted \ bound THEN NoNode ELSE host[p]]
    BY <1>6 DEF EvictHigh
  <2>2. runs' \subseteq Runs
    BY <1>6, <1>p, AdvanceTyped DEF EvictHigh
  <2>3. faults' \in 0..MaxFaults
    BY <2>1, DeletionsTyped
  <2> QED
    BY <1>6, <2>1, <2>2, <2>3 DEF EvictHigh
<1>7. ASSUME NEW r \in runs, Cleanup(r) PROVE TypeOK'
  BY <1>7 DEF Cleanup
<1>8. ASSUME Restart \/ MapRace PROVE TypeOK'
  <2>1. faults' \in 0..MaxFaults
    BY <1>8, StrikesTyped DEF Restart, MapRace
  <2> QED
    BY <1>8, <2>1 DEF Restart, MapRace, Die
<1>9. ASSUME NEW n \in SpotNodes, GiveNotice(n) PROVE TypeOK'
  <2>1. NoticePeriod \in 0..NoticePeriod
    BY <1>p
  <2> QED
    BY <1>9, <2>1 DEF GiveNotice
<1>10. ASSUME NEW n \in SpotNodes, Reclaim(n) PROVE TypeOK'
  <2>1. 0 \in 0..HighGrace
    BY <1>p
  <2> QED
    BY <1>10, <2>1 DEF Reclaim
<1>11. ASSUME NEW n \in SpotNodes, Replace(n) PROVE TypeOK'
  BY <1>11 DEF Replace, Node
<1>12. ASSUME NEW p \in Pod, Submit(p) \/ Bind(p) PROVE TypeOK'
  BY <1>12 DEF Submit, Bind
<1>13. ASSUME NEW p \in Pod, Exit(p) PROVE TypeOK'
  <2>1. 0 \in 0..HighGrace
    BY <1>p
  <2> QED
    BY <1>13, <2>1 DEF Exit
<1>14. ASSUME NEW p \in Pod, NEW n \in Node, Schedule(p, n) PROVE TypeOK'
  BY <1>14 DEF Schedule
<1>15. CASE Tick
  <2>1. left' \in [Node -> 0..NoticePeriod]
    BY <1>15, <1>p DEF Tick
  <2>2. dying' \in [Pod -> 0..HighGrace]
    BY <1>15, <1>p DEF Tick
  <2>3. \A r \in runs : [r EXCEPT !.pause = @ - 1] \in Runs
    BY <1>15, <1>p DEF Tick, Runs
  <2> QED
    BY <1>15, <2>1, <2>2, <2>3 DEF Tick
<1>16. CASE UNCHANGED vars
  BY <1>16 DEF vars
<1> QED
  BY <1>1, <1>2, <1>3, <1>4, <1>5, <1>6, <1>7, <1>8, <1>9, <1>10, <1>11, <1>12, <1>13,
     <1>14, <1>15, <1>16
  DEF Next, Evict, Environment

\* Every value stays in its range: no node is cordoned and no pod placed that
\* is not there, and every run is about a spot node.
THEOREM TypeCorrect == Spec => []TypeOK
BY TypeInit, TypeNext, PTL DEF Spec

-----------------------------------------------------------------------------
(* One run per node.                                                       *)

\* The key of the map outlives every run about the node.
RunsAreRecorded == \A r \in runs : r.node \in warnings

\* Between the map entry and "go gracefullyEvictPods" the node has no run.
HandledIsFree ==
  monitor \in {"annotate", "cordon"} =>
    handled \in warnings /\ \A r \in runs : r.node # handled

\* OneRunPerNode is not inductive as it stands: a second run is kept away by
\* the entry, which is why no run may outlive its entry.
Inv == TypeOK /\ OneRunPerNode /\ RunsAreRecorded /\ HandledIsFree

\* A run that only moves on disturbs nothing.
LEMMA StepOfRun ==
  ASSUME Inv, NEW r \in runs, NEW s, s.node = r.node,
         runs' = (runs \ {r}) \cup {s},
         UNCHANGED <<warnings, monitor, handled>>
  PROVE  OneRunPerNode' /\ RunsAreRecorded' /\ HandledIsFree'
BY DEF Inv, OneRunPerNode, RunsAreRecorded, HandledIsFree

LEMMA AdvanceKeeps ==
  ASSUME Inv, NEW r \in runs, NEW step, NEW pause, Advance(r, step, pause),
         UNCHANGED <<warnings, monitor, handled>>
  PROVE  OneRunPerNode' /\ RunsAreRecorded' /\ HandledIsFree'
<1> DEFINE s == [r EXCEPT !.step = step, !.pause = pause]
<1>1. r \in Runs
  BY DEF Inv, TypeOK
<1>2. s.node = r.node
  BY <1>1 DEF Runs
<1>3. runs' = (runs \ {r}) \cup {s}
  BY DEF Advance
<1> HIDE DEF s
<1> QED
  BY <1>2, <1>3, StepOfRun

\* As does a step that leaves the process alone, or only looks on.
LEMMA SameRuns ==
  ASSUME Inv, UNCHANGED <<runs, warnings>>,
         monitor' \in {"annotate", "cordon"} =>
           monitor \in {"annotate", "cordon"} /\ handled' = handled
  PROVE  OneRunPerNode' /\ RunsAreRecorded' /\ HandledIsFree'
BY DEF Inv, OneRunPerNode, RunsAreRecorded, HandledIsFree

LEMMA InvNext == Inv /\ [Next]_vars => Inv'
<1> SUFFICES ASSUME Inv, [Next]_vars
             PROVE  OneRunPerNode' /\ RunsAreRecorded' /\ HandledIsFree'
  BY TypeNext DEF Inv
<1> DEFINE Goal == OneRunPerNode' /\ RunsAreRecorded' /\ HandledIsFree'
<1> USE DEF clusterVars, podVars, monitorVars
<1>1. CASE Monitor
  <2>1. ASSUME NEW n \in SpotNodes, RecordWarning(n) PROVE Goal
    BY <2>1 DEF RecordWarning, Inv, OneRunPerNode, RunsAreRecorded, HandledIsFree
  <2>2. CASE Cordon
    <3>1. PICK s : s.node = handled /\ runs' = runs \cup {s}
      BY <2>2 DEF Cordon
    <3>2. handled \in warnings /\ \A r \in runs : r.node # handled
      BY <2>2 DEF Cordon, Inv, HandledIsFree
    <3>3. UNCHANGED warnings /\ monitor' = "check"
      BY <2>2 DEF Cordon
    <3> QED
      BY <3>1, <3>2, <3>3 DEF Inv, OneRunPerNode, RunsAreRecorded, HandledIsFree
  <2>3. CASE Annotate
    BY <2>3, SameRuns DEF Annotate
  <2>4. CASE ListSpotNodes \/ ListSpotNodesFails \/ CheckEnds \/ UpdateFails
    BY <2>4, SameRuns DEF ListSpotNodes, ListSpotNodesFails, CheckEnds, UpdateFails
  <2>5. ASSUME NEW n \in SpotNodes, Pass(n) \/ NoticeFails(n) PROVE Goal
    BY <2>5, SameRuns DEF Pass, NoticeFails
  <2> QED
    BY <1>1, <2>1, <2>2, <2>3, <2>4, <2>5 DEF Monitor
<1>2. ASSUME NEW r \in runs, ListPods(r) PROVE Goal
  <2> DEFINE s == [r EXCEPT !.step = "low", !.pods = BoundPods(r.node)]
  <2>1. r \in Runs
    BY DEF Inv, TypeOK
  <2>2. s.node = r.node
    BY <2>1 DEF Runs
  <2>3. runs' = (runs \ {r}) \cup {s} /\ UNCHANGED <<warnings, monitor, handled>>
    BY <1>2 DEF ListPods
  <2> HIDE DEF s
  <2> QED
    BY <2>2, <2>3, StepOfRun
<1>3. ASSUME NEW r \in runs, ListPodsFails(r) PROVE Goal
  BY <1>3 DEF ListPodsFails, Inv, OneRunPerNode, RunsAreRecorded, HandledIsFree
<1>4. ASSUME NEW r \in runs, EvictLow(r) \/ EvictMedium(r) \/ EvictHigh(r) PROVE Goal
  BY <1>4, AdvanceKeeps DEF EvictLow, EvictMedium, EvictHigh
<1>5. ASSUME NEW r \in runs, Cleanup(r) PROVE Goal
  \* The entry that goes is that of no other run, and not of the handled node.
  BY <1>5 DEF Cleanup, Inv, OneRunPerNode, RunsAreRecorded, HandledIsFree
<1>6. ASSUME Restart \/ MapRace PROVE Goal
  BY <1>6 DEF Restart, MapRace, Die, OneRunPerNode, RunsAreRecorded, HandledIsFree
<1>7. ASSUME NEW n \in SpotNodes, GiveNotice(n) \/ Reclaim(n) \/ Replace(n) PROVE Goal
  BY <1>7, SameRuns DEF GiveNotice, Reclaim, Replace
<1>8. ASSUME NEW p \in Pod, Submit(p) \/ Bind(p) \/ Exit(p) PROVE Goal
  BY <1>8, SameRuns DEF Submit, Bind, Exit
<1>9. ASSUME NEW p \in Pod, NEW n \in Node, Schedule(p, n) PROVE Goal
  BY <1>9, SameRuns DEF Schedule
<1>10. CASE Tick
  <2>1. /\ runs' = {[r EXCEPT !.pause = @ - 1] : r \in runs}
        /\ monitor' = "list" /\ UNCHANGED warnings
    BY <1>10 DEF Tick
  <2>2. \A r \in runs : [r EXCEPT !.pause = @ - 1].node = r.node
    BY DEF Inv, TypeOK, Runs
  <2>3. \A s \in runs' : \E r \in runs : s = [r EXCEPT !.pause = @ - 1] /\ s.node = r.node
    BY <2>1, <2>2
  <2> QED
    BY <2>1, <2>3 DEF Inv, OneRunPerNode, RunsAreRecorded, HandledIsFree
<1>11. CASE UNCHANGED vars
  BY <1>11, SameRuns DEF vars
<1> QED
  BY <1>1, <1>2, <1>3, <1>4, <1>5, <1>6, <1>7, <1>8, <1>9, <1>10, <1>11
  DEF Next, Evict, Environment

LEMMA Invariance == Spec => []Inv
<1>1. Init => Inv
  BY TypeInit DEF Init, Inv, OneRunPerNode, RunsAreRecorded, HandledIsFree
<1> QED
  BY <1>1, InvNext, PTL DEF Spec

\* However often the notice is seen, and however the goroutines clean up, fail
\* or die, no node is drained by two goroutines at a time.
THEOREM OneRun == Spec => []OneRunPerNode
<1>1. Inv => OneRunPerNode
  BY DEF Inv
<1> QED
  BY <1>1, Invariance, PTL

\* The map has an entry for every node that is being drained, so the monitor
\* passes it over.
THEOREM RunsKnown == Spec => []RunsAreRecorded
<1>1. Inv => RunsAreRecorded
  BY DEF Inv
<1> QED
  BY <1>1, Invariance, PTL

-----------------------------------------------------------------------------
(* In time.                                                                *)
(*                                                                         *)
(* What a fault can cost is a drain from its start, and the tick that goes *)
(* by until the monitor comes around: the proof carries, for every machine *)
(* under notice, how many ticks each pod may still need at worst, and that *)
(* so many are left, the faults still to come included.                    *)

Lost == 2 * Pause + 1
Credit == (MaxFaults - faults) * Lost
Reserve == HighGrace + Credit

Priority(p) == EvictionPriority(Labels[p])
Known(p) == Priority(p) \in Priorities
Live(p) == pod[p] \in {"assumed", "running"}

\* From the start of a drain to the batch that has the pod.
Offset(p) ==
  CASE Priority(p) = "low" -> 0
    [] Priority(p) = "medium" -> Pause
    [] OTHER -> 2 * Pause

\* From now to the end of the drain.
Ahead(r) ==
  CASE r.step \in {"list", "low"} -> 2 * Pause
    [] r.step = "medium" -> r.pause + Pause
    [] OTHER -> r.pause

\* Whether the run has the pod on its list and its batch ahead.
Due(r, p) ==
  /\ p \in r.pods /\ pod[p] = "running"
  /\ \/ r.step = "low"
     \/ r.step = "medium" /\ Priority(p) # "low"
     \/ r.step = "high" /\ Priority(p) = "high"

\* A pod that is being bound while the pods are listed is missed.
Missed(p) == IF pod[p] = "assumed" THEN Lost ELSE 0

\* What is needed for a pod under a run about its node: the run's own batch, or
\* all of the next one.
NeedOfRun(r, p) ==
  IF r.step = "list" THEN Offset(p) + Missed(p)
  ELSE IF Due(r, p) THEN Ahead(r) - 2 * Pause + Offset(p)
  ELSE Ahead(r) + 1 + Offset(p)

\* Ticks until the monitor starts a run about a node that has none.
Wait(n) ==
  IF \/ monitor = "list"
     \/ monitor \in {"check", "annotate", "cordon"} /\ n \in todo
     \/ monitor \in {"annotate", "cordon"} /\ handled = n
  THEN 0 ELSE 1

Drained(n) == \E r \in runs : r.node = n

\* As long as a node is not cordoned, pods may still come to it.
OpenInTime(n) ==
  n \notin cordoned =>
    ~Drained(n) /\ left[n] >= Reserve + Wait(n) + 2 * Pause + Lost

PodInTime(n, p) ==
  host[p] = n /\ Live(p) /\ Known(p) =>
    /\ \A r \in runs : r.node = n => left[n] >= Reserve + NeedOfRun(r, p)
    /\ ~Drained(n) => left[n] >= Reserve + Wait(n) + Offset(p) + Missed(p)

GraceInTime(n, p) ==
  host[p] = n /\ pod[p] = "terminating" => dying[p] + left[n] >= HighGrace

InTime ==
  \A n \in notice :
    OpenInTime(n) /\ \A p \in Pod : PodInTime(n, p) /\ GraceInTime(n, p)

\* A run sleeps only before the second and the third batch.
SleepsBetween == \A r \in runs : r.step \in {"list", "low", "cleanup"} => r.pause = 0

\* The orchestrator leaves a machine alone until its notice.
UntouchedBefore ==
  \A n \in (alive \cap SpotNodes) \ notice :
    n \notin warnings /\ n \notin cordoned /\ (monitor \in {"annotate", "cordon"} => handled # n)

\* An entry is that of a node at work on.
RecordedIsDrained ==
  \A n \in warnings \cap notice :
    Drained(n) \/ (monitor \in {"annotate", "cordon"} /\ handled = n)

\* No machine has been changed since it was listed.
ListedIsFresh ==
  monitor \in {"check", "annotate", "cordon"} => alive \cap SpotNodes \subseteq fresh

DrainedIsCordoned == \A r \in runs : r.node \in alive => r.node \in cordoned

\* What is being bound to a drained node was assumed before the node was cordoned.
AssumedBefore ==
  \A p \in Pod, r \in runs :
    pod[p] = "assumed" /\ host[p] = r.node =>
      r.step \in {"list", "low"} \/ (r.step = "medium" /\ r.pause = Pause)

UnplacedHasNoHost == \A p \in Pod : pod[p] \in {"absent", "pending"} => host[p] = NoNode

Orderly ==
  /\ SleepsBetween /\ UntouchedBefore /\ RecordedIsDrained /\ ListedIsFresh
  /\ DrainedIsCordoned /\ AssumedBefore /\ UnplacedHasNoHost

TimeInv == Inv /\ Orderly /\ InTime

\* Machines do not take old names, no update and no listing of pods fails, and
\* the notice is long enough for a drain and one more for each fault.
Timely ==
  /\ ~NamesReused
  /\ FaultKinds \subseteq {"restart", "read", "delete"}
  /\ NoticePeriod >= 1 + 2 * Pause + (MaxFaults + 1) * Lost + HighGrace

LEMMA Numbers ==
  /\ Pause \in Nat /\ Pause > 0 /\ HighGrace \in Nat /\ HighGrace > 0
  /\ NoticePeriod \in Nat /\ MaxFaults \in Nat /\ Lost \in Nat /\ Lost > 0
  /\ Lost = 2 * Pause + 1
BY SpotAssumption DEF Lost

LEMMA CreditIs ==
  ASSUME TypeOK
  PROVE  Credit \in Nat
<1>1. MaxFaults - faults \in Nat /\ Lost \in Nat
  BY Numbers DEF TypeOK
<1> DEFINE d == MaxFaults - faults
<1>2. \A a, b \in Nat : a * b \in Nat
  OBVIOUS
<1> QED
  BY <1>1, <1>2 DEF Credit

\* A fault is paid for.
LEMMA CreditPaid ==
  ASSUME TypeOK, NEW kind, Strikes(kind)
  PROVE  Credit' = Credit - Lost
<1>1. \A m, f, c \in Nat : (m - (f + 1)) * c = (m - f) * c - c
  OBVIOUS
<1>2. MaxFaults \in Nat /\ faults \in Nat /\ Lost \in Nat /\ faults' = faults + 1 /\ Lost' = Lost
  BY Numbers DEF TypeOK, Strikes, Lost
<1> QED
  BY <1>1, <1>2 DEF Credit

LEMMA CreditKept == ASSUME UNCHANGED faults PROVE Credit' = Credit
BY DEF Credit, Lost

LEMMA OffsetIs ==
  ASSUME NEW p \in Pod
  PROVE  /\ Offset(p) \in 0..2 * Pause
         /\ Priority(p) = "low" => Offset(p) = 0
         /\ Priority(p) = "medium" => Offset(p) = Pause
         /\ Priority(p) = "high" => Offset(p) = 2 * Pause
BY Numbers DEF Offset

LEMMA RunIs ==
  ASSUME TypeOK, NEW r \in runs
  PROVE  r.node \in SpotNodes /\ r.pods \subseteq Pod /\ r.pause \in 0..Pause
         /\ r.step \in {"list", "low", "medium", "high", "cleanup"}
BY DEF TypeOK, Runs

LEMMA AheadIs ==
  ASSUME TypeOK, NEW r \in runs
  PROVE  Ahead(r) \in 0..2 * Pause
BY Numbers, RunIs DEF Ahead

\* No need is negative.
LEMMA NeedIs ==
  ASSUME TypeOK, NEW r \in runs, NEW p \in Pod, Known(p)
  PROVE  NeedOfRun(r, p) \in Nat
<1>1. Missed(p) \in Nat
  BY Numbers DEF Missed
<1>2. Due(r, p) /\ r.step # "list" => Ahead(r) - 2 * Pause + Offset(p) \in Nat
  BY Numbers, RunIs, OffsetIs DEF Due, Ahead, Known, Priorities
<1> QED
  BY <1>1, <1>2, AheadIs, OffsetIs, Numbers DEF NeedOfRun

-----------------------------------------------------------------------------
(* What keeps the work in order.                                           *)

LEMMA OrderlyInit == Init => Orderly
BY DEF Init, Orderly, SleepsBetween, UntouchedBefore, RecordedIsDrained, ListedIsFresh,
   DrainedIsCordoned, AssumedBefore, UnplacedHasNoHost

\* Of the runs, one only moves on; deleting pods assumes none.
LEMMA OrderlyAdvance ==
  ASSUME Inv, Orderly, NEW r \in runs, NEW s,
         runs' = (runs \ {r}) \cup {s}, s.node = r.node,
         s.step \in {"list", "low", "cleanup"} => s.pause = 0,
         s.step \notin {"list", "low"} =>
           \/ s.step = "medium" /\ s.pause = Pause
           \/ \A p \in Pod : ~(pod[p] = "assumed" /\ host[p] = r.node),
         \A p \in Pod : /\ pod'[p] = "assumed" => pod[p] = "assumed" /\ host'[p] = host[p]
                        /\ pod'[p] \in {"absent", "pending"} =>
                             host'[p] = NoNode,
         UNCHANGED <<alive, notice, left, cordoned, warnings, monitor, todo, fresh, handled>>
  PROVE  Orderly'
<1> USE DEF Orderly
<1>1. SleepsBetween'
  BY DEF SleepsBetween
<1>2. UntouchedBefore' /\ ListedIsFresh' /\ UnplacedHasNoHost'
  BY DEF UntouchedBefore, ListedIsFresh, UnplacedHasNoHost
<1>3. RecordedIsDrained'
  BY DEF RecordedIsDrained, Drained
<1>4. DrainedIsCordoned'
  BY DEF DrainedIsCordoned
<1>5. AssumedBefore'
  BY DEF AssumedBefore
<1> QED
  BY <1>1, <1>2, <1>3, <1>4, <1>5

\* The pods an eviction deletes at once.
LEMMA DeletedNow ==
  ASSUME TypeOK, Orderly, NEW deleted, DeleteNow(deleted)
  PROVE  \A p \in Pod : /\ pod'[p] = "assumed" => pod[p] = "assumed" /\ host'[p] = host[p]
                        /\ pod'[p] \in {"absent", "pending"} => host'[p] = NoNode
BY DEF TypeOK, DeleteNow, Orderly, UnplacedHasNoHost

LEMMA OrderlyNext ==
  ASSUME Timely, Inv, Orderly, [Next]_vars
  PROVE  Orderly'
<1> USE DEF clusterVars, podVars, monitorVars
<1>t. TypeOK /\ HandledIsFree /\ OneRunPerNode /\ RunsAreRecorded
  BY DEF Inv
<1>s. /\ SleepsBetween /\ UntouchedBefore /\ RecordedIsDrained /\ ListedIsFresh
      /\ DrainedIsCordoned /\ AssumedBefore /\ UnplacedHasNoHost
  BY DEF Orderly
<1>1. CASE ListSpotNodes
  BY <1>1, <1>s DEF ListSpotNodes, Orderly, SleepsBetween, UntouchedBefore, RecordedIsDrained,
     ListedIsFresh, DrainedIsCordoned, AssumedBefore, UnplacedHasNoHost, Drained
<1>2. CASE ListSpotNodesFails \/ CheckEnds
  BY <1>2, <1>s DEF ListSpotNodesFails, CheckEnds, Orderly, SleepsBetween, UntouchedBefore,
     RecordedIsDrained, ListedIsFresh, DrainedIsCordoned, AssumedBefore, UnplacedHasNoHost, Drained
<1>3. ASSUME NEW n \in SpotNodes, Pass(n) \/ NoticeFails(n) PROVE Orderly'
  BY <1>3, <1>s DEF Pass, NoticeFails, Orderly, SleepsBetween, UntouchedBefore,
     RecordedIsDrained, ListedIsFresh, DrainedIsCordoned, AssumedBefore, UnplacedHasNoHost, Drained
<1>4. ASSUME NEW n \in SpotNodes, RecordWarning(n) PROVE Orderly'
  BY <1>4, <1>s DEF RecordWarning, Orderly, SleepsBetween, UntouchedBefore,
     RecordedIsDrained, ListedIsFresh, DrainedIsCordoned, AssumedBefore, UnplacedHasNoHost, Drained
<1>5. CASE Annotate
  BY <1>5, <1>s DEF Annotate, Orderly, SleepsBetween, UntouchedBefore,
     RecordedIsDrained, ListedIsFresh, DrainedIsCordoned, AssumedBefore, UnplacedHasNoHost, Drained
<1>6. CASE Cordon
  <2> DEFINE s == [node |-> handled, step |-> "list", pods |-> {}, pause |-> 0]
  <2>1. /\ s.node = handled /\ s.step = "list" /\ s.pause = 0
        /\ runs' = runs \cup {s} /\ cordoned' = cordoned \cup {handled}
        /\ monitor = "cordon" /\ monitor' = "check"
        /\ UNCHANGED <<alive, notice, left, podVars, warnings, fresh, todo, faults>>
    BY <1>6 DEF Cordon
  <2> HIDE DEF s
  <2>2. SleepsBetween' /\ ListedIsFresh' /\ DrainedIsCordoned' /\ AssumedBefore' /\ UnplacedHasNoHost'
    BY <2>1, <1>s DEF SleepsBetween, ListedIsFresh, DrainedIsCordoned, AssumedBefore, UnplacedHasNoHost
  <2>3. UntouchedBefore' /\ RecordedIsDrained'
    BY <2>1, <1>s DEF UntouchedBefore, RecordedIsDrained, Drained
  <2> QED
    BY <2>2, <2>3 DEF Orderly
<1>7. CASE UpdateFails
  \* The copy is that of a machine that is gone.
  <2>1. handled \notin fresh
    BY <1>7 DEF UpdateFails, Timely, Strikes
  <2>2. handled \notin alive
    BY <1>7, <2>1, <1>s, <1>t DEF UpdateFails, ListedIsFresh, HandledIsFree, TypeOK
  <2>3. handled \notin notice
    BY <2>2, <1>t DEF TypeOK
  <2> QED
    BY <1>7, <2>2, <2>3, <1>s DEF UpdateFails, Orderly, SleepsBetween, UntouchedBefore,
       RecordedIsDrained, ListedIsFresh, DrainedIsCordoned, AssumedBefore, UnplacedHasNoHost, Drained
<1>8. ASSUME NEW r \in runs, ListPods(r) PROVE Orderly'
  <2> DEFINE s == [r EXCEPT !.step = "low", !.pods = BoundPods(r.node)]
  <2>1. r \in Runs /\ r.pause = 0
    BY <1>8, <1>t, <1>s DEF ListPods, TypeOK, SleepsBetween
  <2>2. s.node = r.node /\ s.step = "low" /\ s.pause = 0
    BY <2>1 DEF Runs
  <2>3. /\ runs' = (runs \ {r}) \cup {s}
        /\ UNCHANGED <<clusterVars, podVars, warnings, monitorVars, faults>>
    BY <1>8 DEF ListPods
  <2> HIDE DEF s
  <2>4. \A p \in Pod : /\ pod'[p] = "assumed" => pod[p] = "assumed" /\ host'[p] = host[p]
                       /\ pod'[p] \in {"absent", "pending"} => host'[p] = NoNode
    BY <2>3, <1>s DEF UnplacedHasNoHost
  <2> QED
    BY <2>2, <2>3, <2>4, OrderlyAdvance
<1>9. ASSUME NEW r \in runs, ListPodsFails(r) PROVE Orderly'
  BY <1>9 DEF ListPodsFails, Strikes, Timely
<1>10. ASSUME NEW r \in runs, EvictLow(r) PROVE Orderly'
  <2> DEFINE s == [r EXCEPT !.step = "medium", !.pause = Pause]
  <2>1. s.node = r.node /\ s.step = "medium" /\ s.pause = Pause
    BY <1>t DEF TypeOK, Runs
  <2>2. runs' = (runs \ {r}) \cup {s} /\ UNCHANGED <<clusterVars, warnings, monitorVars>>
    BY <1>10 DEF EvictLow, Advance
  <2> HIDE DEF s
  <2>3. PICK deleted : DeleteNow(deleted)
    BY <1>10 DEF EvictLow
  <2> QED
    BY <2>1, <2>2, <2>3, <1>t, DeletedNow, OrderlyAdvance
<1>11. ASSUME NEW r \in runs, EvictMedium(r) PROVE Orderly'
  <2> DEFINE s == [r EXCEPT !.step = "high", !.pause = Pause]
  <2>1. s.node = r.node /\ s.step = "high" /\ s.pause = Pause
    BY <1>t DEF TypeOK, Runs
  <2>2. runs' = (runs \ {r}) \cup {s} /\ UNCHANGED <<clusterVars, warnings, monitorVars>>
    BY <1>11 DEF EvictMedium, Advance
  <2> HIDE DEF s
  <2>3. PICK deleted : DeleteNow(deleted)
    BY <1>11 DEF EvictMedium
  <2>4. \A p \in Pod : ~(pod[p] = "assumed" /\ host[p] = r.node)
    BY <1>11, <1>s, Numbers DEF EvictMedium, AssumedBefore
  <2> QED
    BY <2>1, <2>2, <2>3, <2>4, <1>t, DeletedNow, OrderlyAdvance
<1>12. ASSUME NEW r \in runs, EvictHigh(r) PROVE Orderly'
  <2> DEFINE s == [r EXCEPT !.step = "cleanup", !.pause = 0]
  <2>1. s.node = r.node /\ s.step = "cleanup" /\ s.pause = 0
    BY <1>t DEF TypeOK, Runs
  <2>2. runs' = (runs \ {r}) \cup {s} /\ UNCHANGED <<clusterVars, warnings, monitorVars>>
    BY <1>12 DEF EvictHigh, Advance
  <2> HIDE DEF s
  <2>3. \A p \in Pod : /\ pod'[p] = "assumed" => pod[p] = "assumed" /\ host'[p] = host[p]
                       /\ pod'[p] \in {"absent", "pending"} => host'[p] = NoNode
    <3>1. PICK deleted \in SUBSET Batch(r.pods, "high") :
            LET bound == {p \in deleted : pod[p] \in {"running", "terminating"}} IN
            /\ pod' = [p \in Pod |-> IF p \in bound THEN "terminating"
                                     ELSE IF p \in deleted THEN "absent" ELSE pod[p]]
            /\ host' = [p \in Pod |-> IF p \in deleted \ bound THEN NoNode ELSE host[p]]
      BY <1>12 DEF EvictHigh
    <3> QED
      BY <3>1, <1>s DEF UnplacedHasNoHost
  <2>4. \A p \in Pod : ~(pod[p] = "assumed" /\ host[p] = r.node)
    BY <1>12, <1>s DEF EvictHigh, AssumedBefore
  <2> QED
    BY <2>1, <2>2, <2>3, <2>4, OrderlyAdvance
<1>13. ASSUME NEW r \in runs, Cleanup(r) PROVE Orderly'
  <2>1. \A q \in runs : q.node = r.node => q = r
    BY <1>t DEF OneRunPerNode
  <2> QED
    BY <1>13, <2>1, <1>s DEF Cleanup, Orderly, SleepsBetween, UntouchedBefore,
       RecordedIsDrained, ListedIsFresh, DrainedIsCordoned, AssumedBefore, UnplacedHasNoHost, Drained
<1>14. CASE Restart \/ MapRace
  BY <1>14, <1>s DEF Restart, MapRace, Die, Orderly, SleepsBetween, UntouchedBefore,
     RecordedIsDrained, ListedIsFresh, DrainedIsCordoned, AssumedBefore, UnplacedHasNoHost, Drained
<1>15. ASSUME NEW n \in SpotNodes, GiveNotice(n) PROVE Orderly'
  BY <1>15, <1>s DEF GiveNotice, Orderly, SleepsBetween, UntouchedBefore,
     RecordedIsDrained, ListedIsFresh, DrainedIsCordoned, AssumedBefore, UnplacedHasNoHost, Drained
<1>16. ASSUME NEW n \in SpotNodes, Reclaim(n) PROVE Orderly'
  <2>1. AssumedBefore' /\ UnplacedHasNoHost'
    BY <1>16, <1>s, <1>t DEF Reclaim, AssumedBefore, UnplacedHasNoHost, TypeOK
  <2> QED
    BY <1>16, <2>1, <1>s DEF Reclaim, Orderly, SleepsBetween, UntouchedBefore,
       RecordedIsDrained, ListedIsFresh, DrainedIsCordoned, Drained
<1>17. ASSUME NEW n \in SpotNodes, Replace(n) PROVE Orderly'
  BY <1>17 DEF Replace, Timely
<1>18. ASSUME NEW p \in Pod, Submit(p) \/ Bind(p) \/ Exit(p) PROVE Orderly'
  <2>1. AssumedBefore' /\ UnplacedHasNoHost'
    BY <1>18, <1>s, <1>t DEF Submit, Bind, Exit, AssumedBefore, UnplacedHasNoHost, TypeOK
  <2> QED
    BY <1>18, <2>1, <1>s DEF Submit, Bind, Exit, Orderly, SleepsBetween, UntouchedBefore,
       RecordedIsDrained, ListedIsFresh, DrainedIsCordoned, Drained
<1>19. ASSUME NEW p \in Pod, NEW n \in Node, Schedule(p, n) PROVE Orderly'
  <2>1. AssumedBefore' /\ UnplacedHasNoHost'
    BY <1>19, <1>s, <1>t DEF Schedule, AssumedBefore, UnplacedHasNoHost, DrainedIsCordoned, TypeOK
  <2> QED
    BY <1>19, <2>1, <1>s DEF Schedule, Orderly, SleepsBetween, UntouchedBefore,
       RecordedIsDrained, ListedIsFresh, DrainedIsCordoned, Drained
<1>20. CASE Tick
  <2>1. /\ runs' = {[r EXCEPT !.pause = @ - 1] : r \in runs}
        /\ monitor' = "list" /\ monitor = "sleep"
        /\ \A r \in runs : r.pause > 0
        /\ \A p \in Pod : pod[p] # "assumed"
        /\ UNCHANGED <<alive, notice, cordoned, pod, host, warnings, fresh, todo, handled, faults>>
    BY <1>20 DEF Tick
  <2>2. \A r \in runs : /\ [r EXCEPT !.pause = @ - 1].node = r.node
                        /\ [r EXCEPT !.pause = @ - 1].step = r.step
    BY <1>t DEF TypeOK, Runs
  <2>3. /\ \A s \in runs' : \E r \in runs : s.node = r.node /\ s.step = r.step
        /\ \A r \in runs : \E s \in runs' : s.node = r.node
    BY <2>1, <2>2
  <2>4. \A r \in runs : r.step \in {"medium", "high"}
    BY <2>1, <1>s, <1>t DEF SleepsBetween, TypeOK, Runs
  <2>5. SleepsBetween'
    BY <2>3, <2>4 DEF SleepsBetween
  <2>6. AssumedBefore' /\ UnplacedHasNoHost'
    BY <2>1, <1>s DEF AssumedBefore, UnplacedHasNoHost
  <2>7. DrainedIsCordoned'
    BY <2>1, <2>3, <1>s DEF DrainedIsCordoned
  <2>8. RecordedIsDrained'
    <3>1. \A n \in warnings \cap notice : \E r \in runs : r.node = n
      BY <2>1, <1>s DEF RecordedIsDrained, Drained
    <3>2. \A n \in warnings \cap notice : \E r \in runs' : r.node = n
      BY <2>3, <3>1
    <3>3. warnings' = warnings /\ notice' = notice
      BY <2>1
    <3> QED
      BY <3>2, <3>3 DEF RecordedIsDrained, Drained
  <2>9. UntouchedBefore' /\ ListedIsFresh'
    BY <2>1, <1>s DEF UntouchedBefore, ListedIsFresh
  <2> QED
    BY <2>5, <2>6, <2>7, <2>8, <2>9 DEF Orderly
<1>21. CASE UNCHANGED vars
  BY <1>21, <1>s DEF vars, Orderly, SleepsBetween, UntouchedBefore,
     RecordedIsDrained, ListedIsFresh, DrainedIsCordoned, AssumedBefore, UnplacedHasNoHost, Drained
<1> QED
  BY <1>1, <1>2, <1>3, <1>4, <1>5, <1>6, <1>7, <1>8, <1>9, <1>10, <1>11, <1>12, <1>13, <1>14,
     <1>15, <1>16, <1>17, <1>18, <1>19, <1>20, <1>21
  DEF Next, Monitor, Evict, Environment

-----------------------------------------------------------------------------
(* What keeps the drains in time.                                          *)

LEMMA WaitIs == \A n : Wait(n) \in {0, 1}
BY DEF Wait

LEMMA MissedIs == \A p : Missed(p) \in {0, Lost} /\ (pod[p] # "assumed" => Missed(p) = 0)
BY DEF Missed

LEMMA LeftIs ==
  ASSUME TypeOK, NEW n \in notice
  PROVE  left[n] \in Nat /\ n \in SpotNodes /\ n \in alive /\ n \in Node
BY Numbers DEF TypeOK, Node

\* The monitor's own steps.
LEMMA InTimeMonitor ==
  ASSUME TypeOK, InTime, Credit' \in Nat, Credit' <= Credit,
         \A n \in notice : Drained(n) \/ Credit' + Wait(n)' <= Credit + Wait(n),
         UNCHANGED <<clusterVars, podVars, runs>>
  PROVE  InTime'
<1> USE DEF clusterVars, podVars
<1> SUFFICES ASSUME NEW n \in notice
             PROVE  OpenInTime(n)' /\ \A p \in Pod : PodInTime(n, p)' /\ GraceInTime(n, p)'
  BY DEF InTime
<1>1. OpenInTime(n) /\ \A p \in Pod : PodInTime(n, p) /\ GraceInTime(n, p)
  BY DEF InTime
<1>2. /\ left[n] \in Nat /\ Credit \in Nat /\ Credit' \in Nat /\ Wait(n) \in {0, 1} /\ Wait(n)' \in {0, 1}
      /\ Reserve = HighGrace + Credit /\ Reserve' = HighGrace + Credit' /\ HighGrace \in Nat
      /\ Drained(n)' <=> Drained(n)
  <2>1. Wait(n)' \in {0, 1}
    BY DEF Wait
  <2> QED
    BY <2>1, CreditIs, WaitIs, LeftIs, Numbers DEF Reserve, Drained
<1>3. OpenInTime(n)'
  BY <1>1, <1>2, Numbers DEF OpenInTime
<1>4. ASSUME NEW p \in Pod PROVE PodInTime(n, p)'
  <2>1. /\ Offset(p) \in Nat /\ Missed(p) \in Nat /\ Missed(p)' = Missed(p)
        /\ (Live(p) /\ Known(p))' <=> Live(p) /\ Known(p)
    BY OffsetIs, MissedIs, Numbers DEF Missed, Live, Known
  <2>2. \A r \in runs : NeedOfRun(r, p)' = NeedOfRun(r, p)
    BY <2>1 DEF NeedOfRun, Due, Ahead
  <2>3. Known(p) => \A r \in runs : NeedOfRun(r, p) \in Nat
    BY NeedIs
  <2> QED
    BY <1>1, <1>2, <2>1, <2>2, <2>3 DEF PodInTime
<1>5. \A p \in Pod : GraceInTime(n, p)'
  BY <1>1 DEF GraceInTime
<1> QED
  BY <1>3, <1>4, <1>5

\* The steps of a run.
LEMMA InTimeAdvance ==
  ASSUME TypeOK, InTime, Credit' \in Nat, Credit' <= Credit,
         NEW r \in runs, NEW s, runs' = (runs \ {r}) \cup {s}, s.node = r.node,
         \A p \in Pod : host'[p] # NoNode =>
           /\ host'[p] = host[p] /\ dying'[p] = dying[p]
           /\ \/ pod'[p] = pod[p]
              \/ pod'[p] = "terminating" /\ pod[p] = "running" /\ Known(p),
         \A p \in Pod : host'[p] = r.node /\ host[p] = r.node /\ Live(p)' /\ pod'[p] = pod[p] /\ Known(p) =>
           NeedOfRun(s, p)' \in Int /\ Credit' + NeedOfRun(s, p)' <= Credit + NeedOfRun(r, p),
         UNCHANGED <<clusterVars, monitor, todo, handled>>
  PROVE  InTime'
<1> USE DEF clusterVars, podVars
<1> SUFFICES ASSUME NEW n \in notice
             PROVE  OpenInTime(n)' /\ \A p \in Pod : PodInTime(n, p)' /\ GraceInTime(n, p)'
  BY DEF InTime
<1>1. OpenInTime(n) /\ \A p \in Pod : PodInTime(n, p) /\ GraceInTime(n, p)
  BY DEF InTime
<1>2. /\ left[n] \in Nat /\ Credit \in Nat /\ Credit' \in Nat /\ Wait(n) \in {0, 1} /\ Wait(n)' = Wait(n)
      /\ Reserve = HighGrace + Credit /\ Reserve' = HighGrace + Credit' /\ HighGrace \in Nat
      /\ left' = left /\ cordoned' = cordoned /\ n # NoNode
  <2>1. Wait(n)' = Wait(n)
    BY DEF Wait
  <2> QED
    BY <2>1, CreditIs, WaitIs, LeftIs, Numbers, SpotAssumption DEF Reserve
<1>3. Drained(n)' <=> Drained(n)
  BY DEF Drained
<1>4. OpenInTime(n)'
  BY <1>1, <1>2, <1>3, Numbers DEF OpenInTime
<1>5. ASSUME NEW p \in Pod PROVE PodInTime(n, p)'
  <2> SUFFICES ASSUME host'[p] = n, Live(p)', Known(p)
               PROVE  /\ \A q \in runs' : q.node = n => left[n] >= Reserve' + NeedOfRun(q, p)'
                      /\ ~Drained(n)' => left[n] >= Reserve' + Wait(n)' + Offset(p)' + Missed(p)'
    BY <1>2 DEF PodInTime, Known
  <2>1. host[p] = n /\ pod'[p] = pod[p] /\ Live(p)
    BY <1>2 DEF Live
  <2>2. /\ Offset(p) \in Nat /\ Missed(p) \in Nat /\ Missed(p)' = Missed(p) /\ Offset(p)' = Offset(p)
    BY <2>1, OffsetIs, MissedIs, Numbers DEF Missed, Offset, Lost, Priority
  <2>3. /\ \A q \in runs : q.node = n => left[n] >= Reserve + NeedOfRun(q, p)
        /\ ~Drained(n) => left[n] >= Reserve + Wait(n) + Offset(p) + Missed(p)
    BY <1>1, <2>1 DEF PodInTime
  <2>4. ASSUME NEW q \in runs', q.node = n PROVE left[n] >= Reserve' + NeedOfRun(q, p)'
    <3>1. CASE q = s
      <4>1. left[n] >= Reserve + NeedOfRun(r, p) /\ NeedOfRun(r, p) \in Nat
        BY <2>3, <2>4, <3>1, NeedIs
      <4>2. NeedOfRun(s, p)' \in Int /\ Credit' + NeedOfRun(s, p)' <= Credit + NeedOfRun(r, p)
        BY <2>1, <2>4, <3>1
      <4>3. NeedOfRun(q, p)' = NeedOfRun(s, p)'
        BY <3>1 DEF NeedOfRun, Ahead, Due
      <4> QED
        BY <1>2, <4>1, <4>2, <4>3
    <3>2. CASE q \in runs
      <4>1. left[n] >= Reserve + NeedOfRun(q, p) /\ NeedOfRun(q, p) \in Nat
        BY <2>3, <2>4, <3>2, NeedIs
      <4>2. NeedOfRun(q, p)' = NeedOfRun(q, p)
        BY <2>1, <2>2 DEF NeedOfRun, Due, Ahead
      <4> QED
        BY <1>2, <4>1, <4>2
    <3> QED
      BY <2>4, <3>1, <3>2
  <2> QED
    BY <1>2, <1>3, <2>2, <2>3, <2>4
<1>6. ASSUME NEW p \in Pod PROVE GraceInTime(n, p)'
  <2> SUFFICES ASSUME host'[p] = n, pod'[p] = "terminating"
               PROVE  dying'[p] + left'[n] >= HighGrace
    BY DEF GraceInTime
  <2>1. host[p] = n /\ dying'[p] = dying[p] /\ dying[p] \in Nat
    BY <1>2, Numbers DEF TypeOK
  <2>2. CASE pod[p] = "terminating"
    BY <1>1, <1>2, <2>1, <2>2 DEF GraceInTime
  <2>3. CASE pod[p] = "running" /\ Known(p)
    <3>1. Offset(p) \in Nat /\ Missed(p) \in Nat
      BY OffsetIs, MissedIs, Numbers
    <3>2. /\ \A q \in runs : q.node = n => left[n] >= Reserve + NeedOfRun(q, p) /\ NeedOfRun(q, p) \in Nat
          /\ ~Drained(n) => left[n] >= Reserve + Wait(n) + Offset(p) + Missed(p)
      BY <1>1, <2>1, <2>3, NeedIs DEF PodInTime, Live
    <3>3. left[n] >= HighGrace
      BY <1>2, <3>1, <3>2 DEF Drained
    <3> QED
      BY <1>2, <2>1, <3>3
  <2> QED
    BY <1>2, <2>2, <2>3
<1> QED
  BY <1>4, <1>5, <1>6

\* Pods come and go.
LEMMA InTimePods ==
  ASSUME TypeOK, InTime,
         \A p \in Pod, n \in notice : host'[p] = n =>
           \/ /\ host[p] = n /\ dying'[p] = dying[p]
              /\ pod'[p] = pod[p] \/ (pod[p] = "assumed" /\ pod'[p] = "running")
           \/ pod'[p] = "assumed" /\ n \notin cordoned,
         UNCHANGED <<clusterVars, monitorVars, runs, faults>>
  PROVE  InTime'
<1> USE DEF clusterVars, podVars, monitorVars
<1> SUFFICES ASSUME NEW n \in notice
             PROVE  OpenInTime(n)' /\ \A p \in Pod : PodInTime(n, p)' /\ GraceInTime(n, p)'
  BY DEF InTime
<1>1. OpenInTime(n) /\ \A p \in Pod : PodInTime(n, p) /\ GraceInTime(n, p)
  BY DEF InTime
<1>2. /\ left[n] \in Nat /\ Credit \in Nat /\ Wait(n) \in {0, 1} /\ Wait(n)' = Wait(n)
      /\ Reserve = HighGrace + Credit /\ Reserve' = Reserve /\ HighGrace \in Nat
      /\ left' = left /\ cordoned' = cordoned
  <2>1. Wait(n)' = Wait(n)
    BY DEF Wait
  <2> QED
    BY <2>1, CreditKept, CreditIs, WaitIs, LeftIs, Numbers DEF Reserve
<1>3. Drained(n)' <=> Drained(n)
  BY DEF Drained
<1>4. OpenInTime(n)'
  BY <1>1, <1>2, <1>3, Numbers DEF OpenInTime
<1>5. ASSUME NEW p \in Pod PROVE PodInTime(n, p)'
  <2> SUFFICES ASSUME host'[p] = n, Live(p)', Known(p)
               PROVE  /\ \A q \in runs : q.node = n => left[n] >= Reserve + NeedOfRun(q, p)'
                      /\ ~Drained(n) => left[n] >= Reserve + Wait(n) + Offset(p)' + Missed(p)'
    BY <1>2, <1>3 DEF PodInTime, Known
  <2>1. Offset(p) \in 0..2 * Pause /\ Offset(p)' = Offset(p)
    BY OffsetIs DEF Offset, Priority
  <2>2. Missed(p) \in {0, Lost} /\ Missed(p)' \in {0, Lost}
    BY MissedIs DEF Missed, Lost
  <2>3. CASE host[p] = n /\ (pod'[p] = pod[p] \/ (pod[p] = "assumed" /\ pod'[p] = "running"))
    <3>1. Live(p) /\ Missed(p)' <= Missed(p)
      BY <2>2, <2>3, Numbers DEF Live, Missed, Lost
    <3>2. /\ \A q \in runs : q.node = n => left[n] >= Reserve + NeedOfRun(q, p)
          /\ ~Drained(n) => left[n] >= Reserve + Wait(n) + Offset(p) + Missed(p)
      BY <1>1, <2>3, <3>1 DEF PodInTime
    <3>3. ASSUME NEW q \in runs PROVE NeedOfRun(q, p)' \in Int /\ NeedOfRun(q, p)' <= NeedOfRun(q, p)
      <4>1. Due(q, p) => Due(q, p)'
        BY <2>3 DEF Due
      <4>2. Ahead(q) \in 0..2 * Pause /\ Ahead(q)' = Ahead(q)
        BY AheadIs DEF Ahead
      <4> QED
        BY <2>1, <2>2, <3>1, <4>1, <4>2, Numbers DEF NeedOfRun
    <3>4. \A q \in runs : NeedOfRun(q, p) \in Nat
      BY NeedIs
    <3> QED
      BY <1>2, <2>1, <2>2, <3>1, <3>2, <3>3, <3>4, Numbers
  <2>4. CASE pod'[p] = "assumed" /\ n \notin cordoned
    <3>1. ~Drained(n) /\ left[n] >= Reserve + Wait(n) + 2 * Pause + Lost
      BY <1>1, <2>4 DEF OpenInTime
    <3> QED
      BY <1>2, <2>1, <2>2, <3>1, Numbers DEF Drained
  <2> QED
    BY <2>3, <2>4
<1>6. ASSUME NEW p \in Pod PROVE GraceInTime(n, p)'
  BY <1>1, <1>2 DEF GraceInTime
<1> QED
  BY <1>4, <1>5, <1>6

\* The process ends.
LEMMA InTimeDie ==
  ASSUME Inv, InTime, Die, Credit' \in Nat,
         \/ Credit' = Credit - Lost
         \/ /\ Credit' = Credit
            /\ \A n \in notice : n \in cordoned
            /\ \A n \in notice : \E r \in runs : r.node = n /\ r.step = "cleanup"
            /\ \A p \in Pod, n \in notice : ~(pod[p] = "assumed" /\ host[p] = n)
  PROVE  InTime'
<1> USE DEF clusterVars, podVars
<1>d. runs' = {} /\ monitor' = "sleep" /\ UNCHANGED <<clusterVars, podVars>>
  BY DEF Die
<1> SUFFICES ASSUME NEW n \in notice
             PROVE  OpenInTime(n)' /\ \A p \in Pod : PodInTime(n, p)' /\ GraceInTime(n, p)'
  BY <1>d DEF InTime
<1>0. TypeOK
  BY DEF Inv
<1>1. OpenInTime(n) /\ \A p \in Pod : PodInTime(n, p) /\ GraceInTime(n, p)
  BY DEF InTime
<1>2. /\ left[n] \in Nat /\ Credit \in Nat /\ Wait(n) \in {0, 1} /\ Wait(n)' = 1
      /\ Reserve = HighGrace + Credit /\ Reserve' = HighGrace + Credit' /\ HighGrace \in Nat
      /\ left' = left /\ cordoned' = cordoned /\ ~Drained(n)'
  <2>1. Wait(n)' = 1
    BY <1>d DEF Wait
  <2>2. ~Drained(n)'
    BY <1>d DEF Drained
  <2> QED
    BY <1>0, <1>d, <2>1, <2>2, CreditIs, WaitIs, LeftIs, Numbers DEF Reserve
<1>3. OpenInTime(n)'
  BY <1>1, <1>2, Numbers DEF OpenInTime
<1>4. ASSUME NEW p \in Pod PROVE PodInTime(n, p)'
  <2> SUFFICES ASSUME host[p] = n, Live(p), Known(p)
               PROVE  left[n] >= Reserve' + 1 + Offset(p) + Missed(p)
    <3>1. Offset(p)' = Offset(p) /\ Missed(p)' = Missed(p)
      BY <1>d DEF Offset, Missed, Lost, Priority
    <3> QED
      BY <1>2, <1>d, <3>1 DEF PodInTime, Live, Known
  <2>1. Offset(p) \in 0..2 * Pause /\ Missed(p) \in {0, Lost}
    BY OffsetIs, MissedIs
  <2>2. /\ \A q \in runs : q.node = n => left[n] >= Reserve + NeedOfRun(q, p)
        /\ ~Drained(n) => left[n] >= Reserve + Wait(n) + Offset(p) + Missed(p)
    BY <1>1 DEF PodInTime
  <2>3. CASE Credit' = Credit - Lost /\ ~Drained(n)
    BY <1>2, <2>1, <2>2, <2>3, Numbers
  <2>4. CASE Credit' = Credit - Lost /\ Drained(n)
    <3>1. PICK q \in runs : q.node = n
      BY <2>4 DEF Drained
    <3>2. NeedOfRun(q, p) \in Nat /\ NeedOfRun(q, p) + Lost >= 1 + Offset(p) + Missed(p)
      <4>1. Due(q, p) => Missed(p) = 0
        BY MissedIs DEF Due
      <4>2. Ahead(q) \in 0..2 * Pause
        BY <1>0, AheadIs
      <4>3. NeedOfRun(q, p) \in Nat
        BY <1>0, NeedIs
      <4> QED
        BY <2>1, <4>1, <4>2, <4>3, Numbers DEF NeedOfRun
    <3> QED
      BY <1>2, <2>1, <2>2, <2>4, <3>1, <3>2, Numbers
  <2>5. CASE Credit' # Credit - Lost
    <3>1. Credit' = Credit /\ Missed(p) = 0
      BY <2>5, MissedIs
    <3>2. PICK q \in runs : q.node = n /\ q.step = "cleanup"
      BY <2>5
    <3>3. NeedOfRun(q, p) = Ahead(q) + 1 + Offset(p) /\ Ahead(q) \in 0..2 * Pause
      BY <1>0, <3>2, AheadIs DEF NeedOfRun, Due
    <3> QED
      BY <1>2, <2>1, <2>2, <3>1, <3>2, <3>3, Numbers
  <2> QED
    BY <2>3, <2>4, <2>5
<1>5. \A p \in Pod : GraceInTime(n, p)'
  BY <1>1, <1>d DEF GraceInTime
<1> QED
  BY <1>3, <1>4, <1>5

\* A drain begins: no tick goes by from the last look at the notice to it.
LEMMA InTimeCordon ==
  ASSUME Inv, InTime, Cordon
  PROVE  InTime'
<1> USE DEF clusterVars, podVars
<1>s. PICK s : runs' = runs \cup {s} /\ s.node = handled /\ s.step = "list"
  <2> DEFINE t == [node |-> handled, step |-> "list", pods |-> {}, pause |-> 0]
  <2>1. runs' = runs \cup {t} /\ t.node = handled /\ t.step = "list"
    BY DEF Cordon
  <2> HIDE DEF t
  <2> QED
    BY <2>1
<1>d. /\ runs' = runs \cup {s} /\ s.node = handled /\ s.step = "list"
      /\ cordoned' = cordoned \cup {handled}
      /\ monitor = "cordon" /\ monitor' = "check"
      /\ UNCHANGED <<alive, notice, left, podVars, todo, faults>>
  <2>1. /\ cordoned' = cordoned \cup {handled}
        /\ monitor = "cordon" /\ monitor' = "check"
        /\ UNCHANGED <<alive, notice, left, podVars, todo, faults>>
    BY DEF Cordon
  <2> QED
    BY <1>s, <2>1
<1>0. TypeOK /\ \A r \in runs : r.node # handled
  BY <1>d DEF Inv, HandledIsFree
<1> SUFFICES ASSUME NEW n \in notice
             PROVE  OpenInTime(n)' /\ \A p \in Pod : PodInTime(n, p)' /\ GraceInTime(n, p)'
  BY <1>d DEF InTime
<1>1. OpenInTime(n) /\ \A p \in Pod : PodInTime(n, p) /\ GraceInTime(n, p)
  BY DEF InTime
<1>2. /\ left[n] \in Nat /\ Credit \in Nat /\ Wait(n) \in {0, 1}
      /\ n # handled => Wait(n)' = Wait(n)
      /\ n = handled => Wait(n) = 0 /\ ~Drained(n) /\ Drained(n)' /\ n \in cordoned'
      /\ n # handled => (Drained(n)' <=> Drained(n)) /\ (n \in cordoned' <=> n \in cordoned)
      /\ Reserve = HighGrace + Credit /\ Reserve' = Reserve /\ HighGrace \in Nat /\ left' = left
  <2>1. (n # handled => Wait(n)' = Wait(n)) /\ (n = handled => Wait(n) = 0)
    BY <1>d DEF Wait
  <2>2. /\ n = handled => ~Drained(n) /\ Drained(n)'
        /\ n # handled => (Drained(n)' <=> Drained(n))
    BY <1>0, <1>d DEF Drained
  <2>3. Reserve = HighGrace + Credit /\ Reserve' = Reserve
    BY <1>d, CreditKept DEF Reserve
  <2> QED
    BY <1>0, <1>d, <2>1, <2>2, <2>3, CreditIs, WaitIs, LeftIs, Numbers
<1>3. OpenInTime(n)'
  BY <1>1, <1>2, Numbers DEF OpenInTime
<1>4. ASSUME NEW p \in Pod PROVE PodInTime(n, p)'
  <2> SUFFICES ASSUME host[p] = n, Live(p), Known(p)
               PROVE  /\ \A q \in runs' : q.node = n => left[n] >= Reserve + NeedOfRun(q, p)'
                      /\ ~Drained(n)' => left[n] >= Reserve + Wait(n)' + Offset(p) + Missed(p)
    <3>1. Offset(p)' = Offset(p) /\ Missed(p)' = Missed(p)
      BY <1>d DEF Offset, Missed, Lost, Priority
    <3> QED
      BY <1>2, <1>d, <3>1 DEF PodInTime, Live, Known
  <2>1. /\ \A q \in runs : q.node = n => left[n] >= Reserve + NeedOfRun(q, p)
        /\ ~Drained(n) => left[n] >= Reserve + Wait(n) + Offset(p) + Missed(p)
    BY <1>1 DEF PodInTime
  <2>2. Offset(p) \in 0..2 * Pause /\ Missed(p) \in {0, Lost}
    BY OffsetIs, MissedIs
  <2>3. ASSUME NEW q \in runs, q.node = n PROVE left[n] >= Reserve + NeedOfRun(q, p)'
    <3>1. NeedOfRun(q, p)' = NeedOfRun(q, p)
      BY <1>d DEF NeedOfRun, Due, Ahead, Offset, Priority, Missed, Lost
    <3> QED
      BY <2>1, <2>3, <3>1
  <2>4. n = handled => left[n] >= Reserve + NeedOfRun(s, p)'
    <3>1. NeedOfRun(s, p)' = Offset(p) + Missed(p)
      BY <1>d DEF NeedOfRun, Offset, Priority, Missed, Lost
    <3> QED
      BY <1>2, <2>1, <2>2, <3>1, Numbers
  <2>5. ASSUME NEW q \in runs', q.node = n PROVE left[n] >= Reserve + NeedOfRun(q, p)'
    <3>1. CASE q = s
      <4>1. NeedOfRun(q, p)' = NeedOfRun(s, p)' /\ n = handled
        BY <1>d, <2>5, <3>1 DEF NeedOfRun, Due, Ahead
      <4> QED
        BY <2>4, <4>1
    <3> QED
      BY <1>d, <2>3, <2>5, <3>1
  <2> QED
    BY <1>2, <2>1, <2>5
<1>5. \A p \in Pod : GraceInTime(n, p)'
  BY <1>1, <1>d DEF GraceInTime
<1> QED
  BY <1>3, <1>4, <1>5

\* A drain ends: a pod that is still there is in time for the next one.
LEMMA InTimeCleanup ==
  ASSUME Inv, Orderly, InTime, NEW r \in runs, Cleanup(r)
  PROVE  InTime'
<1> USE DEF clusterVars, podVars, monitorVars
<1>d. /\ r.step = "cleanup" /\ runs' = runs \ {r}
      /\ UNCHANGED <<clusterVars, podVars, monitorVars, faults>>
  BY DEF Cleanup
<1>0. TypeOK /\ \A q \in runs : q.node = r.node => q = r
  BY DEF Inv, OneRunPerNode
<1> SUFFICES ASSUME NEW n \in notice
             PROVE  OpenInTime(n)' /\ \A p \in Pod : PodInTime(n, p)' /\ GraceInTime(n, p)'
  BY <1>d DEF InTime
<1>1. OpenInTime(n) /\ \A p \in Pod : PodInTime(n, p) /\ GraceInTime(n, p)
  BY DEF InTime
<1>2. /\ left[n] \in Nat /\ Credit \in Nat /\ Wait(n) \in {0, 1} /\ Wait(n)' = Wait(n)
      /\ n # r.node => (Drained(n)' <=> Drained(n))
      /\ n = r.node => n \in cordoned
      /\ Reserve = HighGrace + Credit /\ Reserve' = Reserve /\ HighGrace \in Nat
      /\ left' = left /\ cordoned' = cordoned
  <2>1. Wait(n)' = Wait(n)
    BY <1>d DEF Wait
  <2>2. n # r.node => (Drained(n)' <=> Drained(n))
    BY <1>d DEF Drained
  <2>3. n = r.node => n \in cordoned
    BY <1>0, LeftIs DEF Orderly, DrainedIsCordoned
  <2>4. Reserve = HighGrace + Credit /\ Reserve' = Reserve
    BY <1>d, CreditKept DEF Reserve
  <2> QED
    BY <1>0, <1>d, <2>1, <2>2, <2>3, <2>4, CreditIs, WaitIs, LeftIs, Numbers
<1>3. OpenInTime(n)'
  BY <1>1, <1>2, Numbers DEF OpenInTime
<1>4. ASSUME NEW p \in Pod PROVE PodInTime(n, p)'
  <2> SUFFICES ASSUME host[p] = n, Live(p), Known(p)
               PROVE  /\ \A q \in runs' : q.node = n => left[n] >= Reserve + NeedOfRun(q, p)'
                      /\ ~Drained(n)' => left[n] >= Reserve + Wait(n) + Offset(p) + Missed(p)
    <3>1. Offset(p)' = Offset(p) /\ Missed(p)' = Missed(p)
      BY <1>d DEF Offset, Missed, Lost, Priority
    <3> QED
      BY <1>2, <1>d, <3>1 DEF PodInTime, Live, Known
  <2>1. /\ \A q \in runs : q.node = n => left[n] >= Reserve + NeedOfRun(q, p)
        /\ ~Drained(n) => left[n] >= Reserve + Wait(n) + Offset(p) + Missed(p)
    BY <1>1 DEF PodInTime
  <2>2. Offset(p) \in 0..2 * Pause /\ Missed(p) \in {0, Lost}
    BY OffsetIs, MissedIs
  <2>3. ASSUME NEW q \in runs', q.node = n PROVE left[n] >= Reserve + NeedOfRun(q, p)'
    <3>1. NeedOfRun(q, p)' = NeedOfRun(q, p)
      BY <1>d DEF NeedOfRun, Due, Ahead, Offset, Priority, Missed, Lost
    <3> QED
      BY <1>d, <2>1, <2>3, <3>1
  <2>4. n = r.node => left[n] >= Reserve + Wait(n) + Offset(p) + Missed(p)
    <3> SUFFICES ASSUME n = r.node PROVE left[n] >= Reserve + Wait(n) + Offset(p) + Missed(p)
      OBVIOUS
    <3>1. pod[p] # "assumed"
      BY <1>d DEF Orderly, AssumedBefore
    <3>2. Missed(p) = 0
      BY <3>1, MissedIs
    <3>3. NeedOfRun(r, p) = Ahead(r) + 1 + Offset(p) /\ Ahead(r) \in 0..2 * Pause
      BY <1>0, <1>d, AheadIs DEF NeedOfRun, Due
    <3> QED
      BY <1>2, <2>1, <2>2, <3>2, <3>3, Numbers
  <2> QED
    BY <1>2, <2>1, <2>3, <2>4
<1>5. \A p \in Pod : GraceInTime(n, p)'
  BY <1>1, <1>d DEF GraceInTime
<1> QED
  BY <1>3, <1>4, <1>5

\* All the faults there may be.
LEMMA CreditAtMost ==
  ASSUME TypeOK
  PROVE  Credit <= MaxFaults * Lost /\ (MaxFaults + 1) * Lost = MaxFaults * Lost + Lost
         /\ MaxFaults * Lost \in Nat
<1>1. \A m, f, c \in Nat : (m - f) * c = m * c - f * c /\ (m + 1) * c = m * c + c
                           /\ f * c \in Nat /\ m * c \in Nat
  OBVIOUS
<1>2. MaxFaults \in Nat /\ faults \in Nat /\ Lost \in Nat
  BY Numbers DEF TypeOK
<1>3. \A a, b \in Nat : a - b <= a
  OBVIOUS
<1> QED
  BY <1>1, <1>2, <1>3 DEF Credit

\* The notice comes early enough.
LEMMA InTimeNotice ==
  ASSUME Timely, Inv, Orderly, InTime, NEW m \in SpotNodes, GiveNotice(m)
  PROVE  InTime'
<1> USE DEF clusterVars, podVars, monitorVars
<1>d. /\ m \in alive /\ m \notin notice /\ m \in SpotNodes
      /\ notice' = notice \cup {m} /\ left' = [left EXCEPT ![m] = NoticePeriod]
      /\ UNCHANGED <<alive, cordoned, podVars, warnings, monitorVars, runs, faults>>
  BY DEF GiveNotice
<1>0. TypeOK
  BY DEF Inv
<1> SUFFICES ASSUME NEW n \in notice'
             PROVE  OpenInTime(n)' /\ \A p \in Pod : PodInTime(n, p)' /\ GraceInTime(n, p)'
  BY DEF InTime
<1>1. /\ Credit \in Nat /\ Reserve = HighGrace + Credit /\ Reserve' = Reserve
      /\ Wait(n) \in {0, 1} /\ Wait(n)' = Wait(n) /\ (Drained(n)' <=> Drained(n))
  <2>1. Wait(n)' = Wait(n)
    BY <1>d DEF Wait
  <2>2. Drained(n)' <=> Drained(n)
    BY <1>d DEF Drained
  <2>3. Reserve = HighGrace + Credit /\ Reserve' = Reserve
    BY <1>d, CreditKept DEF Reserve
  <2> QED
    BY <1>0, <2>1, <2>2, <2>3, CreditIs, WaitIs
<1>2. CASE n # m
  <2>1. n \in notice /\ left'[n] = left[n] /\ left[n] \in Nat
    BY <1>0, <1>d, <1>2, LeftIs DEF TypeOK
  <2>2. OpenInTime(n) /\ \A p \in Pod : PodInTime(n, p) /\ GraceInTime(n, p)
    BY <2>1 DEF InTime
  <2>3. OpenInTime(n)'
    BY <1>1, <1>d, <2>1, <2>2, Numbers DEF OpenInTime
  <2>4. ASSUME NEW p \in Pod PROVE PodInTime(n, p)'
    <3>1. Offset(p)' = Offset(p) /\ Missed(p)' = Missed(p)
      BY <1>d DEF Offset, Missed, Lost, Priority
    <3>2. \A q \in runs : NeedOfRun(q, p)' = NeedOfRun(q, p)
      BY <1>d, <3>1 DEF NeedOfRun, Due, Ahead
    <3> QED
      BY <1>1, <1>d, <2>1, <2>2, <3>1, <3>2 DEF PodInTime, Live, Known
  <2>5. \A p \in Pod : GraceInTime(n, p)'
    BY <1>d, <2>1, <2>2 DEF GraceInTime
  <2> QED
    BY <2>3, <2>4, <2>5
<1>3. CASE n = m
  <2>1. /\ left'[n] = NoticePeriod
        /\ NoticePeriod >= Reserve + 1 + 2 * Pause + Lost
    <3>1. left'[n] = NoticePeriod
      BY <1>0, <1>d, <1>3 DEF TypeOK, Node
    <3> QED
      BY <1>0, <1>1, <3>1, CreditIs, CreditAtMost, Numbers DEF Timely
  <2>2. ~Drained(n)
    BY <1>d, <1>3 DEF Orderly, UntouchedBefore, DrainedIsCordoned, Drained
  <2>3. OpenInTime(n)'
    BY <1>1, <2>1, <2>2, Numbers DEF OpenInTime, Lost
  <2>4. ASSUME NEW p \in Pod PROVE PodInTime(n, p)'
    <3>1. /\ Offset(p)' \in 0..2 * Pause /\ Missed(p)' \in {0, Lost}
      BY OffsetIs DEF Missed, Lost, Offset, Priority
    <3>2. ~Drained(n)' /\ \A q \in runs' : q.node # n
      BY <1>d, <2>2 DEF Drained
    <3>3. left'[n] >= Reserve' + Wait(n)' + Offset(p)' + Missed(p)'
      BY <1>1, <2>1, <3>1, Numbers
    <3> QED
      BY <3>2, <3>3 DEF PodInTime
  <2>5. \A p \in Pod : GraceInTime(n, p)'
    <3>1. NoticePeriod >= HighGrace
      BY <1>1, <2>1, Numbers
    <3> QED
      BY <1>0, <1>d, <2>1, <3>1, Numbers DEF GraceInTime, TypeOK
  <2> QED
    BY <2>3, <2>4, <2>5
<1> QED
  BY <1>2, <1>3

\* A machine goes with its pods.
LEMMA InTimeReclaim ==
  ASSUME Inv, InTime, NEW m \in SpotNodes, Reclaim(m)
  PROVE  InTime'
<1> USE DEF clusterVars, podVars, monitorVars
<1>d. /\ notice' = notice \ {m} /\ cordoned' = cordoned \ {m}
      /\ \A p \in Pod : /\ host'[p] # m /\ host[p] # m
                             => pod'[p] = pod[p] /\ dying'[p] = dying[p] /\ host'[p] = host[p]
                        /\ host[p] = m => host'[p] = NoNode
                        /\ host[p] # m => host'[p] = host[p]
      /\ UNCHANGED <<left, monitor, todo, handled, runs, faults>>
  BY DEF Reclaim, Inv, TypeOK
<1>0. TypeOK
  BY DEF Inv
<1> SUFFICES ASSUME NEW n \in notice, n # m
             PROVE  OpenInTime(n)' /\ \A p \in Pod : PodInTime(n, p)' /\ GraceInTime(n, p)'
  BY <1>d DEF InTime
<1>1. OpenInTime(n) /\ \A p \in Pod : PodInTime(n, p) /\ GraceInTime(n, p)
  BY DEF InTime
<1>2. /\ Reserve' = Reserve /\ Wait(n)' = Wait(n) /\ (Drained(n)' <=> Drained(n))
      /\ (n \in cordoned' <=> n \in cordoned) /\ left' = left /\ n # NoNode
  BY <1>0, <1>d, LeftIs, CreditKept, SpotAssumption DEF Wait, Drained, Reserve
<1>3. OpenInTime(n)'
  BY <1>1, <1>2 DEF OpenInTime, Lost
<1>4. ASSUME NEW p \in Pod PROVE PodInTime(n, p)'
  <2> SUFFICES ASSUME host'[p] = n PROVE PodInTime(n, p)'
    BY DEF PodInTime
  <2>1. pod'[p] = pod[p] /\ host[p] = n
    BY <1>2, <1>d
  <2>2. Offset(p)' = Offset(p) /\ Missed(p)' = Missed(p)
    BY <2>1 DEF Offset, Missed, Lost, Priority
  <2>3. \A q \in runs : NeedOfRun(q, p)' = NeedOfRun(q, p)
    BY <2>1, <2>2 DEF NeedOfRun, Due, Ahead
  <2> QED
    BY <1>1, <1>2, <1>d, <2>1, <2>2, <2>3 DEF PodInTime, Live, Known
<1>5. ASSUME NEW p \in Pod PROVE GraceInTime(n, p)'
  BY <1>1, <1>2, <1>d DEF GraceInTime
<1> QED
  BY <1>3, <1>4, <1>5

\* Time goes on only when all that is due is done: every need shrinks with it.
LEMMA InTimeTick ==
  ASSUME Inv, Orderly, InTime, Tick
  PROVE  InTime'
<1> USE DEF clusterVars, podVars
<1>0. TypeOK
  BY DEF Inv
<1>d. /\ monitor = "sleep" /\ monitor' = "list"
      /\ \A r \in runs : r.pause > 0
      /\ \A n \in notice : left[n] > 0 /\ left'[n] = left[n] - 1
      /\ \A p \in Pod : pod[p] # "assumed" /\ (pod[p] = "terminating" => dying'[p] = dying[p] + 1)
      /\ UNCHANGED <<alive, notice, cordoned, pod, host, todo, handled, faults>>
  BY <1>0, LeftIs DEF Tick
<1>r. /\ \A q \in runs' : \E r \in runs :
           q.node = r.node /\ q.step = r.step /\ q.pods = r.pods /\ q.pause = r.pause - 1
      /\ \A r \in runs : \E q \in runs' : q.node = r.node
  <2>1. runs' = {[r EXCEPT !.pause = @ - 1] : r \in runs}
    BY DEF Tick
  <2>2. \A r \in runs : /\ [r EXCEPT !.pause = @ - 1].node = r.node
                        /\ [r EXCEPT !.pause = @ - 1].step = r.step
                        /\ [r EXCEPT !.pause = @ - 1].pods = r.pods
                        /\ [r EXCEPT !.pause = @ - 1].pause = r.pause - 1
    BY <1>0 DEF TypeOK, Runs
  <2>3. ASSUME NEW r \in runs
        PROVE  \E q \in runs' : /\ q.node = r.node /\ q.step = r.step
                                 /\ q.pods = r.pods /\ q.pause = r.pause - 1
    BY <2>1, <2>2
  <2>4. ASSUME NEW q \in runs'
        PROVE  \E r \in runs : /\ q.node = r.node /\ q.step = r.step
                                /\ q.pods = r.pods /\ q.pause = r.pause - 1
    <3>1. PICK r \in runs : q = [r EXCEPT !.pause = @ - 1]
      BY <2>1
    <3> QED
      BY <2>2, <3>1
  <2> QED
    BY <2>3, <2>4
<1> SUFFICES ASSUME NEW n \in notice
             PROVE  OpenInTime(n)' /\ \A p \in Pod : PodInTime(n, p)' /\ GraceInTime(n, p)'
  BY <1>d DEF InTime
<1>1. OpenInTime(n) /\ \A p \in Pod : PodInTime(n, p) /\ GraceInTime(n, p)
  BY DEF InTime
<1>2. /\ left[n] \in Nat /\ left'[n] = left[n] - 1 /\ Credit \in Nat
      /\ Wait(n) = 1 /\ Wait(n)' = 0 /\ (Drained(n)' <=> Drained(n))
      /\ Reserve = HighGrace + Credit /\ Reserve' = Reserve /\ HighGrace \in Nat
      /\ cordoned' = cordoned
  <2>1. Wait(n) = 1 /\ Wait(n)' = 0
    BY <1>d DEF Wait
  <2>2. Drained(n)' <=> Drained(n)
    BY <1>r DEF Drained
  <2>3. Reserve = HighGrace + Credit /\ Reserve' = Reserve
    BY <1>d, CreditKept DEF Reserve
  <2> QED
    BY <1>0, <1>d, <2>1, <2>2, <2>3, CreditIs, LeftIs, Numbers
<1>3. OpenInTime(n)'
  BY <1>1, <1>2, Numbers DEF OpenInTime
<1>4. ASSUME NEW p \in Pod PROVE PodInTime(n, p)'
  <2> SUFFICES ASSUME host[p] = n, Live(p), Known(p)
               PROVE  /\ \A q \in runs' : q.node = n => left[n] - 1 >= Reserve + NeedOfRun(q, p)'
                      /\ ~Drained(n) => left[n] - 1 >= Reserve + Offset(p) + Missed(p)
    <3>1. Offset(p)' = Offset(p) /\ Missed(p)' = Missed(p) /\ Offset(p) \in Nat /\ Missed(p) \in Nat
      BY <1>d, OffsetIs, MissedIs, Numbers DEF Offset, Missed, Lost, Priority
    <3> QED
      BY <1>2, <1>d, <3>1 DEF PodInTime, Live, Known
  <2>1. /\ \A q \in runs : q.node = n => left[n] >= Reserve + NeedOfRun(q, p)
        /\ ~Drained(n) => left[n] >= Reserve + Wait(n) + Offset(p) + Missed(p)
    BY <1>1 DEF PodInTime
  <2>2. Offset(p) \in 0..2 * Pause /\ Missed(p) \in {0, Lost}
    BY OffsetIs, MissedIs
  <2>3. ASSUME NEW q \in runs', q.node = n PROVE left[n] - 1 >= Reserve + NeedOfRun(q, p)'
    <3>1. PICK r \in runs :
            q.node = r.node /\ q.step = r.step /\ q.pods = r.pods /\ q.pause = r.pause - 1
      BY <1>r
    <3>2. r.step \in {"medium", "high"} /\ r.pause \in Nat
      BY <1>0, <1>d, RunIs DEF Orderly, SleepsBetween
    <3>3. Ahead(r) \in 0..2 * Pause /\ Ahead(q)' = Ahead(r) - 1
      BY <1>0, <3>1, <3>2, AheadIs, Numbers DEF Ahead
    <3>4. Due(q, p)' <=> Due(r, p)
      BY <1>d, <3>1 DEF Due, Priority
    <3>5. Offset(p)' = Offset(p)
      BY DEF Offset, Priority
    <3>6. NeedOfRun(q, p)' = NeedOfRun(r, p) - 1 /\ NeedOfRun(r, p) \in Nat
      <4>1. NeedOfRun(r, p) \in Nat
        BY <1>0, NeedIs
      <4> QED
        BY <2>2, <3>1, <3>2, <3>3, <3>4, <3>5, <4>1, Numbers DEF NeedOfRun
    <3> QED
      BY <1>2, <2>1, <2>3, <3>1, <3>6
  <2> QED
    BY <1>2, <2>1, <2>2, <2>3, Numbers
<1>5. ASSUME NEW p \in Pod PROVE GraceInTime(n, p)'
  <2>1. dying[p] \in Nat
    BY <1>0, Numbers DEF TypeOK
  <2> QED
    BY <1>1, <1>2, <1>d, <2>1, Numbers DEF GraceInTime
<1> QED
  BY <1>3, <1>4, <1>5

\* Listing the pods: one that is being bound is missed, and is in time for the
\* next run.
LEMMA InTimeListPods ==
  ASSUME Inv, Orderly, InTime, NEW r \in runs, ListPods(r)
  PROVE  InTime'
<1> USE DEF clusterVars, podVars, monitorVars
<1>0. TypeOK
  BY DEF Inv
<1>1. PICK s : /\ runs' = (runs \ {r}) \cup {s} /\ s.node = r.node
               /\ s.step = "low" /\ s.pods = BoundPods(r.node)
  <2> DEFINE t == [r EXCEPT !.step = "low", !.pods = BoundPods(r.node)]
  <2>1. t.node = r.node /\ t.step = "low" /\ t.pods = BoundPods(r.node)
    BY <1>0 DEF TypeOK, Runs
  <2>2. runs' = (runs \ {r}) \cup {t}
    BY DEF ListPods
  <2> HIDE DEF t
  <2> QED
    BY <2>1, <2>2
<1>2. r.step = "list" /\ UNCHANGED <<clusterVars, podVars, monitorVars, faults>>
  BY DEF ListPods
<1>3. Credit' = Credit /\ Credit \in Nat
  BY <1>0, <1>2, CreditIs, CreditKept
<1>4. ASSUME NEW p \in Pod, host[p] = r.node, Live(p)', Known(p)
      PROVE  NeedOfRun(s, p)' \in Int /\ Credit' + NeedOfRun(s, p)' <= Credit + NeedOfRun(r, p)
  <2>1. Offset(p) \in 0..2 * Pause /\ Offset(p)' = Offset(p)
    BY OffsetIs DEF Offset, Priority
  <2>2. NeedOfRun(r, p) = Offset(p) + Missed(p)
    BY <1>2 DEF NeedOfRun
  <2>3. CASE pod[p] = "assumed"
    <3>1. ~Due(s, p)' /\ Ahead(s)' = 2 * Pause /\ Missed(p) = Lost
      BY <1>1, <1>2, <2>3 DEF Due, Ahead, Missed
    <3>2. NeedOfRun(s, p)' = 2 * Pause + 1 + Offset(p)
      BY <1>1, <2>1, <3>1 DEF NeedOfRun
    <3> QED
      BY <1>3, <2>1, <2>2, <3>1, <3>2, Numbers
  <2>4. CASE pod[p] = "running"
    <3>1. p \in s.pods
      BY <1>1, <1>4, <2>4 DEF BoundPods
    <3>2. Due(s, p)' /\ Ahead(s)' = 2 * Pause /\ Missed(p) = 0
      BY <1>1, <1>2, <2>4, <3>1 DEF Due, Ahead, Missed
    <3>3. NeedOfRun(s, p)' = 2 * Pause - 2 * Pause + Offset(p)
      BY <1>1, <2>1, <3>2 DEF NeedOfRun
    <3> QED
      BY <1>3, <2>1, <2>2, <3>2, <3>3, Numbers
  <2> QED
    BY <1>2, <1>4, <2>3, <2>4 DEF Live
<1>5. ASSUME NEW p \in Pod PROVE host'[p] = host[p] /\ dying'[p] = dying[p] /\ pod'[p] = pod[p]
  BY <1>2
<1> QED
  BY <1>0, <1>1, <1>2, <1>3, <1>4, <1>5, InTimeAdvance

LEMMA CreditNext ==
  ASSUME faults' \in 0..MaxFaults
  PROVE  Credit' \in Nat
<1>1. \A a, b \in Nat : a * b \in Nat
  OBVIOUS
<1>2. MaxFaults - faults' \in Nat /\ Lost \in Nat
  <2>1. MaxFaults \in Nat /\ Lost \in Nat
    BY Numbers
  <2>2. \A f \in 0..MaxFaults : MaxFaults - f \in Nat
    BY <2>1
  <2> QED
    BY <2>1, <2>2
<1>3. (MaxFaults - faults') * Lost \in Nat
  BY <1>1, <1>2
<1>4. Credit' = (MaxFaults - faults') * Lost
  BY DEF Credit, Lost
<1> QED
  BY <1>3, <1>4

\* A batch is deleted: a pod whose Delete fails is in time for the next run.
LEMMA InTimeEvict ==
  ASSUME Inv, InTime, NEW r \in runs, NEW s, runs' = (runs \ {r}) \cup {s}, s.node = r.node,
         r.step # "list", s.step # "list", Ahead(s) = Ahead(r),
         NEW priority, NEW deleted, Deletions(Batch(r.pods, priority), deleted),
         \A p \in Pod : Priority(p) = priority => Ahead(r) + Offset(p) <= 2 * Pause /\ ~Due(s, p),
         \A p \in Pod : Priority(p) # priority /\ Known(p) => (Due(s, p) <=> Due(r, p)),
         \A p \in Pod : Due(r, p) => p \in r.pods,
         \A p \in deleted : \/ host'[p] = NoNode
                            \/ /\ host'[p] = host[p] /\ dying'[p] = dying[p] /\ pod'[p] = "terminating"
                               /\ Known(p) /\ pod[p] \in {"running", "terminating"},
         \A p \in Pod \ deleted : host'[p] = host[p] /\ dying'[p] = dying[p] /\ pod'[p] = pod[p],
         UNCHANGED <<clusterVars, monitor, todo, handled>>
  PROVE  InTime'
<1>0. TypeOK
  BY DEF Inv
<1>1. /\ Credit \in Nat /\ Credit' \in Nat /\ Credit' <= Credit
      /\ deleted # Batch(r.pods, priority) => Credit' = Credit - Lost
  <2>2. faults' \in 0..MaxFaults
    BY <1>0, DeletionsTyped
  <2>3. Credit \in Nat
    BY <1>0, CreditIs
  <2>4. CASE deleted = Batch(r.pods, priority)
    <3>1. UNCHANGED faults
      BY <2>4 DEF Deletions
    <3> QED
      BY <2>3, <2>4, <3>1, CreditKept
  <2>5. CASE deleted # Batch(r.pods, priority)
    <3>1. Strikes("delete")
      BY <2>5 DEF Deletions
    <3>2. Credit' = Credit - Lost
      BY <1>0, <3>1, CreditPaid
    <3>3. Credit' \in Nat
      BY <2>2, CreditNext
    <3> QED
      BY <2>3, <3>2, <3>3, Numbers
  <2> QED
    BY <2>4, <2>5
<1>2. ASSUME NEW p \in Pod, host'[p] # NoNode
      PROVE  /\ host'[p] = host[p] /\ dying'[p] = dying[p]
             /\ \/ pod'[p] = pod[p]
                \/ pod'[p] = "terminating" /\ pod[p] = "running" /\ Known(p)
  BY <1>2
<1>3. ASSUME NEW p \in Pod, host'[p] = r.node, Live(p)', pod'[p] = pod[p], Known(p)
      PROVE  NeedOfRun(s, p)' \in Int /\ Credit' + NeedOfRun(s, p)' <= Credit + NeedOfRun(r, p)
  <2>1. p \notin deleted
    <3>1. r.node # NoNode
      BY <1>0, RunIs, SpotAssumption DEF Node
    <3>2. pod'[p] # "terminating"
      BY <1>3 DEF Live
    <3> QED
      BY <1>3, <3>1, <3>2
  <2>2. /\ Offset(p) \in 0..2 * Pause /\ Offset(p)' = Offset(p)
        /\ Ahead(r) \in 0..2 * Pause /\ Ahead(s)' = Ahead(r)
        /\ Due(s, p)' <=> Due(s, p)
    <3>1. Ahead(s)' = Ahead(s)
      BY DEF Ahead
    <3>2. Due(s, p)' <=> Due(s, p)
      BY <1>3 DEF Due, Priority
    <3>3. Offset(p)' = Offset(p)
      BY DEF Offset, Priority
    <3> QED
      BY <1>0, <3>1, <3>2, <3>3, OffsetIs, AheadIs
  <2>3. NeedOfRun(s, p)' = IF Due(s, p) THEN Ahead(r) - 2 * Pause + Offset(p) ELSE Ahead(r) + 1 + Offset(p)
    BY <2>2 DEF NeedOfRun
  <2>4. /\ NeedOfRun(r, p) = IF Due(r, p) THEN Ahead(r) - 2 * Pause + Offset(p) ELSE Ahead(r) + 1 + Offset(p)
        /\ NeedOfRun(r, p) \in Nat
    BY <1>0, <1>3, NeedIs DEF NeedOfRun
  <2>5. CASE Priority(p) # priority \/ ~Due(r, p)
    <3>1. Due(s, p) <=> Due(r, p)
      BY <1>3, <2>5
    <3> QED
      BY <1>1, <2>2, <2>3, <2>4, <3>1, Numbers
  <2>6. CASE Priority(p) = priority /\ Due(r, p)
    <3>1. p \in Batch(r.pods, priority)
      BY <2>6 DEF Batch, Priority
    <3>2. Credit' = Credit - Lost
      BY <1>1, <2>1, <3>1
    <3>3. ~Due(s, p) /\ Ahead(r) + Offset(p) <= 2 * Pause
      BY <2>6
    <3> QED
      BY <1>1, <2>2, <2>3, <2>4, <3>2, <3>3, Numbers
  <2> QED
    BY <2>5, <2>6
<1> QED
  BY <1>0, <1>1, <1>2, <1>3, InTimeAdvance

LEMMA InTimeEvictLow ==
  ASSUME Inv, InTime, NEW r \in runs, EvictLow(r)
  PROVE  InTime'
<1> DEFINE s == [r EXCEPT !.step = "medium", !.pause = Pause]
<1>0. TypeOK /\ r \in Runs
  BY DEF Inv, TypeOK
<1>1. s.node = r.node /\ s.step = "medium" /\ s.pause = Pause /\ s.pods = r.pods
  BY <1>0 DEF Runs
<1>2. r.step = "low" /\ runs' = (runs \ {r}) \cup {s} /\ UNCHANGED <<clusterVars, monitor, todo, handled>>
  BY DEF EvictLow, Advance, monitorVars
<1> HIDE DEF s
<1>3. PICK deleted : Deletions(Batch(r.pods, "low"), deleted) /\ DeleteNow(deleted)
  BY DEF EvictLow
<1>4. Ahead(s) = Ahead(r) /\ Ahead(r) = 2 * Pause
  BY <1>1, <1>2, Numbers DEF Ahead
<1>5. \A p \in Pod : Priority(p) = "low" => Ahead(r) + Offset(p) <= 2 * Pause /\ ~Due(s, p)
  BY <1>1, <1>4, OffsetIs, Numbers DEF Due
<1>6. \A p \in Pod : Priority(p) # "low" /\ Known(p) => (Due(s, p) <=> Due(r, p))
  BY <1>1, <1>2 DEF Due
<1>7. /\ \A p \in deleted : host'[p] = NoNode
      /\ \A p \in Pod \ deleted : host'[p] = host[p] /\ dying'[p] = dying[p] /\ pod'[p] = pod[p]
  <2>1. deleted \subseteq Pod
    BY <1>0, <1>3 DEF Deletions, Batch, Runs
  <2> QED
    BY <1>3, <2>1 DEF DeleteNow
<1>8. \A p \in Pod : Due(r, p) => p \in r.pods
  BY DEF Due
<1> QED
  BY <1>1, <1>2, <1>3, <1>4, <1>5, <1>6, <1>7, <1>8, InTimeEvict

LEMMA InTimeEvictMedium ==
  ASSUME Inv, InTime, NEW r \in runs, EvictMedium(r)
  PROVE  InTime'
<1> DEFINE s == [r EXCEPT !.step = "high", !.pause = Pause]
<1>0. TypeOK /\ r \in Runs
  BY DEF Inv, TypeOK
<1>1. s.node = r.node /\ s.step = "high" /\ s.pause = Pause /\ s.pods = r.pods
  BY <1>0 DEF Runs
<1>2. /\ r.step = "medium" /\ r.pause = 0 /\ runs' = (runs \ {r}) \cup {s}
      /\ UNCHANGED <<clusterVars, monitor, todo, handled>>
  BY DEF EvictMedium, Advance, monitorVars
<1> HIDE DEF s
<1>3. PICK deleted : Deletions(Batch(r.pods, "medium"), deleted) /\ DeleteNow(deleted)
  BY DEF EvictMedium
<1>4. Ahead(s) = Ahead(r) /\ Ahead(r) = Pause
  BY <1>1, <1>2, Numbers DEF Ahead
<1>5. \A p \in Pod : Priority(p) = "medium" => Ahead(r) + Offset(p) <= 2 * Pause /\ ~Due(s, p)
  BY <1>1, <1>4, OffsetIs, Numbers DEF Due
<1>6. \A p \in Pod : Priority(p) # "medium" /\ Known(p) => (Due(s, p) <=> Due(r, p))
  BY <1>1, <1>2 DEF Due, Known, Priorities
<1>7. /\ \A p \in deleted : host'[p] = NoNode
      /\ \A p \in Pod \ deleted : host'[p] = host[p] /\ dying'[p] = dying[p] /\ pod'[p] = pod[p]
  <2>1. deleted \subseteq Pod
    BY <1>0, <1>3 DEF Deletions, Batch, Runs
  <2> QED
    BY <1>3, <2>1 DEF DeleteNow
<1>8. \A p \in Pod : Due(r, p) => p \in r.pods
  BY DEF Due
<1> QED
  BY <1>1, <1>2, <1>3, <1>4, <1>5, <1>6, <1>7, <1>8, InTimeEvict

LEMMA InTimeEvictHigh ==
  ASSUME Inv, InTime, NEW r \in runs, EvictHigh(r)
  PROVE  InTime'
<1> DEFINE s == [r EXCEPT !.step = "cleanup", !.pause = 0]
<1>0. TypeOK /\ r \in Runs
  BY DEF Inv, TypeOK
<1>1. s.node = r.node /\ s.step = "cleanup" /\ s.pause = 0 /\ s.pods = r.pods
  BY <1>0 DEF Runs
<1>2. /\ r.step = "high" /\ r.pause = 0 /\ runs' = (runs \ {r}) \cup {s}
      /\ UNCHANGED <<clusterVars, monitor, todo, handled, dying>>
  BY DEF EvictHigh, Advance, monitorVars
<1> HIDE DEF s
<1>3. PICK deleted \in SUBSET Batch(r.pods, "high") :
        /\ Deletions(Batch(r.pods, "high"), deleted)
        /\ LET bound == {p \in deleted : pod[p] \in {"running", "terminating"}} IN
           /\ pod' = [p \in Pod |-> IF p \in bound THEN "terminating"
                                    ELSE IF p \in deleted THEN "absent" ELSE pod[p]]
           /\ host' = [p \in Pod |-> IF p \in deleted \ bound THEN NoNode ELSE host[p]]
  BY DEF EvictHigh
<1>4. Ahead(s) = Ahead(r) /\ Ahead(r) = 0
  BY <1>1, <1>2, Numbers DEF Ahead
<1>5. \A p \in Pod : Priority(p) = "high" => Ahead(r) + Offset(p) <= 2 * Pause /\ ~Due(s, p)
  BY <1>1, <1>4, OffsetIs, Numbers DEF Due
<1>6. \A p \in Pod : Priority(p) # "high" /\ Known(p) => (Due(s, p) <=> Due(r, p))
  BY <1>1, <1>2 DEF Due
<1>7. /\ \A p \in deleted : \/ host'[p] = NoNode
                            \/ /\ host'[p] = host[p] /\ dying'[p] = dying[p] /\ pod'[p] = "terminating"
                               /\ Known(p) /\ pod[p] \in {"running", "terminating"}
      /\ \A p \in Pod \ deleted : host'[p] = host[p] /\ dying'[p] = dying[p] /\ pod'[p] = pod[p]
  <2>1. deleted \subseteq Pod /\ \A p \in deleted : Known(p)
    BY <1>0, <1>3 DEF Batch, Runs, Known, Priorities, Priority
  <2>2. dying' = dying
    BY <1>2
  <2>3. ASSUME NEW p \in deleted, pod[p] \in {"running", "terminating"}
        PROVE  host'[p] = host[p] /\ pod'[p] = "terminating"
    BY <1>3, <2>1, <2>3
  <2>4. ASSUME NEW p \in deleted, pod[p] \notin {"running", "terminating"}
        PROVE  host'[p] = NoNode
    BY <1>3, <2>1, <2>4
  <2>5. ASSUME NEW p \in Pod \ deleted PROVE host'[p] = host[p] /\ pod'[p] = pod[p]
    BY <1>3, <2>5
  <2> QED
    BY <2>1, <2>2, <2>3, <2>4, <2>5
<1>8. \A p \in Pod : Due(r, p) => p \in r.pods
  BY DEF Due
<1> QED
  BY <1>1, <1>2, <1>3, <1>4, <1>5, <1>6, <1>7, <1>8, InTimeEvict

\* The steps of the monitor, the update that cordons aside.
LEMMA InTimeMonitors ==
  ASSUME Timely, Inv, Orderly, InTime, TypeOK',
         \/ ListSpotNodes \/ ListSpotNodesFails \/ Annotate \/ UpdateFails \/ CheckEnds
         \/ \E m \in SpotNodes : Pass(m) \/ NoticeFails(m) \/ RecordWarning(m)
  PROVE  InTime'
<1> USE DEF clusterVars, podVars
<1>0. TypeOK
  BY DEF Inv
<1>1. UNCHANGED <<clusterVars, podVars, runs>>
  BY DEF ListSpotNodes, ListSpotNodesFails, Annotate, UpdateFails, CheckEnds, Pass, NoticeFails,
     RecordWarning
<1>2. Credit \in Nat /\ \A n : Wait(n) \in {0, 1} /\ Wait(n)' \in {0, 1}
  <2>1. \A n : Wait(n)' \in {0, 1}
    BY DEF Wait
  <2> QED
    BY <1>0, <2>1, CreditIs, WaitIs
<1>3. Credit' \in Nat
  BY CreditNext DEF TypeOK
<1> DEFINE Goal == /\ Credit' <= Credit
                   /\ \A n \in notice : Drained(n) \/ Credit' + Wait(n)' <= Credit + Wait(n)
<1>4. ASSUME UNCHANGED faults, \A n \in notice : Drained(n) \/ Wait(n)' <= Wait(n) PROVE Goal
  <2>1. Credit' = Credit
    BY <1>4, CreditKept
  <2> QED
    BY <1>2, <1>4, <2>1
<1>5. ASSUME Strikes("read") PROVE Goal
  <2>1. Credit' = Credit - Lost
    BY <1>0, <1>5, CreditPaid
  <2> QED
    BY <1>2, <2>1, Numbers
<1>6. Goal
  <2>1. CASE ListSpotNodes
    <3>1. \A n \in notice : Wait(n)' = 0
      BY <1>0, <2>1, LeftIs DEF ListSpotNodes, Wait
    <3> QED
      BY <1>2, <1>4, <2>1, <3>1 DEF ListSpotNodes
  <2>2. CASE ListSpotNodesFails \/ \E m \in SpotNodes : NoticeFails(m)
    BY <1>5, <2>2 DEF ListSpotNodesFails, NoticeFails
  <2>3. CASE Annotate
    <3>1. \A n : Wait(n)' = Wait(n)
      BY <2>3 DEF Annotate, Wait
    <3> QED
      BY <1>2, <1>4, <2>3, <3>1 DEF Annotate
  <2>4. CASE UpdateFails
    <3>1. handled \notin fresh /\ UNCHANGED faults
      BY <2>4 DEF UpdateFails, Timely, Strikes
    <3>2. handled \notin notice
      BY <1>0, <2>4, <3>1, LeftIs DEF UpdateFails, Orderly, ListedIsFresh
    <3>3. \A n \in notice : Wait(n)' = Wait(n)
      BY <2>4, <3>2 DEF UpdateFails, Wait
    <3> QED
      BY <1>2, <1>4, <3>1, <3>3
  <2>5. CASE CheckEnds
    <3>1. \A n : Wait(n) = 1
      BY <2>5 DEF CheckEnds, Wait
    <3> QED
      BY <1>2, <1>4, <2>5, <3>1 DEF CheckEnds
  <2>6. ASSUME NEW m \in SpotNodes, Pass(m) PROVE Goal
    \* An entry that makes the monitor pass is that of a node being drained.
    <3>1. m \in notice => Drained(m)
      BY <2>6 DEF Pass, Orderly, RecordedIsDrained
    <3>2. \A n : n # m => Wait(n)' = Wait(n)
      BY <2>6 DEF Pass, Wait
    <3> QED
      BY <1>2, <1>4, <2>6, <3>1, <3>2 DEF Pass
  <2>7. ASSUME NEW m \in SpotNodes, RecordWarning(m) PROVE Goal
    <3>1. \A n : Wait(n)' <= Wait(n)
      BY <2>7 DEF RecordWarning, Wait
    <3> QED
      BY <1>2, <1>4, <2>7, <3>1 DEF RecordWarning
  <2> QED
    BY <2>1, <2>2, <2>3, <2>4, <2>5, <2>6, <2>7
<1> QED
  BY <1>0, <1>1, <1>3, <1>6, InTimeMonitor

\* The race for the map costs no fault; with one spot node it comes too late to
\* cost a drain either: the run it ends has only its clean-up ahead.
LEMMA InTimeMapRace ==
  ASSUME Inv, Orderly, InTime, TypeOK', MapRace, NEW s, SpotNodes = {s}
  PROVE  InTime'
<1>0. TypeOK
  BY DEF Inv
<1>1. PICK r \in runs : r.step = "cleanup"
  BY DEF MapRace
<1>2. Die /\ Credit' = Credit
  BY CreditKept DEF MapRace
<1>3. Credit' \in Nat
  BY CreditNext DEF TypeOK
<1>4. \A n \in notice : n = r.node
  BY <1>0, LeftIs, RunIs
<1>5. \A n \in notice : n \in cordoned
  BY <1>0, <1>4, LeftIs DEF Orderly, DrainedIsCordoned
<1>6. \A p \in Pod, n \in notice : ~(pod[p] = "assumed" /\ host[p] = n)
  BY <1>1, <1>4 DEF Orderly, AssumedBefore
<1>7. \A n \in notice : \E q \in runs : q.node = n /\ q.step = "cleanup"
  BY <1>1, <1>4
<1> QED
  BY <1>2, <1>3, <1>5, <1>6, <1>7, InTimeDie

LEMMA InTimeNext ==
  ASSUME Timely, Inv, Orderly, InTime, Next, TypeOK', MapRace => \E s : SpotNodes = {s}
  PROVE  InTime'
<1>0. TypeOK
  BY DEF Inv
<1>1. CASE Monitor
  <2>1. CASE Cordon
    BY <2>1, InTimeCordon
  <2> QED
    BY <1>1, <2>1, InTimeMonitors DEF Monitor
<1>2. ASSUME NEW r \in runs, ListPodsFails(r) PROVE FALSE
  BY <1>2 DEF ListPodsFails, Strikes, Timely
<1>3. CASE Evict
  BY <1>2, <1>3, InTimeListPods, InTimeEvictLow, InTimeEvictMedium, InTimeEvictHigh, InTimeCleanup
  DEF Evict
<1>4. CASE Restart
  <2>1. Credit' = Credit - Lost /\ Credit' \in Nat /\ Die
    BY <1>0, <1>4, CreditPaid, CreditNext DEF Restart, TypeOK
  <2> QED
    BY <2>1, InTimeDie
<1>5. CASE MapRace
  BY <1>5, InTimeMapRace
<1>6. ASSUME NEW n \in SpotNodes, GiveNotice(n) \/ Reclaim(n) \/ Replace(n) PROVE InTime'
  <2>1. ~Replace(n)
    BY DEF Replace, Timely
  <2> QED
    BY <1>6, <2>1, InTimeNotice, InTimeReclaim
<1>7. ASSUME \/ \E p \in Pod : Submit(p) \/ Bind(p) \/ Exit(p)
             \/ \E p \in Pod, n \in Node : Schedule(p, n)
      PROVE  InTime'
  <2>1. UNCHANGED <<clusterVars, monitorVars, runs, faults>>
    BY <1>7 DEF Submit, Bind, Exit, Schedule
  <2>2. ASSUME NEW p \in Pod, NEW n \in notice, host'[p] = n
        PROVE  \/ /\ host[p] = n /\ dying'[p] = dying[p]
                  /\ pod'[p] = pod[p] \/ (pod[p] = "assumed" /\ pod'[p] = "running")
               \/ pod'[p] = "assumed" /\ n \notin cordoned
    <3>1. n # NoNode
      BY <1>0, LeftIs, SpotAssumption
    <3>2. \A q \in Pod : pod[q] \in {"absent", "pending"} => host[q] = NoNode
      BY DEF Orderly, UnplacedHasNoHost
    <3>3. ASSUME NEW q \in Pod, Submit(q)
          PROVE  host[p] = n /\ dying'[p] = dying[p] /\ pod'[p] = pod[p]
      BY <1>0, <2>2, <3>1, <3>2, <3>3 DEF Submit, TypeOK
    <3>4. ASSUME NEW q \in Pod, Bind(q)
          PROVE  host[p] = n /\ dying'[p] = dying[p]
                 /\ (pod'[p] = pod[p] \/ (pod[p] = "assumed" /\ pod'[p] = "running"))
      BY <1>0, <2>2, <3>4 DEF Bind, TypeOK
    <3>5. ASSUME NEW q \in Pod, Exit(q)
          PROVE  host[p] = n /\ dying'[p] = dying[p] /\ pod'[p] = pod[p]
      BY <1>0, <2>2, <3>1, <3>5 DEF Exit, TypeOK
    <3>6. ASSUME NEW q \in Pod, NEW m \in Node, Schedule(q, m)
          PROVE  \/ host[p] = n /\ dying'[p] = dying[p] /\ pod'[p] = pod[p]
                 \/ pod'[p] = "assumed" /\ n \notin cordoned
      BY <1>0, <2>2, <3>6 DEF Schedule, TypeOK
    <3> QED
      BY <1>7, <3>3, <3>4, <3>5, <3>6
  <2> QED
    BY <1>0, <2>1, <2>2, InTimePods
<1>8. CASE Tick
  BY <1>8, InTimeTick
<1> QED
  BY <1>1, <1>3, <1>4, <1>5, <1>6, <1>7, <1>8 DEF Next, Environment

LEMMA InTimeStutter ==
  ASSUME InTime, UNCHANGED vars
  PROVE  InTime'
BY DEF vars, clusterVars, podVars, monitorVars, InTime, OpenInTime, PodInTime, GraceInTime, Drained,
   Wait, Reserve, Credit, Lost, Missed, Offset, Priority, Known, Live, NeedOfRun, Due, Ahead

LEMMA TimeNext ==
  Timely /\ TimeInv /\ [Next]_vars /\ ([~MapRace]_vars \/ \E s : SpotNodes = {s}) => TimeInv'
<1> SUFFICES ASSUME Timely, TimeInv, [Next]_vars, [~MapRace]_vars \/ \E s : SpotNodes = {s}
             PROVE  TimeInv'
  OBVIOUS
<1>1. Inv' /\ TypeOK'
  BY InvNext DEF TimeInv, Inv
<1>2. Orderly'
  BY OrderlyNext DEF TimeInv
<1>3. InTime'
  <2>1. CASE UNCHANGED vars
    BY <2>1, InTimeStutter DEF TimeInv
  <2>2. CASE ~UNCHANGED vars
    BY <1>1, <2>2, InTimeNext DEF TimeInv
  <2> QED
    BY <2>1, <2>2
<1> QED
  BY <1>1, <1>2, <1>3 DEF TimeInv

LEMMA TimeInit == Init => TimeInv
<1>1. Init => Inv
  BY TypeInit DEF Init, Inv, OneRunPerNode, RunsAreRecorded, HandledIsFree
<1>2. Init => InTime
  BY DEF Init, InTime
<1> QED
  BY <1>1, <1>2, OrderlyInit DEF TimeInv

\* At the end of the notice nothing is left to need, so no known pod is live.
LEMMA TimeEnough == TimeInv => DrainedInTime
<1> SUFFICES ASSUME TimeInv, NEW n \in notice, left[n] = 0, NEW p \in Pod, host[p] = n, Known(p)
             PROVE  pod[p] = "terminating" /\ dying[p] = HighGrace
  BY DEF DrainedInTime, Known, Priority
<1>0. TypeOK /\ Orderly /\ InTime
  BY DEF TimeInv, Inv
<1>1. PodInTime(n, p) /\ GraceInTime(n, p)
  BY <1>0 DEF InTime
<1>2. ~Live(p)
  <2> SUFFICES ASSUME Live(p) PROVE FALSE
    OBVIOUS
  <2>1. /\ \A r \in runs : r.node = n => 0 >= Reserve + NeedOfRun(r, p) /\ NeedOfRun(r, p) \in Nat
        /\ ~Drained(n) => 0 >= Reserve + Wait(n) + Offset(p) + Missed(p)
    BY <1>0, <1>1, NeedIs DEF PodInTime
  <2>2. /\ Reserve \in Nat /\ Reserve > 0 /\ Wait(n) \in {0, 1}
        /\ Offset(p) \in 0..2 * Pause /\ Missed(p) \in {0, Lost}
    BY <1>0, CreditIs, WaitIs, OffsetIs, MissedIs, Numbers DEF Reserve
  <2> QED
    BY <2>1, <2>2, Numbers DEF Drained
<1>3. pod[p] = "terminating"
  <2>1. n # NoNode /\ pod[p] \in {"absent", "pending", "assumed", "running", "terminating"}
    BY <1>0, LeftIs, SpotAssumption DEF TypeOK
  <2> QED
    BY <1>0, <1>2, <2>1 DEF Live, Orderly, UnplacedHasNoHost
<1>4. dying[p] \in 0..HighGrace /\ dying[p] + left[n] >= HighGrace
  BY <1>0, <1>1, <1>3 DEF GraceInTime, TypeOK
<1> QED
  BY <1>3, <1>4, Numbers

\* With one spot node, a notice that lasts for a drain, one more for each fault,
\* and the last batch's grace is long enough: every pod of known priority has
\* gone or had its grace, however the monitor, the run, the scheduler, the
\* crashes, the failed readings and the failed Deletes interleave.
THEOREM DrainsInTime ==
  ASSUME Timely, NEW s, SpotNodes = {s}
  PROVE  Spec => []DrainedInTime
<1>1. TimeInv /\ [Next]_vars => TimeInv'
  BY TimeNext
<1> QED
  BY <1>1, TimeInit, TimeEnough, PTL DEF Spec

\* So it is with any number of spot nodes, as long as no two goroutines meet at
\* the map and end the process: that costs the other nodes' drains their start.
THEOREM DrainsAllInTime ==
  ASSUME Timely
  PROVE  Spec /\ [][~MapRace]_vars => []DrainedInTime
<1>1. TimeInv /\ [Next]_vars /\ [~MapRace]_vars => TimeInv'
  BY TimeNext
<1> QED
  BY <1>1, TimeInit, TimeEnough, PTL DEF Spec
=============================================================================
