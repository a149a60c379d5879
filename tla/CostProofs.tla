----------------------------- MODULE CostProofs -----------------------------
(***************************************************************************)
(* What Cost shows of the tracker on a small instance, proved for all      *)
(* names and kinds of pods, all rates, every interval and any number of    *)
(* pods, failed calls and restarts.                                        *)
(***************************************************************************)
EXTENDS CostTracker, TLAPS

-----------------------------------------------------------------------------
(* The invariant.                                                          *)

\* Pods and entries have no future.
TimeInv ==
  /\ \A l \in DOMAIN lives :
       /\ lives[l].start <= now
       /\ lives[l].end # Never => lives[l].start <= lives[l].end /\ lives[l].end <= now
  /\ \A k \in DOMAIN cache : cache[k].updated <= now

\* A name belongs to one pod at a time, among those that run and among those
\* listed; none of the latter has been dealt with under its name.
KeysInv ==
  /\ \A l, m \in Running : lives[l].key = lives[m].key => l = m
  /\ \A l, m \in todo : lives[l].key = lives[m].key => l = m
  /\ \A l \in todo : lives[l].key \notin active
  /\ pass = "idle" => todo = {}
  /\ pass = "update" => sinceTick = 0

Allowed == Interval * faults

\* How old an entry may be, by the state of the pass.
FreshInv ==
  \A k \in DOMAIN cache :
    /\ pass = "idle" => now - cache[k].updated <= sinceTick + Allowed
    /\ pass = "update" => IF k \in active THEN cache[k].updated = now
                          ELSE now - cache[k].updated <= Interval + Allowed

-----------------------------------------------------------------------------
(* Steps of the history.                                                   *)

LEMMA BeginLives ==
  ASSUME TypeOK, NEW k \in Key, NEW kind \in Kind, Begin(k, kind)
  PROVE  \E new \in Nat :
           /\ new \notin DOMAIN lives /\ DOMAIN lives' = DOMAIN lives \cup {new}
           /\ lives'[new] = [key |-> k, kind |-> kind, start |-> now, end |-> Never]
           /\ \A l \in DOMAIN lives : lives'[l] = lives[l]
           /\ lives' \in Seq(Pods)
<1> DEFINE pod == [key |-> k, kind |-> kind, start |-> now, end |-> Never]
<1>1. pod \in Pods /\ lives \in Seq(Pods)
  BY TrackerBounds DEF TypeOK, Pods
<1>2. lives' = Append(lives, pod)
  BY DEF Begin
<1> HIDE DEF pod
<1>3. /\ Len(lives) + 1 \in Nat /\ Len(lives) + 1 \notin DOMAIN lives
      /\ DOMAIN lives' = DOMAIN lives \cup {Len(lives) + 1}
      /\ lives'[Len(lives) + 1] = pod
      /\ \A l \in DOMAIN lives : lives'[l] = lives[l]
      /\ lives' \in Seq(Pods)
  BY <1>1, <1>2
<1> QED
  BY <1>3 DEF pod

LEMMA EndLives ==
  ASSUME TypeOK, NEW l \in DOMAIN lives, End(l)
  PROVE  /\ DOMAIN lives' = DOMAIN lives
         /\ \A m \in DOMAIN lives :
              /\ lives'[m].key = lives[m].key /\ lives'[m].kind = lives[m].kind
              /\ lives'[m].start = lives[m].start
              /\ lives'[m].end = IF m = l THEN now ELSE lives[m].end
         /\ lives' \in Seq(Pods)
         /\ lives[l].end = Never
<1>1. lives \in Seq(Pods) /\ now \in Nat
  BY TrackerBounds DEF TypeOK
<1>2. lives' = [lives EXCEPT ![l].end = now] /\ lives[l].end = Never
  BY DEF End, Running
<1>3. lives[l] \in Pods
  BY <1>1
<1>4. [lives[l] EXCEPT !.end = now] \in Pods
  BY <1>1, <1>3 DEF Pods
<1>5. DOMAIN lives' = DOMAIN lives /\ lives'[l] = [lives[l] EXCEPT !.end = now]
      /\ \A m \in DOMAIN lives : m # l => lives'[m] = lives[m]
  BY <1>1, <1>2
<1>6. lives' \in Seq(Pods)
  BY <1>1, <1>2, <1>4
<1> QED
  BY <1>2, <1>3, <1>5, <1>6 DEF Pods

-----------------------------------------------------------------------------
(* Products.                                                               *)

LEMMA Distribute ==
  ASSUME NEW r \in Nat, NEW a \in Nat, NEW b \in Nat, NEW c \in Nat
  PROVE  r * (b - c) + r * (a - b) = r * (a - c)
OBVIOUS

LEMMA Monotone ==
  ASSUME NEW r \in Nat, NEW a \in Int, NEW b \in Int, a <= b
  PROVE  r * a <= r * b
<1>1. b - a \in Nat
  OBVIOUS
<1>2. r * (b - a) \in Nat
  BY <1>1
<1>3. r * b = r * a + r * (b - a)
  OBVIOUS
<1>4. r * a \in Int /\ r * b \in Int
  OBVIOUS
<1> QED
  BY <1>2, <1>3, <1>4

LEMMA ProductNat ==
  ASSUME NEW r \in Nat, NEW a \in Nat
  PROVE  r * a \in Nat
OBVIOUS

-----------------------------------------------------------------------------
(* Types and time.                                                         *)

LEMMA LivesTyped ==
  ASSUME TypeOK, NEW l \in DOMAIN lives
  PROVE  /\ lives[l] \in Pods /\ l \in Nat
         /\ lives[l].key \in Key /\ lives[l].kind \in Kind /\ lives[l].start \in Nat
         /\ lives[l].end \in Nat \cup {Never}
         /\ Rate[lives[l].kind] \in Nat
<1>1. lives[l] \in Pods /\ l \in Nat
  BY DEF TypeOK
<1> QED
  BY <1>1, TrackerAssumption DEF Pods

LEMMA EntriesTyped ==
  ASSUME TypeOK, NEW k \in DOMAIN cache
  PROVE  /\ cache[k] \in PodCosts /\ k \in Key
         /\ cache[k].pod \in Nat /\ cache[k].start \in Nat /\ cache[k].rate \in Nat
         /\ cache[k].total \in Nat /\ cache[k].updated \in Nat
BY DEF TypeOK, PodCosts

LEMMA FaultTyped ==
  ASSUME TypeOK, Fault
  PROVE  faults' \in 0..MaxFaults /\ faults' = faults + 1 /\ faults \in Nat
BY TrackerBounds DEF TypeOK, Fault

LEMMA UpsertedTyped ==
  ASSUME TypeOK, NEW k \in Key, NEW e \in PodCosts
  PROVE  Upserted(k, e) \subseteq Rows
<1> DEFINE same == {r \in rows : r.key = k /\ r.time = e.updated}
<1>1. rows \subseteq Rows
  BY DEF TypeOK
<1>2. [key |-> k, pod |-> e.pod, time |-> e.updated, total |-> e.total, rate |-> e.rate] \in Rows
  BY DEF Rows, PodCosts
<1>3. \A r \in same : [r EXCEPT !.total = e.total, !.rate = e.rate] \in Rows
  BY <1>1 DEF Rows, PodCosts
<1> QED
  BY <1>1, <1>2, <1>3 DEF Upserted

LEMMA StoreTyped ==
  ASSUME TypeOK, NEW k \in Key, NEW e \in PodCosts, Store(k, e)
  PROVE  /\ DOMAIN cache' = DOMAIN cache \cup {k}
         /\ cache'[k] = e /\ \A j \in DOMAIN cache \ {k} : cache'[j] = cache[j]
         /\ DOMAIN cache' \subseteq Key /\ \A j \in DOMAIN cache' : cache'[j] \in PodCosts
         /\ rows' \subseteq Rows
         /\ \/ rows' = Upserted(k, e) /\ faults' = faults
            \/ rows' = rows /\ faults' = faults + 1
         /\ faults' \in 0..MaxFaults /\ faults \in Nat
<1>1. /\ DOMAIN cache' = DOMAIN cache \cup {k}
      /\ cache'[k] = e /\ \A j \in DOMAIN cache \ {k} : cache'[j] = cache[j]
  BY DEF Store
<1>2. DOMAIN cache' \subseteq Key /\ \A j \in DOMAIN cache' : cache'[j] \in PodCosts
  BY <1>1 DEF TypeOK
<1>3. /\ \/ rows' = Upserted(k, e) /\ faults' = faults
         \/ rows' = rows /\ faults' = faults + 1
      /\ faults' \in 0..MaxFaults /\ faults \in Nat
  BY FaultTyped, TrackerBounds DEF Store, TypeOK
<1>4. rows' \subseteq Rows
  BY <1>3, UpsertedTyped DEF TypeOK
<1> QED
  BY <1>1, <1>2, <1>3, <1>4

\* What the entry of a pod becomes.
Extended(l) ==
  LET k == lives[l].key IN
  [cache[k] EXCEPT !.total = @ + cache[k].rate * (now - cache[k].updated), !.updated = now]

Made(l) ==
  LET rate == Rate[lives[l].kind] IN
  [pod |-> l, start |-> lives[l].start, rate |-> rate,
   total |-> rate * (now - lives[l].start), updated |-> now]

LEMMA ExtendedTyped ==
  ASSUME TypeOK, TimeInv, NEW l \in DOMAIN lives, lives[l].key \in DOMAIN cache
  PROVE  LET e == cache[lives[l].key] IN
         /\ Extended(l) \in PodCosts
         /\ Extended(l).pod = e.pod /\ Extended(l).start = e.start /\ Extended(l).rate = e.rate
         /\ Extended(l).total = e.total + e.rate * (now - e.updated)
         /\ Extended(l).updated = now
<1> DEFINE e == cache[lives[l].key]
<1>1. e \in PodCosts /\ e.rate \in Nat /\ e.total \in Nat /\ e.updated \in Nat
  BY EntriesTyped
<1>2. now - e.updated \in Nat /\ now \in Nat
  BY <1>1, TrackerBounds DEF TypeOK, TimeInv
<1>3. e.total + e.rate * (now - e.updated) \in Nat
  BY <1>1, <1>2, ProductNat
<1>4. Extended(l) = [e EXCEPT !.total = e.total + e.rate * (now - e.updated), !.updated = now]
  BY DEF Extended
<1> HIDE DEF e
<1>5. /\ Extended(l) \in PodCosts
      /\ Extended(l).pod = e.pod /\ Extended(l).start = e.start /\ Extended(l).rate = e.rate
      /\ Extended(l).total = e.total + e.rate * (now - e.updated)
      /\ Extended(l).updated = now
  BY <1>1, <1>2, <1>3, <1>4 DEF PodCosts
<1> QED
  BY <1>5 DEF e

LEMMA MadeTyped ==
  ASSUME TypeOK, TimeInv, NEW l \in DOMAIN lives
  PROVE  Made(l) \in PodCosts
<1>1. now - lives[l].start \in Nat /\ now \in Nat
  BY LivesTyped, TrackerBounds DEF TypeOK, TimeInv
<1>2. Rate[lives[l].kind] * (now - lives[l].start) \in Nat
  BY <1>1, LivesTyped, ProductNat
<1> QED
  BY <1>1, <1>2, LivesTyped DEF Made, PodCosts

\* What one step for one listed pod does, up to its kind.
LEMMA Updates ==
  ASSUME TypeOK, TimeInv, NEW l \in todo, UpdateCached(l) \/ UpdateNew(l)
  PROVE  \E e \in PodCosts :
           /\ Store(lives[l].key, e) /\ Visit(l) /\ lives[l].key \in Key
           /\ e.updated = now /\ l \in DOMAIN lives
           /\ \/ /\ lives[l].key \in DOMAIN cache /\ e = Extended(l)
                 /\ merged' = IF cache[lives[l].key].pod = l THEN merged ELSE merged \cup {l}
              \/ /\ lives[l].key \notin DOMAIN cache /\ e = Made(l)
                 /\ lives[l].kind \in Counted /\ merged' = merged
<1>0. l \in DOMAIN lives /\ lives[l].key \in Key
  BY LivesTyped DEF TypeOK
<1>1. CASE UpdateCached(l)
  <2>1. /\ Store(lives[l].key, Extended(l)) /\ Visit(l) /\ lives[l].key \in DOMAIN cache
        /\ merged' = IF cache[lives[l].key].pod = l THEN merged ELSE merged \cup {l}
    BY <1>1 DEF UpdateCached, Extended
  <2> QED
    BY <1>0, <2>1, ExtendedTyped
<1>2. CASE UpdateNew(l)
  <2>1. /\ Store(lives[l].key, Made(l)) /\ Visit(l) /\ lives[l].key \notin DOMAIN cache
        /\ lives[l].kind \in Counted /\ merged' = merged
    BY <1>2 DEF UpdateNew, Made
  <2>2. Made(l).updated = now
    BY DEF Made
  <2> QED
    BY <1>0, <2>1, <2>2, MadeTyped
<1> QED
  BY <1>1, <1>2

LEMMA TypeInit == Init => TypeOK
<1> SUFFICES ASSUME Init PROVE TypeOK
  OBVIOUS
<1>1. 0 \in 0..MaxTime /\ 0 \in 0..Interval /\ 0 \in 0..MaxFaults
  BY TrackerAssumption, TrackerBounds
<1>2. <<>> \in Seq(Pods) /\ DOMAIN <<>> = {} /\ DOMAIN NoCache = {}
  BY DEF NoCache
<1> QED
  BY <1>1, <1>2 DEF Init, TypeOK

LEMMA TypeNext == TypeOK /\ TimeInv /\ [Next]_vars => TypeOK'
<1> SUFFICES ASSUME TypeOK, TimeInv, [Next]_vars PROVE TypeOK'
  OBVIOUS
<1>0. 0 \in 0..Interval /\ Interval \in Nat /\ MaxTime \in Nat
  BY TrackerAssumption, TrackerBounds
<1>1. CASE ListPods
  BY <1>0, <1>1 DEF ListPods, TypeOK, Running
<1>2. CASE ListPodsFails
  BY <1>0, <1>2, FaultTyped DEF ListPodsFails, TypeOK
<1>3. CASE Cleanup
  <2>1. /\ DOMAIN cache' \subseteq DOMAIN cache
        /\ \A k \in DOMAIN cache' : cache'[k] = cache[k]
    BY <1>3 DEF Cleanup
  <2>2. DOMAIN cache' \subseteq Key /\ \A k \in DOMAIN cache' : cache'[k] \in PodCosts
    BY <2>1 DEF TypeOK
  <2> QED
    BY <1>3, <2>2 DEF Cleanup, TypeOK
<1>4. ASSUME NEW l \in todo, UpdateCached(l) \/ UpdateNew(l) PROVE TypeOK'
  <2>1. PICK e \in PodCosts :
          /\ Store(lives[l].key, e) /\ Visit(l) /\ lives[l].key \in Key
          /\ l \in DOMAIN lives /\ merged' \subseteq merged \cup {l}
    BY <1>4, Updates
  <2>2. /\ DOMAIN cache' \subseteq Key /\ \A j \in DOMAIN cache' : cache'[j] \in PodCosts
        /\ rows' \subseteq Rows /\ faults' \in 0..MaxFaults
    BY <2>1, StoreTyped
  <2> QED
    BY <2>1, <2>2 DEF Visit, TypeOK
<1>5. ASSUME NEW l \in todo, CalculateFails(l) PROVE TypeOK'
  <2>1. faults' \in 0..MaxFaults
    BY <1>5, FaultTyped DEF CalculateFails, TypeOK
  <2> QED
    BY <1>5, <2>1, LivesTyped DEF CalculateFails, Visit, TypeOK
<1>6. CASE Restart
  BY <1>0, <1>6, FaultTyped DEF Restart, TypeOK, NoCache
<1>7. CASE Tick
  BY <1>0, <1>7 DEF Tick, TypeOK
<1>8. ASSUME NEW k \in Key, NEW kind \in Kind, Begin(k, kind) PROVE TypeOK'
  <2>1. lives' \in Seq(Pods) /\ DOMAIN lives \subseteq DOMAIN lives'
    BY <1>8, BeginLives
  <2> QED
    BY <1>8, <2>1 DEF Begin, passVars, TypeOK
<1>9. ASSUME NEW l \in DOMAIN lives, End(l) PROVE TypeOK'
  <2>1. lives' \in Seq(Pods) /\ DOMAIN lives = DOMAIN lives'
    BY <1>9, EndLives
  <2> QED
    BY <1>9, <2>1 DEF End, passVars, TypeOK
<1>10. CASE UNCHANGED vars
  BY <1>10 DEF vars, passVars, TypeOK
<1> QED
  BY <1>1, <1>2, <1>3, <1>4, <1>5, <1>6, <1>7, <1>8, <1>9, <1>10 DEF Next, UpdateCosts

LEMMA TimeNext == TypeOK /\ TimeInv /\ [Next]_vars => TimeInv'
<1> SUFFICES ASSUME TypeOK, TimeInv, [Next]_vars PROVE TimeInv'
  OBVIOUS
<1>0. now \in Nat
  BY TrackerBounds DEF TypeOK
<1>1. CASE ListPods \/ ListPodsFails
  BY <1>1 DEF ListPods, ListPodsFails, TimeInv
<1>3. CASE Cleanup
  BY <1>3 DEF Cleanup, TimeInv
<1>4. ASSUME NEW l \in todo, UpdateCached(l) \/ UpdateNew(l) PROVE TimeInv'
  <2>1. PICK e \in PodCosts :
          /\ Store(lives[l].key, e) /\ Visit(l) /\ lives[l].key \in Key /\ e.updated = now
    BY <1>4, Updates
  <2>2. /\ DOMAIN cache' = DOMAIN cache \cup {lives[l].key}
        /\ cache'[lives[l].key] = e
        /\ \A j \in DOMAIN cache \ {lives[l].key} : cache'[j] = cache[j]
    BY <2>1, StoreTyped
  <2>3. \A j \in DOMAIN cache' : cache'[j].updated <= now
    BY <1>0, <2>1, <2>2 DEF TimeInv
  <2> QED
    BY <2>1, <2>3 DEF Visit, TimeInv
<1>5. ASSUME NEW l \in todo, CalculateFails(l) PROVE TimeInv'
  BY <1>5 DEF CalculateFails, Visit, TimeInv
<1>6. CASE Restart
  BY <1>6 DEF Restart, TimeInv, NoCache
<1>7. CASE Tick
  <2>1. now' = now + 1 /\ lives' = lives /\ cache' = cache
    BY <1>7 DEF Tick
  <2>2. ASSUME NEW l \in DOMAIN lives
        PROVE  /\ lives[l].start <= now + 1
               /\ lives[l].end # Never => lives[l].start <= lives[l].end /\ lives[l].end <= now + 1
    BY <1>0, LivesTyped DEF TimeInv
  <2>3. ASSUME NEW k \in DOMAIN cache PROVE cache[k].updated <= now + 1
    BY <1>0, EntriesTyped DEF TimeInv
  <2> QED
    BY <2>1, <2>2, <2>3 DEF TimeInv
<1>8. ASSUME NEW k \in Key, NEW kind \in Kind, Begin(k, kind) PROVE TimeInv'
  <2>1. now' = now /\ cache' = cache
    BY <1>8 DEF Begin
  <2>2. PICK new \in Nat :
          /\ DOMAIN lives' = DOMAIN lives \cup {new}
          /\ lives'[new] = [key |-> k, kind |-> kind, start |-> now, end |-> Never]
          /\ \A l \in DOMAIN lives : lives'[l] = lives[l]
    BY <1>8, BeginLives
  <2>3. lives'[new].start = now /\ lives'[new].end = Never
    BY <2>2
  <2> QED
    BY <1>0, <2>1, <2>2, <2>3 DEF TimeInv
<1>9. ASSUME NEW l \in DOMAIN lives, End(l) PROVE TimeInv'
  <2>1. now' = now /\ cache' = cache
    BY <1>9 DEF End
  <2>2. ASSUME NEW m \in DOMAIN lives
        PROVE  /\ lives'[m].start <= now
               /\ lives'[m].end # Never => lives'[m].start <= lives'[m].end /\ lives'[m].end <= now
    BY <1>0, <1>9, EndLives DEF TimeInv
  <2> QED
    BY <1>9, <2>1, <2>2, EndLives DEF TimeInv
<1>10. CASE UNCHANGED vars
  BY <1>10 DEF vars, TimeInv
<1> QED
  BY <1>1, <1>3, <1>4, <1>5, <1>6, <1>7, <1>8, <1>9, <1>10 DEF Next, UpdateCosts

-----------------------------------------------------------------------------
(* Names.                                                                  *)

LEMMA VisitKeys ==
  ASSUME TypeOK, KeysInv, NEW l \in todo, Visit(l)
  PROVE  KeysInv'
<1>1. /\ pass = "update" /\ pass' = "update" /\ sinceTick' = sinceTick
      /\ todo' = todo \ {l} /\ active' = active \cup {lives[l].key} /\ lives' = lives
  BY DEF Visit
<1>2. \A m \in todo' : lives[m].key # lives[l].key
  BY <1>1 DEF KeysInv
<1> QED
  BY <1>1, <1>2 DEF KeysInv, Running

LEMMA KeysNext == TypeOK /\ KeysInv /\ [Next]_vars => KeysInv'
<1> SUFFICES ASSUME TypeOK, KeysInv, [Next]_vars PROVE KeysInv'
  OBVIOUS
<1>1. CASE ListPods
  BY <1>1 DEF ListPods, KeysInv, Running
<1>2. CASE ListPodsFails
  BY <1>2 DEF ListPodsFails, KeysInv, Running
<1>3. CASE Cleanup
  BY <1>3 DEF Cleanup, KeysInv, Running
<1>4. ASSUME NEW l \in todo, UpdateCached(l) \/ UpdateNew(l) \/ CalculateFails(l) PROVE KeysInv'
  BY <1>4, VisitKeys DEF UpdateCached, UpdateNew, CalculateFails
<1>6. CASE Restart
  BY <1>6 DEF Restart, KeysInv, Running
<1>7. CASE Tick
  BY <1>7 DEF Tick, KeysInv, Running
<1>8. ASSUME NEW k \in Key, NEW kind \in Kind, Begin(k, kind) PROVE KeysInv'
  <2>1. /\ pass' = pass /\ todo' = todo /\ active' = active /\ sinceTick' = sinceTick
        /\ \A l \in Running : lives[l].key # k
    BY <1>8 DEF Begin, passVars
  <2>2. PICK new \in Nat :
          /\ new \notin DOMAIN lives /\ DOMAIN lives' = DOMAIN lives \cup {new}
          /\ lives'[new] = [key |-> k, kind |-> kind, start |-> now, end |-> Never]
          /\ \A l \in DOMAIN lives : lives'[l] = lives[l]
    BY <1>8, BeginLives
  <2>3. Running' = Running \cup {new} /\ lives'[new].key = k
    BY <2>2 DEF Running
  <2>4. \A l \in Running \cup todo : l \in DOMAIN lives /\ lives'[l] = lives[l]
    BY <2>2 DEF Running, TypeOK
  <2>5. \A l, m \in Running' : lives'[l].key = lives'[m].key => l = m
    BY <2>1, <2>3, <2>4 DEF KeysInv
  <2> QED
    BY <2>1, <2>4, <2>5 DEF KeysInv
<1>9. ASSUME NEW l \in DOMAIN lives, End(l) PROVE KeysInv'
  <2>1. pass' = pass /\ todo' = todo /\ active' = active /\ sinceTick' = sinceTick
    BY <1>9 DEF End, passVars
  <2>2. \A m \in DOMAIN lives : lives'[m].key = lives[m].key
    BY <1>9, EndLives
  <2>3. now # Never
    BY TrackerAssumption, TrackerBounds DEF TypeOK
  <2>4. Running' \subseteq Running
    BY <1>9, <2>3, EndLives DEF Running
  <2>5. Running \subseteq DOMAIN lives /\ todo \subseteq DOMAIN lives
    BY DEF Running, TypeOK
  <2>6. \A m, n \in Running' : lives'[m].key = lives'[n].key => m = n
    BY <2>2, <2>4, <2>5 DEF KeysInv
  <2> QED
    BY <2>1, <2>2, <2>5, <2>6 DEF KeysInv
<1>10. CASE UNCHANGED vars
  BY <1>10 DEF vars, passVars, KeysInv, Running
<1> QED
  BY <1>1, <1>2, <1>3, <1>4, <1>6, <1>7, <1>8, <1>9, <1>10 DEF Next, UpdateCosts

-----------------------------------------------------------------------------
(* Entries.                                                                *)

\* An entry is of a pod under its name, and exact up to its last update.
Exact(k, e) ==
  /\ e.pod \in DOMAIN lives
  /\ lives[e.pod].key = k /\ lives[e.pod].kind \in Counted
  /\ e.start = lives[e.pod].start /\ e.rate = Rate[lives[e.pod].kind]
  /\ lives[e.pod].start <= e.updated
  /\ e.total = e.rate * (e.updated - lives[e.pod].start)

EntryInv == \A k \in DOMAIN cache : Exact(k, cache[k])

LEMMA EntryInvIsExact == EntryInv => EntryIsExact
BY DEF EntryInv, Exact, EntryIsExact

LEMMA ExtendedExact ==
  ASSUME TypeOK, TimeInv, EntryInv, NEW l \in DOMAIN lives, lives[l].key \in DOMAIN cache
  PROVE  Exact(lives[l].key, Extended(l))
<1> DEFINE e == cache[lives[l].key]
<1>1. /\ e.rate \in Nat /\ e.updated \in Nat /\ e.updated <= now /\ now \in Nat
      /\ Exact(lives[l].key, e)
  BY EntriesTyped, TrackerBounds DEF TypeOK, TimeInv, EntryInv
<1>2. lives[e.pod].start \in Nat
  BY <1>1, LivesTyped DEF Exact
<1>3. /\ Extended(l).pod = e.pod /\ Extended(l).start = e.start /\ Extended(l).rate = e.rate
      /\ Extended(l).total = e.total + e.rate * (now - e.updated)
      /\ Extended(l).updated = now
  BY ExtendedTyped
<1> HIDE DEF e
<1>4. e.total + e.rate * (now - e.updated) = e.rate * (now - lives[e.pod].start)
  <2>1. e.total = e.rate * (e.updated - lives[e.pod].start)
    BY <1>1 DEF Exact
  <2>2. e.rate * (e.updated - lives[e.pod].start) + e.rate * (now - e.updated)
          = e.rate * (now - lives[e.pod].start)
    BY <1>1, <1>2, Distribute
  <2> QED
    BY <2>1, <2>2
<1>5. lives[e.pod].start <= now
  BY <1>1, <1>2 DEF Exact
<1> QED
  BY <1>1, <1>3, <1>4, <1>5 DEF Exact

LEMMA MadeExact ==
  ASSUME TypeOK, TimeInv, NEW l \in DOMAIN lives, lives[l].kind \in Counted
  PROVE  Exact(lives[l].key, Made(l))
BY DEF Made, Exact, TimeInv

LEMMA EntryNext == TypeOK /\ TimeInv /\ EntryInv /\ [Next]_vars => EntryInv'
<1> SUFFICES ASSUME TypeOK, TimeInv, EntryInv, [Next]_vars PROVE EntryInv'
  OBVIOUS
<1>a. ASSUME lives' = lives, DOMAIN cache' \subseteq DOMAIN cache,
             \A k \in DOMAIN cache' : cache'[k] = cache[k]
      PROVE  EntryInv'
  BY <1>a DEF EntryInv, Exact
<1>b. ASSUME cache' = cache, DOMAIN lives \subseteq DOMAIN lives',
             \A l \in DOMAIN lives :
               /\ lives'[l].key = lives[l].key /\ lives'[l].kind = lives[l].kind
               /\ lives'[l].start = lives[l].start
      PROVE  EntryInv'
  BY <1>b DEF EntryInv, Exact
<1>1. CASE ListPods \/ ListPodsFails \/ Tick \/ UNCHANGED vars
  BY <1>1, <1>a DEF ListPods, ListPodsFails, Tick, vars
<1>3. CASE Cleanup
  BY <1>3, <1>a DEF Cleanup
<1>4. ASSUME NEW l \in todo, UpdateCached(l) \/ UpdateNew(l) PROVE EntryInv'
  <2>1. PICK e \in PodCosts :
          /\ Store(lives[l].key, e) /\ Visit(l) /\ lives[l].key \in Key /\ l \in DOMAIN lives
          /\ \/ lives[l].key \in DOMAIN cache /\ e = Extended(l)
             \/ e = Made(l) /\ lives[l].kind \in Counted
    BY <1>4, Updates
  <2>2. Exact(lives[l].key, e)
    BY <2>1, ExtendedExact, MadeExact
  <2>3. /\ DOMAIN cache' = DOMAIN cache \cup {lives[l].key}
        /\ cache'[lives[l].key] = e
        /\ \A j \in DOMAIN cache \ {lives[l].key} : cache'[j] = cache[j]
    BY <2>1, StoreTyped
  <2>4. \A j \in DOMAIN cache' : Exact(j, cache'[j])
    BY <2>2, <2>3 DEF EntryInv
  <2>5. lives' = lives
    BY <2>1 DEF Visit
  <2> QED
    BY <2>4, <2>5 DEF EntryInv, Exact
<1>5. ASSUME NEW l \in todo, CalculateFails(l) PROVE EntryInv'
  BY <1>5, <1>a DEF CalculateFails, Visit
<1>6. CASE Restart
  BY <1>6 DEF Restart, EntryInv, NoCache
<1>8. ASSUME NEW k \in Key, NEW kind \in Kind, Begin(k, kind) PROVE EntryInv'
  BY <1>8, <1>b, BeginLives DEF Begin
<1>9. ASSUME NEW l \in DOMAIN lives, End(l) PROVE EntryInv'
  BY <1>9, <1>b, EndLives DEF End
<1> QED
  BY <1>1, <1>3, <1>4, <1>5, <1>6, <1>8, <1>9 DEF Next, UpdateCosts

-----------------------------------------------------------------------------
(* Freshness.                                                              *)

LEMMA AllowedTyped ==
  ASSUME TypeOK
  PROVE  /\ Allowed \in Nat /\ Interval \in Nat /\ sinceTick \in Nat /\ now \in Nat
         /\ Interval > 0 /\ sinceTick <= Interval
         /\ Patience = Interval + Allowed
<1>1. faults \in Nat /\ Interval \in Nat /\ Interval > 0 /\ sinceTick \in 0..Interval /\ now \in Nat
  BY TrackerAssumption, TrackerBounds DEF TypeOK
<1>2. Interval * faults \in Nat
  BY <1>1, ProductNat
<1>3. Interval * (1 + faults) = Interval + Interval * faults
  BY <1>1
<1> QED
  BY <1>1, <1>2, <1>3 DEF Allowed, Patience

LEMMA AllowedGrows ==
  ASSUME TypeOK, faults' = faults + 1
  PROVE  Allowed' = Allowed + Interval
<1>1. faults \in Nat /\ Interval \in Nat
  BY TrackerAssumption, TrackerBounds DEF TypeOK
<1>2. Interval * (faults + 1) = Interval * faults + Interval
  BY <1>1
<1> QED
  BY <1>2 DEF Allowed

LEMMA FaultAllows ==
  ASSUME TypeOK, faults' = faults \/ faults' = faults + 1
  PROVE  Allowed' \in Nat /\ Allowed' >= Allowed
<1>1. Allowed \in Nat /\ Interval \in Nat
  BY AllowedTyped
<1>2. CASE faults' = faults
  BY <1>1, <1>2 DEF Allowed
<1>3. CASE faults' = faults + 1
  BY <1>1, <1>3, AllowedGrows
<1> QED
  BY <1>2, <1>3

LEMMA FreshNext == TypeOK /\ TimeInv /\ KeysInv /\ FreshInv /\ [Next]_vars => FreshInv'
<1> SUFFICES ASSUME TypeOK, TimeInv, KeysInv, FreshInv, [Next]_vars PROVE FreshInv'
  OBVIOUS
<1>0. /\ Allowed \in Nat /\ Interval \in Nat /\ sinceTick \in Nat /\ now \in Nat
      /\ Interval > 0 /\ sinceTick <= Interval
      /\ \A k \in DOMAIN cache : cache[k].updated \in Nat /\ cache[k].updated <= now
  BY AllowedTyped, EntriesTyped DEF TimeInv
<1>1. CASE ListPods
  <2>1. Allowed' = Allowed
    BY <1>1 DEF ListPods, Allowed
  <2> QED
    BY <1>0, <1>1, <2>1 DEF ListPods, FreshInv
<1>2. CASE ListPodsFails
  <2>1. Allowed' = Allowed + Interval
    BY <1>2, AllowedGrows, FaultTyped DEF ListPodsFails
  <2> QED
    BY <1>0, <1>2, <2>1 DEF ListPodsFails, FreshInv
<1>3. CASE Cleanup
  <2>1. Allowed' = Allowed /\ sinceTick = 0 /\ sinceTick' = 0
    BY <1>3 DEF Cleanup, Allowed, KeysInv
  <2>2. \A k \in DOMAIN cache' : k \in active /\ k \in DOMAIN cache /\ cache'[k] = cache[k]
    BY <1>3 DEF Cleanup
  <2>3. \A k \in DOMAIN cache' : cache'[k].updated = now
    <3>1. pass = "update" /\ now' = now
      BY <1>3 DEF Cleanup
    <3> QED
      BY <2>2, <3>1 DEF FreshInv
  <2> QED
    BY <1>0, <1>3, <2>1, <2>3 DEF Cleanup, FreshInv
<1>4. ASSUME NEW l \in todo, UpdateCached(l) \/ UpdateNew(l) PROVE FreshInv'
  <2>1. PICK e \in PodCosts :
          /\ Store(lives[l].key, e) /\ Visit(l) /\ lives[l].key \in Key /\ e.updated = now
    BY <1>4, Updates
  <2>2. /\ DOMAIN cache' = DOMAIN cache \cup {lives[l].key}
        /\ cache'[lives[l].key] = e
        /\ \A j \in DOMAIN cache \ {lives[l].key} : cache'[j] = cache[j]
    BY <2>1, StoreTyped
  <2>3. /\ pass = "update" /\ pass' = "update" /\ now' = now
        /\ active' = active \cup {lives[l].key}
    BY <2>1 DEF Visit
  <2>4. Allowed' \in Nat /\ Allowed' >= Allowed
    BY <2>1, StoreTyped, FaultAllows
  <2>5. ASSUME NEW j \in DOMAIN cache'
        PROVE  IF j \in active' THEN cache'[j].updated = now'
               ELSE now' - cache'[j].updated <= Interval + Allowed'
    <3>1. CASE j = lives[l].key
      BY <2>1, <2>2, <2>3, <3>1
    <3>2. CASE j # lives[l].key
      BY <1>0, <2>2, <2>3, <2>4, <3>2 DEF FreshInv
    <3> QED
      BY <3>1, <3>2
  <2> QED
    BY <2>3, <2>5 DEF FreshInv
<1>5. ASSUME NEW l \in todo, CalculateFails(l) PROVE FreshInv'
  <2>1. /\ pass = "update" /\ pass' = "update" /\ now' = now /\ cache' = cache
        /\ active' = active \cup {lives[l].key} /\ lives[l].key \notin DOMAIN cache
    BY <1>5 DEF CalculateFails, Visit
  <2>2. faults' = faults \/ faults' = faults + 1
    BY <1>5, FaultTyped DEF CalculateFails
  <2>3. Allowed' \in Nat /\ Allowed' >= Allowed
    BY <2>2, FaultAllows
  <2> QED
    BY <1>0, <2>1, <2>3 DEF FreshInv
<1>6. CASE Restart
  BY <1>6 DEF Restart, FreshInv, NoCache
<1>7. CASE Tick
  <2>1. Allowed' = Allowed
    BY <1>7 DEF Tick, Allowed
  <2> QED
    BY <1>0, <1>7, <2>1 DEF Tick, FreshInv
<1>8. CASE (\E k \in Key, kind \in Kind : Begin(k, kind)) \/ (\E l \in DOMAIN lives : End(l))
  <2>1. /\ cache' = cache /\ now' = now /\ pass' = pass /\ active' = active
        /\ sinceTick' = sinceTick /\ faults' = faults
    BY <1>8 DEF Begin, End, passVars
  <2> QED
    BY <2>1 DEF FreshInv, Allowed
<1>10. CASE UNCHANGED vars
  BY <1>10 DEF vars, passVars, FreshInv, Allowed
<1> QED
  BY <1>1, <1>2, <1>3, <1>4, <1>5, <1>6, <1>7, <1>8, <1>10 DEF Next, UpdateCosts

LEMMA FreshImplies == TypeOK /\ FreshInv /\ TimeInv /\ KeysInv => EntriesAreFresh
<1> SUFFICES ASSUME TypeOK, FreshInv, TimeInv, KeysInv, NEW k \in DOMAIN cache
             PROVE  now - cache[k].updated <= Patience
  BY DEF EntriesAreFresh
<1>1. /\ Allowed \in Nat /\ Interval \in Nat /\ sinceTick \in Nat /\ now \in Nat
      /\ sinceTick <= Interval /\ Patience = Interval + Allowed /\ cache[k].updated \in Nat
  BY AllowedTyped, EntriesTyped
<1>2. pass \in {"idle", "update"}
  BY DEF TypeOK
<1> QED
  BY <1>1, <1>2 DEF FreshInv

-----------------------------------------------------------------------------
(* Rows.                                                                   *)

\* A row is exact for its pod; those of the moment are of names that have been
\* dealt with, so none is ever written over.
RowInv ==
  /\ \A r \in rows :
       /\ r.pod \in DOMAIN lives /\ lives[r.pod].start <= r.time
       /\ r.time + sinceTick <= now
       /\ r.total = Rate[lives[r.pod].kind] * (r.time - lives[r.pod].start)
  /\ pass = "update" => \A r \in rows : r.time = now => r.key \in active

RowOf(k, e) == [key |-> k, pod |-> e.pod, time |-> e.updated, total |-> e.total, rate |-> e.rate]

LEMMA RowsTyped ==
  ASSUME TypeOK, NEW r \in rows
  PROVE  r.key \in Key /\ r.pod \in Nat /\ r.time \in Nat /\ r.total \in Nat
BY DEF TypeOK, Rows

LEMMA NothingOverwritten ==
  ASSUME KeysInv, RowInv, NEW l \in todo, Visit(l), NEW e, e.updated = now
  PROVE  Upserted(lives[l].key, e) = rows \cup {RowOf(lives[l].key, e)}
<1>1. pass = "update" /\ lives[l].key \notin active
  BY DEF Visit, KeysInv
<1>2. {r \in rows : r.key = lives[l].key /\ r.time = e.updated} = {}
  BY <1>1 DEF RowInv
<1> QED
  BY <1>2 DEF Upserted, RowOf

LEMMA RowNext == TypeOK /\ TimeInv /\ KeysInv /\ EntryInv /\ RowInv /\ [Next]_vars => RowInv'
<1> SUFFICES ASSUME TypeOK, TimeInv, KeysInv, EntryInv, RowInv, [Next]_vars PROVE RowInv'
  OBVIOUS
<1>0. /\ sinceTick \in Nat /\ now \in Nat /\ Interval \in Nat /\ Interval > 0
      /\ \A r \in rows : r.time \in Nat
  BY AllowedTyped, RowsTyped
<1>1. CASE ListPods
  BY <1>0, <1>1 DEF ListPods, RowInv
<1>2. CASE ListPodsFails
  BY <1>0, <1>2 DEF ListPodsFails, RowInv
<1>3. CASE Cleanup
  BY <1>3 DEF Cleanup, RowInv
<1>4. ASSUME NEW l \in todo, UpdateCached(l) \/ UpdateNew(l) PROVE RowInv'
  <2>1. PICK e \in PodCosts :
          /\ Store(lives[l].key, e) /\ Visit(l) /\ lives[l].key \in Key /\ l \in DOMAIN lives
          /\ e.updated = now
          /\ \/ lives[l].key \in DOMAIN cache /\ e = Extended(l)
             \/ e = Made(l) /\ lives[l].kind \in Counted
    BY <1>4, Updates
  <2>2. Exact(lives[l].key, e)
    BY <2>1, ExtendedExact, MadeExact
  <2>3. /\ pass' = "update" /\ now' = now /\ sinceTick' = sinceTick /\ lives' = lives
        /\ active' = active \cup {lives[l].key} /\ pass = "update" /\ sinceTick = 0
    BY <2>1 DEF Visit, KeysInv
  <2>4. \A r \in rows' \ rows : r = RowOf(lives[l].key, e)
    <3>1. Upserted(lives[l].key, e) = rows \cup {RowOf(lives[l].key, e)}
      BY <2>1, NothingOverwritten
    <3>2. rows' = Upserted(lives[l].key, e) \/ rows' = rows
      BY <2>1, StoreTyped
    <3> QED
      BY <3>1, <3>2
  <2>5. ASSUME NEW r \in rows', r = RowOf(lives[l].key, e)
        PROVE  /\ r.pod \in DOMAIN lives /\ lives[r.pod].start <= r.time
               /\ r.time = now /\ r.key = lives[l].key
               /\ r.total = Rate[lives[r.pod].kind] * (r.time - lives[r.pod].start)
    BY <2>1, <2>2, <2>5 DEF RowOf, Exact
  <2>6. ASSUME NEW r \in rows'
        PROVE  /\ r.pod \in DOMAIN lives /\ lives[r.pod].start <= r.time
               /\ r.time + sinceTick <= now
               /\ r.total = Rate[lives[r.pod].kind] * (r.time - lives[r.pod].start)
               /\ r.time = now => r.key \in active'
    <3>1. CASE r \in rows
      BY <2>3, <3>1 DEF RowInv
    <3>2. CASE r \notin rows
      BY <1>0, <2>3, <2>4, <2>5, <3>2
    <3> QED
      BY <3>1, <3>2
  <2> QED
    BY <2>3, <2>6 DEF RowInv
<1>5. ASSUME NEW l \in todo, CalculateFails(l) PROVE RowInv'
  BY <1>5 DEF CalculateFails, Visit, RowInv
<1>6. CASE Restart
  BY <1>0, <1>6 DEF Restart, RowInv
<1>7. CASE Tick
  BY <1>0, <1>7 DEF Tick, RowInv
<1>8. ASSUME NEW k \in Key, NEW kind \in Kind, Begin(k, kind) PROVE RowInv'
  <2>1. /\ DOMAIN lives \subseteq DOMAIN lives' /\ \A l \in DOMAIN lives : lives'[l] = lives[l]
    BY <1>8, BeginLives
  <2> QED
    BY <1>8, <2>1 DEF Begin, passVars, RowInv
<1>9. ASSUME NEW l \in DOMAIN lives, End(l) PROVE RowInv'
  BY <1>9, EndLives DEF End, passVars, RowInv
<1>10. CASE UNCHANGED vars
  BY <1>10 DEF vars, passVars, RowInv
<1> QED
  BY <1>1, <1>2, <1>3, <1>4, <1>5, <1>6, <1>7, <1>8, <1>9, <1>10 DEF Next, UpdateCosts

-----------------------------------------------------------------------------
(* Loss.                                                                   *)

Until(l) == IF lives[l].end = Never THEN now ELSE lives[l].end

\* How far behind the table may be with a pod, by the state of the pass.
Lag(l) ==
  IF lives[l].end # Never \/ l \in todo THEN Interval + Allowed
  ELSE Allowed + (IF pass = "idle" THEN sinceTick ELSE 0)

Covered(l) ==
  \/ Until(l) - lives[l].start <= Lag(l)
  \/ \E r \in rows : r.pod = l /\ Until(l) - r.time <= Lag(l)

LossInv == \A l \in DOMAIN lives \ merged : lives[l].kind \in Counted => Covered(l)

LagInv ==
  \A l \in DOMAIN lives :
    /\ Until(l) \in Nat /\ Until(l) <= now /\ lives[l].start \in Nat
    /\ Lag(l) \in Nat /\ Lag(l) <= Interval + Allowed

LEMMA LagTyped == TypeOK /\ TimeInv => LagInv
<1> SUFFICES ASSUME TypeOK, TimeInv, NEW l \in DOMAIN lives
             PROVE  /\ Until(l) \in Nat /\ Until(l) <= now /\ lives[l].start \in Nat
                    /\ Lag(l) \in Nat /\ Lag(l) <= Interval + Allowed
  BY DEF LagInv
<1>1. /\ Allowed \in Nat /\ Interval \in Nat /\ sinceTick \in Nat /\ sinceTick <= Interval
      /\ now \in Nat
  BY AllowedTyped
<1> QED
  BY <1>1, LivesTyped DEF Until, Lag, TimeInv

\* No step takes more from a pod's cover than it allows for.
LEMMA CoverKept ==
  ASSUME TypeOK, TimeInv, TypeOK', TimeInv', NEW l \in DOMAIN lives, l \in DOMAIN lives',
         Covered(l), lives'[l].start = lives[l].start, rows \subseteq rows',
         Until(l)' - Until(l) <= Lag(l)' - Lag(l)
  PROVE  Covered(l)'
<1>1. /\ Until(l) \in Nat /\ Lag(l) \in Nat /\ lives[l].start \in Nat
      /\ \A r \in rows : r.time \in Nat
  BY LagTyped, RowsTyped DEF LagInv
<1>a. LagInv'
  BY LagTyped, PTL
<1>2. Until(l)' \in Nat /\ Lag(l)' \in Nat
  BY <1>a DEF LagInv
<1>3. CASE Until(l) - lives[l].start <= Lag(l)
  BY <1>1, <1>2, <1>3 DEF Covered
<1>4. CASE \E r \in rows : r.pod = l /\ Until(l) - r.time <= Lag(l)
  BY <1>1, <1>2, <1>4 DEF Covered
<1> QED
  BY <1>3, <1>4 DEF Covered

\* A pod that is dealt with has its row, or has been paid for by a fault.
LEMMA Recovered ==
  ASSUME TypeOK, TimeInv, TypeOK', TimeInv', NEW l \in DOMAIN lives, l \in todo,
         lives' = lives, now' = now, rows \subseteq rows', Covered(l),
         \/ faults' = faults + 1
         \/ \E r \in rows' : r.pod = l /\ r.time = now
  PROVE  Covered(l)'
<1>1. /\ Until(l) \in Nat /\ Until(l) <= now /\ now \in Nat /\ Allowed \in Nat
      /\ Interval \in Nat /\ Lag(l) = Interval + Allowed
  BY LagTyped, AllowedTyped DEF LagInv, Lag
<1>2. Until(l)' = Until(l)
  BY DEF Until
<1>3. CASE faults' = faults + 1
  <2>1. Allowed' = Allowed + Interval
    BY <1>3, AllowedGrows
  <2>2. sinceTick' \in Nat
    BY TrackerAssumption DEF TypeOK
  <2>3. Lag(l)' >= Lag(l)
    BY <1>1, <2>1, <2>2 DEF Lag
  <2>a. LagInv'
    BY LagTyped, PTL
  <2>4. Lag(l)' \in Nat
    BY <2>a DEF LagInv
  <2> QED
    BY <1>1, <1>2, <2>3, <2>4, CoverKept
<1>4. CASE \E r \in rows' : r.pod = l /\ r.time = now
  <2>a. LagInv'
    BY LagTyped, PTL
  <2>1. Lag(l)' \in Nat
    BY <2>a DEF LagInv
  <2>2. PICK r \in rows' : r.pod = l /\ r.time = now
    BY <1>4
  <2>3. Until(l)' - r.time <= Lag(l)'
    BY <1>1, <1>2, <2>1, <2>2
  <2> QED
    BY <2>2, <2>3 DEF Covered
<1> QED
  BY <1>3, <1>4

LEMMA LossNext ==
  /\ TypeOK /\ TimeInv /\ KeysInv /\ EntryInv /\ RowInv /\ LossInv
  /\ TypeOK' /\ TimeInv' /\ [Next]_vars
  => LossInv'
<1> SUFFICES ASSUME TypeOK, TimeInv, KeysInv, EntryInv, RowInv, LossInv,
                    TypeOK', TimeInv', [Next]_vars
             PROVE  LossInv'
  OBVIOUS
<1>0. /\ sinceTick \in Nat /\ now \in Nat /\ Interval \in Nat /\ Interval > 0
      /\ sinceTick <= Interval /\ Allowed \in Nat
  BY AllowedTyped
<1>a. ASSUME lives' = lives, merged' = merged, rows' = rows,
             \A l \in DOMAIN lives : Until(l)' - Until(l) <= Lag(l)' - Lag(l)
      PROVE  LossInv'
  BY <1>a, CoverKept DEF LossInv
<1>b. \A l \in DOMAIN lives : Until(l) \in Nat /\ Lag(l) \in Nat /\ Lag(l) <= Interval + Allowed
  BY LagTyped DEF LagInv
<1>1. CASE ListPods
  <2>1. /\ lives' = lives /\ now' = now /\ merged' = merged /\ rows' = rows
        /\ Allowed' = Allowed /\ pass = "idle" /\ sinceTick = Interval
        /\ todo' = Running /\ pass' = "update"
    BY <1>1 DEF ListPods, Allowed
  <2>2. \A l \in DOMAIN lives : Lag(l)' >= Lag(l) /\ Lag(l)' \in Nat /\ Until(l)' = Until(l)
    BY <1>0, <2>1 DEF Lag, Until, Running
  <2> QED
    BY <1>a, <1>b, <2>1, <2>2
<1>2. CASE ListPodsFails \/ Restart
  <2>1. /\ lives' = lives /\ now' = now /\ merged' = merged /\ rows' = rows
        /\ faults' = faults + 1 /\ sinceTick' = 0 /\ pass' = "idle"
    BY <1>2 DEF ListPodsFails, Restart, Fault
  <2>2. Allowed' = Allowed + Interval
    BY <2>1, AllowedGrows
  <2>3. sinceTick' \in Nat
    BY TrackerAssumption DEF TypeOK
  <2>4. \A l \in DOMAIN lives : Lag(l)' >= Lag(l) /\ Lag(l)' \in Nat /\ Until(l)' = Until(l)
    BY <1>0, <1>b, <2>1, <2>2, <2>3 DEF Lag, Until
  <2> QED
    BY <1>a, <1>b, <2>1, <2>4
<1>3. CASE Cleanup
  <2>1. /\ lives' = lives /\ now' = now /\ merged' = merged /\ rows' = rows
        /\ Allowed' = Allowed /\ todo' = todo /\ sinceTick' = sinceTick
        /\ pass' = "idle" /\ pass = "update" /\ sinceTick = 0
    BY <1>3 DEF Cleanup, Allowed, KeysInv
  <2>2. \A l \in DOMAIN lives : Lag(l)' = Lag(l) /\ Until(l)' = Until(l)
    BY <1>0, <2>1 DEF Lag, Until
  <2> QED
    BY <1>a, <1>b, <2>1, <2>2
<1>4. ASSUME NEW l \in todo, UpdateCached(l) \/ UpdateNew(l) \/ CalculateFails(l) PROVE LossInv'
  <2>1. /\ lives' = lives /\ now' = now /\ pass' = pass /\ sinceTick' = sinceTick
        /\ todo' = todo \ {l} /\ l \in DOMAIN lives
    BY <1>4 DEF UpdateCached, UpdateNew, CalculateFails, Visit, TypeOK
  <2>2. /\ rows \subseteq rows' /\ merged \subseteq merged'
        /\ faults' = faults \/ faults' = faults + 1
        /\ \/ l \in merged' \/ lives[l].kind \notin Counted \/ faults' = faults + 1
           \/ \E r \in rows' : r.pod = l /\ r.time = now
    <3>1. CASE CalculateFails(l)
      <4>1. /\ rows' = rows /\ merged' = merged
            /\ IF lives[l].kind \in Counted THEN faults' = faults + 1 ELSE faults' = faults
        BY <3>1 DEF CalculateFails, Fault
      <4> QED
        BY <4>1
    <3>2. CASE UpdateCached(l) \/ UpdateNew(l)
      <4>1. PICK e \in PodCosts :
              /\ Store(lives[l].key, e) /\ Visit(l) /\ lives[l].key \in Key /\ e.updated = now
              /\ \/ /\ lives[l].key \in DOMAIN cache /\ e = Extended(l)
                    /\ merged' = IF cache[lives[l].key].pod = l THEN merged ELSE merged \cup {l}
                 \/ e = Made(l) /\ merged' = merged
        BY <3>2, Updates
      <4>2. l \in merged' \/ e.pod = l
        BY <2>1, <4>1, ExtendedTyped DEF Made
      <4>3. Upserted(lives[l].key, e) = rows \cup {RowOf(lives[l].key, e)}
        BY <4>1, NothingOverwritten
      <4>4. \/ rows' = rows \cup {RowOf(lives[l].key, e)} /\ faults' = faults
            \/ rows' = rows /\ faults' = faults + 1
        BY <4>1, <4>3, StoreTyped
      <4>5. RowOf(lives[l].key, e).pod = e.pod /\ RowOf(lives[l].key, e).time = now
        BY <4>1 DEF RowOf
      <4>6. merged \subseteq merged'
        BY <4>1
      <4> QED
        BY <4>2, <4>4, <4>5, <4>6
    <3> QED
      BY <1>4, <3>1, <3>2
  <2>3. Allowed' \in Nat /\ Allowed' >= Allowed
    BY <2>2, FaultAllows
  <2>4. ASSUME NEW m \in DOMAIN lives, m # l
        PROVE  Lag(m)' >= Lag(m) /\ Lag(m)' \in Nat /\ Until(m)' = Until(m)
    BY <1>0, <2>1, <2>3, <2>4 DEF Lag, Until
  <2>5. ASSUME NEW m \in DOMAIN lives \ merged', lives[m].kind \in Counted PROVE Covered(m)'
    <3>0. Covered(m)
      BY <2>2, <2>5 DEF LossInv
    <3>1. CASE m # l
      BY <1>b, <2>1, <2>2, <2>4, <3>0, <3>1, CoverKept
    <3>2. CASE m = l
      BY <2>1, <2>2, <2>5, <3>0, <3>2, Recovered
    <3> QED
      BY <3>1, <3>2
  <2> QED
    BY <2>1, <2>5 DEF LossInv
<1>7. CASE Tick
  <2>1. /\ lives' = lives /\ now' = now + 1 /\ merged' = merged /\ rows' = rows
        /\ Allowed' = Allowed /\ pass = "idle" /\ pass' = "idle" /\ todo' = todo
        /\ sinceTick' = sinceTick + 1 /\ todo = {}
    BY <1>7 DEF Tick, Allowed, KeysInv
  <2>2. \A l \in DOMAIN lives : Until(l)' - Until(l) <= Lag(l)' - Lag(l)
    BY <1>0, <1>b, <2>1 DEF Lag, Until
  <2> QED
    BY <1>a, <2>1, <2>2
<1>8. ASSUME NEW k \in Key, NEW kind \in Kind, Begin(k, kind) PROVE LossInv'
  <2>1. /\ now' = now /\ merged' = merged /\ rows' = rows /\ Allowed' = Allowed
        /\ pass' = pass /\ todo' = todo /\ sinceTick' = sinceTick
    BY <1>8 DEF Begin, passVars, Allowed
  <2>2. PICK new \in Nat :
          /\ new \notin DOMAIN lives /\ DOMAIN lives' = DOMAIN lives \cup {new}
          /\ lives'[new] = [key |-> k, kind |-> kind, start |-> now, end |-> Never]
          /\ \A l \in DOMAIN lives : lives'[l] = lives[l]
    BY <1>8, BeginLives
  <2>3. Covered(new)'
    <3>1. lives'[new].start = now /\ Until(new)' = now
      BY <2>1, <2>2 DEF Until
    <3>a. LagInv'
      BY LagTyped, PTL
    <3>2. Lag(new)' \in Nat
      BY <2>2, <3>a DEF LagInv
    <3> QED
      BY <1>0, <3>1, <3>2 DEF Covered
  <2>4. ASSUME NEW l \in DOMAIN lives PROVE Lag(l)' = Lag(l) /\ Until(l)' = Until(l)
    BY <2>1, <2>2 DEF Lag, Until
  <2>5. ASSUME NEW l \in DOMAIN lives, Covered(l) PROVE Covered(l)'
    BY <1>b, <2>1, <2>2, <2>4, <2>5, CoverKept
  <2> QED
    BY <2>1, <2>2, <2>3, <2>5 DEF LossInv
<1>9. ASSUME NEW l \in DOMAIN lives, End(l) PROVE LossInv'
  <2>1. /\ now' = now /\ merged' = merged /\ rows' = rows /\ Allowed' = Allowed
        /\ pass' = pass /\ todo' = todo /\ sinceTick' = sinceTick
    BY <1>9 DEF End, passVars, Allowed
  <2>2. /\ DOMAIN lives' = DOMAIN lives /\ lives[l].end = Never
        /\ \A m \in DOMAIN lives :
             /\ lives'[m].kind = lives[m].kind /\ lives'[m].start = lives[m].start
             /\ lives'[m].end = IF m = l THEN now ELSE lives[m].end
    BY <1>9, EndLives
  <2>3. now # Never
    BY <1>0, TrackerAssumption
  <2>4. ASSUME NEW m \in DOMAIN lives
        PROVE  Lag(m)' >= Lag(m) /\ Lag(m)' \in Nat /\ Until(m)' = Until(m)
    <3>1. CASE m = l
      BY <1>0, <1>b, <2>1, <2>2, <2>3, <3>1 DEF Lag, Until
    <3>2. CASE m # l
      BY <1>0, <1>b, <2>1, <2>2, <3>2 DEF Lag, Until
    <3> QED
      BY <3>1, <3>2
  <2>5. ASSUME NEW m \in DOMAIN lives, Covered(m) PROVE Covered(m)'
    BY <1>b, <2>1, <2>2, <2>4, <2>5, CoverKept
  <2> QED
    BY <2>1, <2>2, <2>5 DEF LossInv
<1>10. CASE UNCHANGED vars
  <2>1. \A l \in DOMAIN lives : Lag(l)' = Lag(l) /\ Until(l)' = Until(l)
    BY <1>10 DEF vars, passVars, Lag, Until, Allowed
  <2> QED
    BY <1>10, <1>a, <1>b, <2>1 DEF vars
<1> QED
  BY <1>1, <1>2, <1>3, <1>4, <1>7, <1>8, <1>9, <1>10 DEF Next, UpdateCosts

LEMMA LossImplies == TypeOK /\ TimeInv /\ RowInv /\ LossInv => LossIsBounded
<1> SUFFICES ASSUME TypeOK, TimeInv, RowInv, LossInv,
                    NEW l \in DOMAIN lives \ merged, lives[l].kind \in Counted
             PROVE  LET bound == Rate[lives[l].kind] * Patience IN
                    \/ Owed(l, now) <= bound
                    \/ \E r \in rows : r.pod = l /\ Owed(l, now) - r.total <= bound
  BY DEF LossIsBounded
<1> DEFINE rate == Rate[lives[l].kind]
<1>1. /\ Until(l) \in Nat /\ lives[l].start \in Nat /\ rate \in Nat /\ now \in Nat
      /\ Lag(l) \in Nat /\ Lag(l) <= Patience /\ Patience \in Nat
  BY LagTyped, LivesTyped, AllowedTyped DEF LagInv
<1>2. Owed(l, now) = rate * (Until(l) - lives[l].start)
  <2>1. lives[l].end # Never => lives[l].end \in Nat /\ lives[l].end <= now
    BY LivesTyped DEF TimeInv
  <2> QED
    BY <1>1, <2>1 DEF Owed, Until
<1>3. CASE Until(l) - lives[l].start <= Lag(l)
  <2>1. Until(l) - lives[l].start <= Patience /\ Until(l) - lives[l].start \in Int
    BY <1>1, <1>3
  <2>2. rate * (Until(l) - lives[l].start) <= rate * Patience
    BY <1>1, <2>1, Monotone
  <2> QED
    BY <1>2, <2>2
<1>4. CASE \E r \in rows : r.pod = l /\ Until(l) - r.time <= Lag(l)
  <2>1. PICK r \in rows : r.pod = l /\ Until(l) - r.time <= Lag(l)
    BY <1>4
  <2>2. r.time \in Nat /\ r.total = rate * (r.time - lives[l].start)
    BY <2>1, RowsTyped DEF RowInv
  <2>3. Until(l) - r.time <= Patience /\ Until(l) - r.time \in Int
    BY <1>1, <2>1, <2>2
  <2>4. rate * (Until(l) - r.time) <= rate * Patience
    BY <1>1, <2>3, Monotone
  <2>5. rate * (r.time - lives[l].start) + rate * (Until(l) - r.time)
          = rate * (Until(l) - lives[l].start)
    BY <1>1, <2>2, Distribute
  <2>6. /\ rate * (Until(l) - r.time) \in Int /\ rate * Patience \in Int
        /\ rate * (r.time - lives[l].start) \in Int
    BY <1>1, <2>2
  <2>7. Owed(l, now) - r.total <= rate * Patience
    BY <1>2, <2>2, <2>4, <2>5, <2>6
  <2> QED
    BY <2>1, <2>7
<1> QED
  BY <1>3, <1>4 DEF LossInv, Covered

-----------------------------------------------------------------------------
(* Theorems.                                                               *)

Inv ==
  /\ TypeOK /\ TimeInv /\ KeysInv /\ EntryInv /\ FreshInv /\ RowInv /\ LossInv

LEMMA InvInit == Init => Inv
<1> SUFFICES ASSUME Init PROVE Inv
  OBVIOUS
<1>1. TypeOK
  BY TypeInit
<1>2. /\ DOMAIN lives = {} /\ DOMAIN cache = {} /\ rows = {} /\ todo = {} /\ pass = "idle"
  BY DEF Init, NoCache
<1> QED
  BY <1>1, <1>2 DEF Inv, TimeInv, KeysInv, EntryInv, FreshInv, RowInv, LossInv, Running

LEMMA InvNext == Inv /\ [Next]_vars => Inv'
BY TypeNext, TimeNext, KeysNext, EntryNext, FreshNext, RowNext, LossNext DEF Inv

\* The invariant holds throughout.
THEOREM Invariance == Spec => []Inv
BY InvInit, InvNext, PTL DEF Spec

\* Every variable of the tracker, its table and its cluster keeps its type.
THEOREM TypeCorrect == Spec => []TypeOK
BY Invariance, PTL DEF Inv

\* An entry is always the exact cost of one pod up to its last update, however
\* often it was dropped and made anew (calculatePodCost).
THEOREM EntriesExact == Spec => []EntryIsExact
BY Invariance, EntryInvIsExact, PTL DEF Inv

\* No entry is older than an Interval and one more for each fault, and none
\* outlives its pod for longer (updateCosts).
THEOREM EntriesFresh == Spec => []EntriesAreFresh
BY Invariance, FreshImplies, PTL DEF Inv

\* What is missing from the table of a pod's cost never exceeds an Interval of
\* it and one more for each fault (updateCosts, InsertCostDataPoint).
THEOREM LossBounded == Spec => []LossIsBounded
BY Invariance, LossImplies, PTL DEF Inv

-----------------------------------------------------------------------------
(* Refinement.                                                             *)

\* The pods still to be dealt with run or have ended since they were listed,
\* and what was not read in this pass was not read for an Interval.
PassInv ==
  /\ \A l \in todo : lives[l].end \in {Never, now}
  /\ pass = "update" => \A r \in rows : r.time = now \/ r.time + Interval <= now

LEMMA PassNext ==
  TypeOK /\ TimeInv /\ KeysInv /\ RowInv /\ PassInv /\ [Next]_vars => PassInv'
<1> SUFFICES ASSUME TypeOK, TimeInv, KeysInv, RowInv, PassInv, [Next]_vars PROVE PassInv'
  OBVIOUS
<1>u. ASSUME UNCHANGED <<now, lives, rows, pass>>, todo' \subseteq todo PROVE PassInv'
  BY <1>u DEF PassInv
<1>i. ASSUME pass' = "idle", todo' = {} PROVE PassInv'
  BY <1>i DEF PassInv
<1>1. CASE ListPods
  <2>1. sinceTick = Interval /\ todo' = Running /\ UNCHANGED <<now, lives, rows>>
    BY <1>1 DEF ListPods
  <2>2. \A r \in rows' : r.time + Interval <= now'
    BY <2>1 DEF RowInv
  <2> QED
    BY <2>1, <2>2 DEF PassInv, Running
<1>2. CASE ListPodsFails
  BY <1>2, <1>u DEF ListPodsFails
<1>3. CASE Cleanup \/ Restart
  BY <1>3, <1>i DEF Cleanup, Restart
<1>4. ASSUME NEW l \in todo, UpdateCached(l) \/ UpdateNew(l) PROVE PassInv'
  <2>1. PICK e \in PodCosts : Store(lives[l].key, e) /\ Visit(l) /\ e.updated = now
    BY <1>4, Updates
  <2>2. /\ pass = "update" /\ todo' \subseteq todo /\ UNCHANGED <<now, lives>>
    BY <2>1 DEF Visit
  <2>3. rows' = rows \/ rows' = rows \cup {RowOf(lives[l].key, e)}
    BY <2>1, NothingOverwritten DEF Store
  <2>4. RowOf(lives[l].key, e).time = now
    BY <2>1 DEF RowOf
  <2> QED
    BY <2>2, <2>3, <2>4 DEF PassInv
<1>5. ASSUME NEW l \in todo, CalculateFails(l) PROVE PassInv'
  BY <1>5, <1>u DEF CalculateFails, Visit
<1>7. CASE Tick
  BY <1>7, <1>i DEF Tick, KeysInv
<1>8. ASSUME NEW k \in Key, NEW kind \in Kind, Begin(k, kind) PROVE PassInv'
  <2>1. /\ \A l \in DOMAIN lives : lives'[l] = lives[l]
        /\ UNCHANGED <<now, rows, pass, todo>> /\ todo \subseteq DOMAIN lives
    BY <1>8, BeginLives DEF Begin, passVars, TypeOK
  <2> QED
    BY <2>1 DEF PassInv
<1>9. ASSUME NEW l \in DOMAIN lives, End(l) PROVE PassInv'
  <2>1. /\ \A m \in DOMAIN lives : lives'[m].end = IF m = l THEN now ELSE lives[m].end
        /\ UNCHANGED <<now, rows, pass, todo>> /\ todo \subseteq DOMAIN lives
    BY <1>9, EndLives DEF End, passVars, TypeOK
  <2> QED
    BY <2>1 DEF PassInv
<1>10. CASE UNCHANGED vars
  BY <1>10, <1>u DEF vars, passVars
<1> QED
  BY <1>1, <1>2, <1>3, <1>4, <1>5, <1>7, <1>8, <1>9, <1>10 DEF Next, UpdateCosts

\* A row that is inserted is a reading the ledger allows.
LEMMA InsertionRecords ==
  ASSUME Inv, PassInv, NEW l \in todo, UpdateCached(l) \/ UpdateNew(l)
  PROVE  (\E m \in DOMAIN lives : Ledger!Record(m)) \/ UNCHANGED <<now, lives, rows>>
<1> USE DEF Inv
<1>1. PICK e \in PodCosts :
        /\ Store(lives[l].key, e) /\ Visit(l) /\ l \in DOMAIN lives /\ e.updated = now
        /\ \/ lives[l].key \in DOMAIN cache /\ e = Extended(l)
           \/ e = Made(l) /\ lives[l].kind \in Counted
  BY Updates
<1>2. Exact(lives[l].key, e)
  BY <1>1, ExtendedExact, MadeExact
<1>3. pass = "update" /\ lives[l].key \notin active /\ UNCHANGED <<now, lives>>
  BY <1>1 DEF Visit, KeysInv
<1>4. CASE rows' = rows
  BY <1>3, <1>4
<1>5. CASE rows' = Upserted(lives[l].key, e)
  <2>1. rows' = rows \cup {Ledger!Reading(e.pod)}
    <3>1. RowOf(lives[l].key, e) = Ledger!Reading(e.pod)
      BY <1>1, <1>2 DEF RowOf, Exact, Ledger!Reading
    <3> QED
      BY <1>1, <1>5, <3>1, NothingOverwritten
  <2>2. /\ e.pod \in DOMAIN lives /\ lives[e.pod].key = lives[l].key
        /\ lives[e.pod].kind \in Counted
    BY <1>2 DEF Exact
  <2>3. Ledger!Bears(lives[e.pod].key)
    BY <1>1, <2>2 DEF PassInv, Ledger!Bears
  <2>4. ASSUME NEW r \in rows, r.key = lives[e.pod].key PROVE r.time + Interval <= now
    <3>1. r.time # now
      BY <1>3, <2>2, <2>4 DEF RowInv
    <3> QED
      BY <1>3, <3>1 DEF PassInv
  <2> QED
    BY <1>3, <2>1, <2>2, <2>3, <2>4 DEF Ledger!Record
<1> QED
  BY <1>1, <1>4, <1>5 DEF Store

LEMMA StepImplementsLedger == Inv /\ PassInv /\ [Next]_vars => [Ledger!Next]_(Ledger!vars)
<1> SUFFICES ASSUME Inv, PassInv, [Next]_vars
             PROVE  Ledger!Next \/ UNCHANGED <<now, lives, rows>>
  BY DEF Ledger!vars
<1>1. CASE ListPods \/ ListPodsFails \/ Cleanup \/ Restart \/ UNCHANGED vars
  BY <1>1 DEF ListPods, ListPodsFails, Cleanup, Restart, vars
<1>2. ASSUME NEW l \in todo, UpdateCached(l) \/ UpdateNew(l)
      PROVE  Ledger!Next \/ UNCHANGED <<now, lives, rows>>
  BY <1>2, InsertionRecords DEF Ledger!Next
<1>3. ASSUME NEW l \in todo, CalculateFails(l) PROVE UNCHANGED <<now, lives, rows>>
  BY <1>3 DEF CalculateFails, Visit
<1>4. CASE Tick
  <2>1. Ledger!Tick
    BY <1>4 DEF Tick, Ledger!Tick
  <2> QED
    BY <2>1 DEF Ledger!Next
<1>5. ASSUME NEW k \in Key, NEW kind \in Kind, Begin(k, kind) PROVE Ledger!Next
  <2>1. Ledger!Begin(k, kind)
    BY <1>5 DEF Begin, Running, Ledger!Begin
  <2> QED
    BY <2>1 DEF Ledger!Next
<1>6. ASSUME NEW l \in DOMAIN lives, End(l) PROVE Ledger!Next
  <2>1. Ledger!End(l)
    BY <1>6 DEF End, Running, Ledger!End
  <2> QED
    BY <2>1 DEF Ledger!Next
<1> QED
  BY <1>1, <1>2, <1>3, <1>4, <1>5, <1>6 DEF Next, UpdateCosts

\* The tracker and the table implement a ledger of exact readings to which rows
\* are only added, whatever the cache has lost and however names are used again
\* (updateCosts, calculatePodCost, InsertCostDataPoint).
THEOREM TrackerImplementsLedger == Spec => ImplementsLedger
<1>1. Init => Ledger!Init /\ PassInv
  BY DEF Init, Ledger!Init, PassInv
<1>2. Inv /\ PassInv /\ [Next]_vars => PassInv'
  BY PassNext DEF Inv
<1> QED
  BY <1>1, <1>2, Invariance, StepImplementsLedger, PTL DEF Spec, Ledger!Spec, ImplementsLedger
=============================================================================
