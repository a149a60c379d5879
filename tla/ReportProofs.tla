----------------------------- MODULE ReportProofs -----------------------------
(***************************************************************************)
(* What Cost shows of the reports on a small instance, proved for all      *)
(* names, kinds and teams of pods, all rates, every interval and any       *)
(* number of pods, failed calls and restarts; and of the prices on AWS.    *)
(***************************************************************************)
EXTENDS CostPrices, CostProofs, SumProofs

-----------------------------------------------------------------------------
(* The invariant.                                                          *)

\* A row is under the name of its pod, one row of a name and a time; none is of
\* a time after its pod's end, unless a pod was taken for an earlier one.
TableInv ==
  /\ IsFiniteSet(rows)
  /\ \A r \in rows : r.key = lives[r.pod].key
  /\ \A r, s \in rows : r.key = s.key /\ r.time = s.time => r = s
  /\ \A l \in todo : lives[l].end \in {Never, now}
  /\ merged = {} => \A r \in rows : lives[r.pod].end = Never \/ r.time <= lives[r.pod].end

\* While nothing has failed a running pod of which GPUs are counted has an
\* entry under its name, from the first pass after its start.
TrackedInv ==
  faults = 0 => \A l \in Running : lives[l].kind \in Counted =>
    \/ lives[l].key \in DOMAIN cache /\ (pass = "update" /\ l \notin todo => lives[l].key \in active)
    \/ now - lives[l].start
         <= (IF pass = "idle" THEN sinceTick ELSE IF l \in todo THEN Interval ELSE 0)

-----------------------------------------------------------------------------
(* The table.                                                              *)

LEMMA TableNext ==
  /\ TypeOK /\ TimeInv /\ KeysInv /\ EntryInv /\ RowInv /\ TableInv /\ [Next]_vars => TableInv'
<1> SUFFICES ASSUME TypeOK, TimeInv, KeysInv, EntryInv, RowInv, TableInv, [Next]_vars
             PROVE  TableInv'
  OBVIOUS
<1>0. /\ now \in Nat /\ now # Never /\ todo \subseteq DOMAIN lives
      /\ \A r \in rows : r.time \in Nat /\ r.time <= now /\ r.pod \in DOMAIN lives
  <2>1. sinceTick \in Nat /\ now \in Nat
    BY AllowedTyped
  <2> QED
    BY <2>1, RowsTyped, TrackerAssumption DEF RowInv, TypeOK
<1>1. CASE ListPods
  BY <1>1 DEF ListPods, TableInv, Running
<1>2. CASE ListPodsFails \/ Restart \/ Cleanup
  BY <1>2 DEF ListPodsFails, Restart, Cleanup, TableInv
<1>4. ASSUME NEW l \in todo, UpdateCached(l) \/ UpdateNew(l) PROVE TableInv'
  <2>1. PICK e \in PodCosts :
          /\ Store(lives[l].key, e) /\ Visit(l) /\ lives[l].key \in Key
          /\ e.updated = now /\ l \in DOMAIN lives
          /\ \/ /\ lives[l].key \in DOMAIN cache /\ e = Extended(l)
                /\ merged' = IF cache[lives[l].key].pod = l THEN merged ELSE merged \cup {l}
             \/ e = Made(l) /\ merged' = merged /\ lives[l].kind \in Counted
    BY <1>4, Updates
  <2> DEFINE row == RowOf(lives[l].key, e)
  <2>2. Exact(lives[l].key, e)
    BY <2>1, ExtendedExact, MadeExact
  <2>3. /\ row.key = lives[l].key /\ row.pod = e.pod /\ row.time = now
    BY <2>1 DEF RowOf
  <2>4. merged' = {} => merged = {} /\ e.pod = l
    BY <2>1, ExtendedTyped DEF Made
  <2>5. lives' = lives /\ now' = now /\ todo' = todo \ {l} /\ lives[l].end \in {Never, now}
    BY <2>1 DEF Visit, TableInv
  <2>6. \A r \in rows : r.key = lives[l].key => r.time # now
    BY <2>1 DEF Visit, KeysInv, RowInv
  <2>7. rows' = rows \cup {row} \/ rows' = rows
    <3>1. Upserted(lives[l].key, e) = rows \cup {row}
      BY <2>1, NothingOverwritten
    <3>2. rows' = Upserted(lives[l].key, e) \/ rows' = rows
      BY <2>1, StoreTyped
    <3> QED
      BY <3>1, <3>2
  <2> HIDE DEF row
  <2>8. IsFiniteSet(rows')
    BY <2>7, FS_AddElement DEF TableInv
  <2>9. \A r \in rows' : r.key = lives[r.pod].key
    BY <2>2, <2>3, <2>7 DEF TableInv, Exact
  <2>10. \A r, s \in rows' : r.key = s.key /\ r.time = s.time => r = s
    BY <2>3, <2>6, <2>7 DEF TableInv
  <2>11. merged' = {} => \A r \in rows' : lives[r.pod].end = Never \/ r.time <= lives[r.pod].end
    BY <1>0, <2>3, <2>4, <2>5, <2>7 DEF TableInv
  <2>12. \A m \in todo' : lives[m].end \in {Never, now}
    BY <2>5 DEF TableInv
  <2> QED
    BY <2>5, <2>8, <2>9, <2>10, <2>11, <2>12 DEF TableInv
<1>5. ASSUME NEW l \in todo, CalculateFails(l) PROVE TableInv'
  BY <1>5 DEF CalculateFails, Visit, TableInv
<1>7. CASE Tick
  BY <1>7 DEF Tick, TableInv, KeysInv
<1>8. ASSUME NEW k \in Key, NEW kind \in Kind, Begin(k, kind) PROVE TableInv'
  <2>1. \A l \in DOMAIN lives : lives'[l] = lives[l]
    BY <1>8, BeginLives
  <2> QED
    BY <1>0, <1>8, <2>1 DEF Begin, passVars, TableInv
<1>9. ASSUME NEW l \in DOMAIN lives, End(l) PROVE TableInv'
  <2>1. \A m \in DOMAIN lives :
          /\ lives'[m].key = lives[m].key
          /\ lives'[m].end = IF m = l THEN now ELSE lives[m].end
    BY <1>9, EndLives
  <2> QED
    BY <1>0, <1>9, <2>1 DEF End, passVars, TableInv
<1>10. CASE UNCHANGED vars
  BY <1>10 DEF vars, passVars, TableInv
<1> QED
  BY <1>1, <1>2, <1>4, <1>5, <1>7, <1>8, <1>9, <1>10 DEF Next, UpdateCosts

-----------------------------------------------------------------------------
(* Which pods have an entry.                                               *)

LEMMA TrackedNext == TypeOK /\ TimeInv /\ KeysInv /\ TrackedInv /\ [Next]_vars => TrackedInv'
<1> SUFFICES ASSUME TypeOK, TimeInv, KeysInv, TrackedInv, [Next]_vars, faults' = 0
             PROVE  TrackedInv'
  BY DEF TrackedInv
<1>0. /\ sinceTick \in Nat /\ now \in Nat /\ Interval \in Nat /\ faults \in Nat
      /\ \A l \in DOMAIN lives : lives[l].start \in Nat
      /\ pass \in {"idle", "update"} /\ sinceTick <= Interval
  BY AllowedTyped, LivesTyped, TrackerBounds DEF TypeOK
<1>1. CASE ListPods
  BY <1>0, <1>1 DEF ListPods, TrackedInv, Running
<1>2. CASE ListPodsFails \/ Restart
  BY <1>0, <1>2 DEF ListPodsFails, Restart, Fault
<1>3. CASE Cleanup
  BY <1>0, <1>3 DEF Cleanup, TrackedInv, KeysInv, Running
<1>4. ASSUME NEW l \in todo, UpdateCached(l) \/ UpdateNew(l) PROVE TrackedInv'
  <2>1. PICK e \in PodCosts :
          Store(lives[l].key, e) /\ Visit(l) /\ lives[l].key \in Key /\ e.updated = now
    BY <1>4, Updates
  <2>a. faults' = faults \/ faults' = faults + 1
    BY <2>1, StoreTyped
  <2>2. DOMAIN cache' = DOMAIN cache \cup {lives[l].key} /\ faults = 0
    <3>1. DOMAIN cache' = DOMAIN cache \cup {lives[l].key}
      BY <2>1, StoreTyped
    <3> QED
      BY <1>0, <2>a, <3>1
  <2>3. /\ lives' = lives /\ now' = now /\ pass' = pass /\ sinceTick' = sinceTick
        /\ todo' = todo \ {l} /\ active' = active \cup {lives[l].key} /\ pass = "update"
    BY <2>1 DEF Visit
  <2> QED
    BY <2>2, <2>3 DEF TrackedInv, Running
<1>5. ASSUME NEW l \in todo, CalculateFails(l) PROVE TrackedInv'
  <2>1. /\ lives' = lives /\ now' = now /\ pass' = pass /\ sinceTick' = sinceTick
        /\ todo' = todo \ {l} /\ active' = active \cup {lives[l].key} /\ cache' = cache
        /\ faults = 0 /\ lives[l].kind \notin Counted /\ pass = "update"
    BY <1>0, <1>5 DEF CalculateFails, Visit, Fault
  <2> QED
    BY <2>1 DEF TrackedInv, Running
<1>7. CASE Tick
  BY <1>0, <1>7 DEF Tick, TrackedInv, Running
<1>8. ASSUME NEW k \in Key, NEW kind \in Kind, Begin(k, kind) PROVE TrackedInv'
  <2>1. PICK new \in Nat :
          /\ new \notin DOMAIN lives /\ DOMAIN lives' = DOMAIN lives \cup {new}
          /\ lives'[new] = [key |-> k, kind |-> kind, start |-> now, end |-> Never]
          /\ \A l \in DOMAIN lives : lives'[l] = lives[l]
    BY <1>8, BeginLives
  <2>2. /\ now' = now /\ cache' = cache /\ pass' = pass /\ sinceTick' = sinceTick
        /\ todo' = todo /\ active' = active /\ faults' = faults
    BY <1>8 DEF Begin, passVars
  <2>3. lives'[new].start = now
    BY <2>1
  <2> QED
    BY <1>0, <2>1, <2>2, <2>3 DEF TrackedInv, Running
<1>9. ASSUME NEW l \in DOMAIN lives, End(l) PROVE TrackedInv'
  <2>1. /\ DOMAIN lives' = DOMAIN lives
        /\ \A m \in DOMAIN lives :
             /\ lives'[m].key = lives[m].key /\ lives'[m].kind = lives[m].kind
             /\ lives'[m].start = lives[m].start
             /\ lives'[m].end = IF m = l THEN now ELSE lives[m].end
    BY <1>9, EndLives
  <2>2. /\ now' = now /\ cache' = cache /\ pass' = pass /\ sinceTick' = sinceTick
        /\ todo' = todo /\ active' = active /\ faults' = faults /\ now # Never
    BY <1>0, <1>9, TrackerAssumption DEF End, passVars
  <2> QED
    BY <2>1, <2>2 DEF TrackedInv, Running
<1>10. CASE UNCHANGED vars
  BY <1>10 DEF vars, passVars, TrackedInv, Running
<1> QED
  BY <1>1, <1>2, <1>3, <1>4, <1>5, <1>7, <1>8, <1>9, <1>10 DEF Next, UpdateCosts

-----------------------------------------------------------------------------
(* The invariant holds.                                                    *)

ReportInv == Inv /\ TableInv /\ TrackedInv

LEMMA ReportInit == Init => ReportInv
<1> SUFFICES ASSUME Init PROVE ReportInv
  OBVIOUS
<1>1. Inv
  BY InvInit
<1>2. rows = {} /\ todo = {} /\ DOMAIN lives = {}
  BY DEF Init
<1> QED
  BY <1>1, <1>2, FS_EmptySet DEF ReportInv, TableInv, TrackedInv, Running

LEMMA ReportNext == ReportInv /\ [Next]_vars => ReportInv'
<1> SUFFICES ASSUME ReportInv, [Next]_vars PROVE ReportInv'
  OBVIOUS
<1>1. TypeOK /\ TimeInv /\ KeysInv /\ EntryInv /\ RowInv /\ TableInv /\ TrackedInv
  BY DEF ReportInv, Inv
<1>2. Inv'
  BY InvNext DEF ReportInv
<1>3. TableInv'
  BY <1>1, TableNext
<1>4. TrackedInv'
  BY <1>1, TrackedNext
<1> QED
  BY <1>2, <1>3, <1>4 DEF ReportInv

\* The invariant holds throughout.
THEOREM ReportInvariance == Spec => []ReportInv
BY ReportInit, ReportNext, PTL DEF Spec

-----------------------------------------------------------------------------
(* Numbers and sets.                                                       *)

\* A set of numbers has a least one.
LEMMA MinIsLeast ==
  ASSUME NEW S, S \subseteq Nat, S # {}
  PROVE  Min(S) \in S /\ \A x \in S : Min(S) <= x
<1>1. PICK m \in S : \A x \in S : <<x, m>> \notin OpToRel(<, Nat)
  BY NatLessThanWellFounded, WFMin
<1>2. \A x \in S : ~(x < m)
  <2> TAKE x \in S
  <2>1. x \in Nat /\ m \in Nat /\ <<x, m>> \notin OpToRel(<, Nat)
    BY <1>1
  <2> QED
    BY <2>1 DEF OpToRel
<1>3. \A x \in S : m <= x
  BY <1>2
<1> QED
  BY <1>3 DEF Min

LEMMA PositivePart ==
  ASSUME NEW x \in Int
  PROVE  Max({0, x}) = IF x > 0 THEN x ELSE 0
<1>1. \E m \in {0, x} : \A y \in {0, x} : m >= y
  OBVIOUS
<1>2. Max({0, x}) \in {0, x} /\ \A y \in {0, x} : Max({0, x}) >= y
  BY <1>1 DEF Max
<1> QED
  BY <1>2

\* There are finitely many pods.
LEMMA LivesFinite ==
  ASSUME TypeOK, NEW pods, pods \subseteq DOMAIN lives
  PROVE  IsFiniteSet(pods)
<1>1. DOMAIN lives = 1..Len(lives) /\ Len(lives) \in Nat
  BY DEF TypeOK
<1>2. IsFiniteSet(DOMAIN lives)
  BY <1>1, FS_Interval
<1> QED
  BY <1>2, FS_Subset

-----------------------------------------------------------------------------
(* What pods owe, what they are charged.                                   *)

Debt == [l \in DOMAIN lives |-> Owed(l, now)]
Charge == [l \in DOMAIN lives |-> CostOfPod(l)]

LEMMA OwedUntil ==
  ASSUME TypeOK, TimeInv, NEW l \in DOMAIN lives
  PROVE  /\ Owed(l, now) = Rate[lives[l].kind] * (Until(l) - lives[l].start)
         /\ Owed(l, now) \in Nat
         /\ Until(l) \in Nat /\ lives[l].start \in Nat /\ Rate[lives[l].kind] \in Nat
<1>1. /\ Until(l) \in Nat /\ lives[l].start \in Nat /\ now \in Nat
      /\ Rate[lives[l].kind] \in Nat
  BY LagTyped, LivesTyped, AllowedTyped DEF LagInv
<1>2. lives[l].end # Never => lives[l].end \in Nat /\ lives[l].end <= now
  BY LivesTyped DEF TimeInv
<1>3. Owed(l, now) = Rate[lives[l].kind] * (Until(l) - lives[l].start)
  BY <1>1, <1>2 DEF Owed, Until
<1>4. Until(l) - lives[l].start \in Nat
  BY <1>1, <1>2 DEF TimeInv, Until
<1>5. Rate[lives[l].kind] * (Until(l) - lives[l].start) \in Nat
  BY <1>1, <1>4, ProductNat
<1> QED
  BY <1>1, <1>3, <1>5

\* A row of a pod that was not taken for another is part of what it owes.
LEMMA RowIsOwed ==
  ASSUME TypeOK, TimeInv, RowInv, TableInv, merged = {}, NEW r \in rows
  PROVE  /\ r.pod \in DOMAIN lives /\ r.total \in Nat /\ r.total <= Owed(r.pod, now)
         /\ lives[r.pod].end \in Nat => r.time <= lives[r.pod].end
         /\ r.time \in Nat /\ r.time <= now /\ lives[r.pod].start <= r.time
         /\ r.time = lives[r.pod].start => r.total = 0
<1> DEFINE l == r.pod
           rate == Rate[lives[l].kind]
<1>1. /\ l \in DOMAIN lives /\ lives[l].start <= r.time
      /\ r.total = rate * (r.time - lives[l].start) /\ r.time + sinceTick <= now
  BY DEF RowInv
<1>2. /\ Owed(l, now) = rate * (Until(l) - lives[l].start)
      /\ Until(l) \in Nat /\ lives[l].start \in Nat /\ rate \in Nat
      /\ r.time \in Nat /\ r.total \in Nat /\ now \in Nat /\ sinceTick \in Nat
  BY <1>1, OwedUntil, RowsTyped, AllowedTyped
<1>3. r.time <= now /\ (lives[l].end \in Nat => r.time <= lives[l].end)
  BY <1>1, <1>2, TrackerAssumption DEF TableInv
<1>4. r.time <= Until(l)
  BY <1>3, <1>2, LivesTyped, <1>1 DEF Until
<1> HIDE DEF rate, l
<1>5. rate * (r.time - lives[l].start) <= rate * (Until(l) - lives[l].start)
  BY <1>2, <1>4, Monotone
<1>6. r.time = lives[l].start => r.total = 0
  BY <1>1, <1>2
<1> QED
  BY <1>1, <1>2, <1>3, <1>5, <1>6 DEF l

\* The tracker's cost of a pod is exact up to its entry's last update.
LEMMA CostTyped ==
  ASSUME TypeOK, NEW l \in DOMAIN lives
  PROVE  CostOfPod(l) \in Nat
BY EntriesTyped DEF CostOfPod

LEMMA CostIsOwed ==
  ASSUME TypeOK, TimeInv, EntryInv, ~NameReused, NEW l \in Running
  PROVE  /\ CostOfPod(l) <= Owed(l, now)
         /\ lives[l].key \in DOMAIN cache =>
              CostOfPod(l)
                = Rate[lives[l].kind] * (cache[lives[l].key].updated - lives[l].start)
<1> DEFINE rate == Rate[lives[l].kind]
           e == cache[lives[l].key]
<1>1. l \in DOMAIN lives /\ Until(l) = now
  BY DEF Running, Until
<1>2. /\ Owed(l, now) = rate * (now - lives[l].start) /\ Owed(l, now) \in Nat
      /\ now \in Nat /\ lives[l].start \in Nat /\ rate \in Nat
  BY <1>1, OwedUntil, AllowedTyped
<1>3. CASE lives[l].key \notin DOMAIN cache
  BY <1>2, <1>3 DEF CostOfPod
<1>4. CASE lives[l].key \in DOMAIN cache
  <2>1. e.pod = l
    BY <1>4 DEF NameReused
  <2>2. /\ e.rate = rate /\ e.total = e.rate * (e.updated - lives[l].start)
        /\ e.updated <= now /\ e.updated \in Nat
    BY <1>4, <2>1, EntriesTyped DEF EntryInv, Exact, TimeInv
  <2>3. CostOfPod(l) = e.total
    BY <1>4 DEF CostOfPod
  <2> HIDE DEF e, rate
  <2>4. rate * (e.updated - lives[l].start) <= rate * (now - lives[l].start)
    BY <1>2, <2>2, Monotone
  <2>5. CostOfPod(l) <= Owed(l, now) /\ CostOfPod(l) = rate * (e.updated - lives[l].start)
    BY <1>2, <2>2, <2>3, <2>4
  <2> QED
    BY <2>5 DEF e, rate
<1> QED
  BY <1>3, <1>4

\* What pods owe is a sum of one function, whichever pods they are.
LEMMA DebtSum ==
  ASSUME TypeOK, TimeInv, NEW pods, pods \subseteq DOMAIN lives
  PROVE  /\ IsFiniteSet(pods) /\ OwedBy(pods) = SumFunctionOnSet(Debt, pods)
         /\ \A l \in DOMAIN lives : Debt[l] = Owed(l, now) /\ Debt[l] \in Nat
<1>1. \A l \in DOMAIN lives : Debt[l] = Owed(l, now) /\ Debt[l] \in Nat
  BY OwedUntil DEF Debt
<1>2. IsFiniteSet(pods)
  BY LivesFinite
<1>3. SumFunction([l \in pods |-> Debt[l]]) = SumFunctionOnSet(Debt, pods)
  <2>1. \A l \in pods : Debt[l] \in Int
    BY <1>1
  <2> QED
    BY <1>2, <2>1, SumOver
<1>4. [l \in pods |-> Debt[l]] = [l \in pods |-> Owed(l, now)]
  BY <1>1
<1>5. OwedBy(pods) = SumFunction([l \in pods |-> Debt[l]])
  BY <1>4, Zenon DEF OwedBy
<1> QED
  BY <1>1, <1>2, <1>3, <1>5

\* So is what they are charged.
LEMMA ChargeSum ==
  ASSUME TypeOK, TimeInv, NEW pods, pods \subseteq DOMAIN lives
  PROVE  /\ IsFiniteSet(pods) /\ CostOfPods(pods) = SumFunctionOnSet(Charge, pods)
         /\ \A l \in DOMAIN lives : Charge[l] = CostOfPod(l) /\ Charge[l] \in Nat
<1>1. \A l \in DOMAIN lives : Charge[l] = CostOfPod(l) /\ Charge[l] \in Nat
  BY CostTyped DEF Charge
<1>2. IsFiniteSet(pods)
  BY LivesFinite
<1>3. SumFunction([l \in pods |-> Charge[l]]) = SumFunctionOnSet(Charge, pods)
  <2>1. \A l \in pods : Charge[l] \in Int
    BY <1>1
  <2> QED
    BY <1>2, <2>1, SumOver
<1>4. [l \in pods |-> Charge[l]] = [l \in pods |-> CostOfPod(l)]
  BY <1>1
<1>5. CostOfPods(pods) = SumFunction([l \in pods |-> Charge[l]])
  BY <1>4, Zenon DEF CostOfPods
<1> QED
  BY <1>1, <1>2, <1>3, <1>5

-----------------------------------------------------------------------------
(* What the table holds of a team.                                         *)

\* The last rows of the names of a team sum up to no more than its pods owe,
\* whatever rows are left out: each pod is in one of them at most.
LEMMA TeamHistory ==
  ASSUME TypeOK, TimeInv, RowInv, TableInv, merged = {},
         NEW team, NEW from, NEW to, NEW pods, pods \subseteq DOMAIN lives,
         \A r \in Between(from, to) :
           TeamOf[KindOf(r.pod)] = team => r.pod \in pods \/ r.total = 0
  PROVE  CostByTeam(team, from, to) \in Nat /\ CostByTeam(team, from, to) <= OwedBy(pods)
<1> DEFINE samples == {r \in Between(from, to) : TeamOf[KindOf(r.pod)] = team}
           last == LatestOf(samples)
           Total == [r \in last |-> r.total]
           of == {r \in last : r.pod \in pods}
           pod == [r \in of |-> r.pod]
<1>1. samples \subseteq rows /\ last \subseteq samples
  BY DEF Between, LatestOf
<1>2. IsFiniteSet(last) /\ IsFiniteSet(of) /\ IsFiniteSet(last \ of)
  <2> HIDE DEF last, samples
  <2> QED
    BY <1>1, FS_Subset DEF TableInv
<1>3. CostByTeam(team, from, to) = SumFunctionOnSet(Total, last)
  BY DEF CostByTeam, SumOfTotals, SumFunction
<1>4. \A r \in last : Total[r] = r.total /\ Total[r] \in Nat
  BY <1>1, RowIsOwed
<1>5. ASSUME NEW r \in of, NEW s \in of, r.pod = s.pod PROVE r = s
  <2>1. r \in rows /\ s \in rows /\ r.key = s.key /\ r.time \in Nat /\ s.time \in Nat
    BY <1>1, <1>5, RowIsOwed DEF TableInv
  <2>2. r.time <= s.time /\ s.time <= r.time
    BY <2>1 DEF LatestOf
  <2> QED
    BY <2>1, <2>2 DEF TableInv
<1>6. /\ IsFiniteSet(pods) /\ OwedBy(pods) = SumFunctionOnSet(Debt, pods)
      /\ \A l \in DOMAIN lives : Debt[l] = Owed(l, now) /\ Debt[l] \in Nat
  BY DebtSum
<1>7. \A r \in last \ of : Total[r] = 0
  BY <1>1, <1>4
<1>8. \A r \in of : pod[r] = r.pod /\ pod[r] \in pods /\ Total[r] \in Int /\ Total[r] <= Debt[pod[r]]
  BY <1>1, <1>4, <1>6, RowIsOwed
<1>9. \A r, s \in of : pod[r] = pod[s] => r = s
  BY <1>5, <1>8
<1>10. last = of \cup (last \ of) /\ of \cap (last \ of) = {}
  OBVIOUS
<1>11. \A l \in pods : Debt[l] \in Nat
  BY <1>6
<1>12. of \subseteq last /\ last \ of \subseteq last
  OBVIOUS
<1> HIDE DEF last, of, Total, pod, samples
<1>13. SumFunctionOnSet(Total, of) <= SumFunctionOnSet(Debt, pods)
  BY <1>2, <1>6, <1>8, <1>9, <1>11, SumInjective
<1>14. SumFunctionOnSet(Total, last \ of) = 0
  BY <1>2, <1>7, SumZero
<1>15. SumFunctionOnSet(Total, of \cup (last \ of))
         = SumFunctionOnSet(Total, of) + SumFunctionOnSet(Total, last \ of)
  BY <1>2, <1>4, <1>10, <1>12, SumDisjoint
<1>16. SumFunctionOnSet(Total, of \cup (last \ of)) = SumFunctionOnSet(Total, last)
  BY <1>10, Zenon
<1>17. SumFunctionOnSet(Total, of) \in Nat
  BY <1>2, <1>4, <1>12, SumNat
<1> QED
  BY <1>3, <1>6, <1>13, <1>14, <1>15, <1>16, <1>17

\* The spend of one team is that of the team.
LEMMA TeamSpend ==
  ASSUME NEW team, NEW from, NEW to, CostByTeam(team, from, to) \in Nat
  PROVE  HistoricalSpend(TeamScope(team), from, to) = CostByTeam(team, from, to)
<1> DEFINE G == [t \in {team} |-> CostByTeam(t, from, to)]
<1>1. HistoricalSpend(TeamScope(team), from, to) = SumFunctionOnSet(G, {team})
  <2>1. HistoricalSpend(TeamScope(team), from, to) = SumFunction(G)
    BY DEF HistoricalSpend, TeamScope
  <2>2. DOMAIN G = {team}
    OBVIOUS
  <2> HIDE DEF G
  <2> QED
    BY <2>1, <2>2, Zenon DEF SumFunction
<1>2. G[team] = CostByTeam(team, from, to)
  OBVIOUS
<1>3. SumFunctionOnSet(G, {} \cup {team}) = G[team] + SumFunctionOnSet(G, {})
  <2> HIDE DEF G
  <2>1. IsFiniteSet({}) /\ team \notin {} /\ \A t \in {} \cup {team} : G[t] \in Int
    BY <1>2, FS_EmptySet
  <2> QED
    BY <2>1, SumAdd
<1>4. SumFunctionOnSet(G, {}) = 0
  BY SumEmpty
<1>5. {} \cup {team} = {team}
  OBVIOUS
<1> HIDE DEF G
<1>6. SumFunctionOnSet(G, {team}) = G[team] + SumFunctionOnSet(G, {})
  BY <1>3, <1>5, Zenon
<1> QED
  BY <1>1, <1>2, <1>4, <1>6

LEMMA TeamPods ==
  ASSUME NEW team
  PROVE  ScopePods(TeamScope(team)) = {l \in Running : TeamOf[KindOf(l)] = team}
BY DEF ScopePods, TeamScope

-----------------------------------------------------------------------------
(* A budget and an attribution charge no more than was spent.              *)

\* No running pod is charged more than it owes.
LEMMA LiveIsOwed ==
  ASSUME TypeOK, TimeInv, EntryInv, ~NameReused, NEW pods, pods \subseteq Running
  PROVE  CostOfPods(pods) \in Nat /\ CostOfPods(pods) <= OwedBy(pods)
<1>0. pods \subseteq DOMAIN lives
  BY DEF Running
<1>1. /\ IsFiniteSet(pods) /\ CostOfPods(pods) = SumFunctionOnSet(Charge, pods)
      /\ OwedBy(pods) = SumFunctionOnSet(Debt, pods)
      /\ \A l \in pods : Charge[l] = CostOfPod(l) /\ Charge[l] \in Nat
      /\ \A l \in pods : Debt[l] = Owed(l, now) /\ Debt[l] \in Nat
  BY <1>0, DebtSum, ChargeSum
<1>2. \A l \in pods : Charge[l] <= Debt[l]
  BY <1>1, CostIsOwed
<1>3. SumFunctionOnSet(Charge, pods) <= SumFunctionOnSet(Debt, pods)
  BY <1>1, <1>2, SumLeq
<1>4. SumFunctionOnSet(Charge, pods) \in Nat
  BY <1>1, SumNat
<1> QED
  BY <1>1, <1>3, <1>4

\* Some pods and the others owe what all of them owe.
LEMMA OwedParts ==
  ASSUME TypeOK, TimeInv, NEW pods, pods \subseteq DOMAIN lives, NEW some, some \subseteq pods
  PROVE  /\ OwedBy(pods) = OwedBy(pods \ some) + OwedBy(some)
         /\ OwedBy(pods) \in Nat /\ OwedBy(pods \ some) \in Nat /\ OwedBy(some) \in Nat
<1> DEFINE rest == pods \ some
<1>1. rest \subseteq DOMAIN lives /\ some \subseteq DOMAIN lives
  OBVIOUS
<1>2. /\ IsFiniteSet(rest) /\ IsFiniteSet(some) /\ IsFiniteSet(pods)
      /\ OwedBy(rest) = SumFunctionOnSet(Debt, rest)
      /\ OwedBy(some) = SumFunctionOnSet(Debt, some)
      /\ OwedBy(pods) = SumFunctionOnSet(Debt, pods)
      /\ \A l \in DOMAIN lives : Debt[l] \in Nat
  BY <1>1, DebtSum
<1>3. rest \cup some = pods /\ rest \cap some = {}
  OBVIOUS
<1> HIDE DEF rest
<1>4. SumFunctionOnSet(Debt, rest \cup some)
        = SumFunctionOnSet(Debt, rest) + SumFunctionOnSet(Debt, some)
  BY <1>1, <1>2, <1>3, SumDisjoint
<1>5. SumFunctionOnSet(Debt, rest \cup some) = SumFunctionOnSet(Debt, pods)
  BY <1>3, Zenon
<1>6. SumFunctionOnSet(Debt, rest) \in Nat /\ SumFunctionOnSet(Debt, some) \in Nat
  BY <1>1, <1>2, SumNat
<1>7. OwedBy(pods) = OwedBy(rest) + OwedBy(some) /\ OwedBy(rest) \in Nat /\ OwedBy(some) \in Nat
  BY <1>2, <1>4, <1>5, <1>6
<1> QED
  BY <1>7 DEF rest

LEMMA NotOverstated == ReportInv => SpendNotOverstated
<1> SUFFICES ASSUME ReportInv, merged = {}, ~NameReused, NEW team \in Teams
             PROVE  LET charged == {l \in OfTeam(team) :
                                      lives[l].end = Never \/ lives[l].end >= MonthStart} IN
                    /\ ScopeSpend(TeamScope(team)) <= OwedBy(charged)
                    /\ AttributionStatus(TeamSpec(team)).MonthlyCost <= OwedBy(charged)
  BY DEF SpendNotOverstated
<1> DEFINE charged == {l \in OfTeam(team) : lives[l].end = Never \/ lives[l].end >= MonthStart}
           live == ScopePods(TeamScope(team))
           starts == {lives[l].start : l \in live}
<1>0. /\ TypeOK /\ TimeInv /\ EntryInv /\ RowInv /\ TableInv /\ now \in Nat /\ MonthStart \in Nat
      /\ Never \notin Nat
  BY AllowedTyped, ReportAssumption, TrackerAssumption DEF ReportInv, Inv
<1>1. /\ live = {l \in Running : TeamOf[KindOf(l)] = team}
      /\ live \subseteq charged /\ live \subseteq Running /\ charged \subseteq DOMAIN lives
  BY TeamPods DEF OfTeam, Running
<1>2. \A r \in rows :
        /\ r.pod \in DOMAIN lives /\ r.total \in Nat /\ r.time \in Nat
        /\ lives[r.pod].start <= r.time /\ lives[r.pod].start \in Nat
        /\ lives[r.pod].end \in Nat \cup {Never}
        /\ lives[r.pod].end \in Nat => r.time <= lives[r.pod].end
        /\ r.time = lives[r.pod].start => r.total = 0
  BY <1>0, RowIsOwed, LivesTyped
<1>3. ASSUME NEW to, NEW r \in Between(MonthStart, to), TeamOf[KindOf(r.pod)] = team
      PROVE  r.pod \in charged
  BY <1>0, <1>2, <1>3 DEF Between, OfTeam
<1>4. /\ CostOfPods(live) \in Nat /\ CostOfPods(live) <= OwedBy(live)
      /\ OwedBy(charged) = OwedBy(charged \ live) + OwedBy(live)
      /\ OwedBy(charged) \in Nat /\ OwedBy(charged \ live) \in Nat /\ OwedBy(live) \in Nat
  <2> HIDE DEF live, charged
  <2> QED
    BY <1>0, <1>1, LiveIsOwed, OwedParts
<1>5. CostByTeam(team, MonthStart, now) \in Nat /\ CostByTeam(team, MonthStart, now) <= OwedBy(charged)
  <2> HIDE DEF live, charged
  <2> QED
    BY <1>0, <1>1, <1>3, TeamHistory
<1>6. AttributionStatus(TeamSpec(team)).MonthlyCost <= OwedBy(charged)
  <2>1. team # ""
    BY DEF Teams
  <2>2. AttributionStatus(TeamSpec(team)).MonthlyCost = CostByTeam(team, MonthStart, now)
    BY <2>1 DEF AttributionStatus, TeamSpec, CostSince
  <2> QED
    BY <1>5, <2>2
<1>7. ScopeSpend(TeamScope(team)) <= OwedBy(charged)
  <2>1. ASSUME NEW to, \A r \in Between(MonthStart, to) : r.pod \in live => r.total = 0,
               ScopeSpend(TeamScope(team))
                 = HistoricalSpend(TeamScope(team), MonthStart, to) + CostOfPods(live)
        PROVE  ScopeSpend(TeamScope(team)) <= OwedBy(charged)
    <3>1. \A r \in Between(MonthStart, to) :
            TeamOf[KindOf(r.pod)] = team => r.pod \in charged \ live \/ r.total = 0
      BY <1>3, <2>1
    <3>2. /\ CostByTeam(team, MonthStart, to) \in Nat
          /\ CostByTeam(team, MonthStart, to) <= OwedBy(charged \ live)
      <4>1. charged \ live \subseteq DOMAIN lives
        BY <1>1
      <4> HIDE DEF live, charged
      <4> QED
        BY <1>0, <3>1, <4>1, TeamHistory
    <3>3. HistoricalSpend(TeamScope(team), MonthStart, to) = CostByTeam(team, MonthStart, to)
      BY <3>2, TeamSpend
    <3> HIDE DEF live, charged
    <3> QED
      BY <1>4, <2>1, <3>2, <3>3
  <2>2. CASE starts = {}
    <3>1. live = {}
      BY <2>2
    <3>2. ScopeSpend(TeamScope(team))
            = HistoricalSpend(TeamScope(team), MonthStart, now) + CostOfPods(live)
      BY <2>2 DEF ScopeSpend, LiveSpend
    <3> QED
      BY <2>1, <3>1, <3>2
  <2>3. CASE starts # {} /\ Min(starts) > MonthStart
    <3>1. ScopeSpend(TeamScope(team))
            = HistoricalSpend(TeamScope(team), MonthStart, Min(starts)) + CostOfPods(live)
      BY <2>3 DEF ScopeSpend, LiveSpend
    <3>2. Min(starts) \in starts /\ \A x \in starts : Min(starts) <= x
      <4>1. starts \subseteq Nat
        BY <1>0, <1>1, LivesTyped
      <4> HIDE DEF starts
      <4> QED
        BY <2>3, <4>1, MinIsLeast
    <3>3. Min(starts) \in Nat
      BY <1>0, <1>1, <3>2, LivesTyped
    <3>4. \A r \in Between(MonthStart, Min(starts)) : r.pod \in live => r.total = 0
      <4> SUFFICES ASSUME NEW r \in Between(MonthStart, Min(starts)), r.pod \in live
                   PROVE  r.total = 0
        OBVIOUS
      <4>1. r.time <= Min(starts) /\ r \in rows
        BY DEF Between
      <4>2. Min(starts) <= lives[r.pod].start
        BY <3>2
      <4> HIDE DEF starts
      <4> QED
        BY <1>2, <3>3, <4>1, <4>2
    <3> QED
      BY <2>1, <3>1, <3>4
  <2>4. CASE starts # {} /\ ~(Min(starts) > MonthStart)
    <3>1. ScopeSpend(TeamScope(team)) = 0 + CostOfPods(live)
      BY <2>4 DEF ScopeSpend, LiveSpend
    <3> HIDE DEF live, charged
    <3> QED
      BY <1>4, <3>1
  <2> QED
    BY <2>2, <2>3, <2>4
<1> QED
  BY <1>6, <1>7

-----------------------------------------------------------------------------
(* A budget charges its running pods.                                      *)

LEMMA TotalsNat ==
  ASSUME TypeOK, TableInv, NEW samples, samples \subseteq rows
  PROVE  SumOfTotals(samples) \in Nat
<1> DEFINE Total == [r \in samples |-> r.total]
<1>1. \A r \in samples : Total[r] \in Nat
  BY RowsTyped
<1>2. SumOfTotals(samples) = SumFunctionOnSet(Total, samples)
  BY DEF SumOfTotals, SumFunction
<1>3. IsFiniteSet(samples)
  BY FS_Subset DEF TableInv
<1> HIDE DEF Total
<1> QED
  BY <1>1, <1>2, <1>3, SumNat

LEMMA HistoryNat ==
  ASSUME TypeOK, TableInv, NEW scope, NEW from, NEW to,
         IsFiniteSet(scope.namespaces), IsFiniteSet(scope.teams)
  PROVE  HistoricalSpend(scope, from, to) \in Nat
<1>1. ASSUME NEW S, IsFiniteSet(S), NEW F, F = [x \in S |-> F[x]], \A x \in S : F[x] \in Nat
      PROVE  SumFunction(F) \in Nat
  <2>1. DOMAIN F = S
    BY <1>1
  <2>2. SumFunction(F) = SumFunctionOnSet(F, S)
    BY <2>1, Zenon DEF SumFunction
  <2> QED
    BY <1>1, <2>2, SumNat
<1>2. \A ns : CostByNamespace(ns, from, to) \in Nat
  <2> TAKE ns
  <2>1. {r \in Between(from, to) : r.key.ns = ns} \subseteq rows
    BY DEF Between
  <2> QED
    BY <2>1, TotalsNat DEF CostByNamespace
<1>3. \A team : CostByTeam(team, from, to) \in Nat
  <2> TAKE team
  <2>1. LatestOf({r \in Between(from, to) : TeamOf[KindOf(r.pod)] = team}) \subseteq rows
    BY DEF Between, LatestOf
  <2> QED
    BY <2>1, TotalsNat DEF CostByTeam
<1>4. SumFunction([ns \in scope.namespaces |-> CostByNamespace(ns, from, to)]) \in Nat
  BY <1>1, <1>2
<1>5. SumFunction([team \in scope.teams |-> CostByTeam(team, from, to)]) \in Nat
  BY <1>1, <1>3
<1> QED
  BY <1>4, <1>5 DEF HistoricalSpend

\* The tracker's cost of a counted running pod covers all but its last Interval.
LEMMA CostIsDue ==
  ASSUME ReportInv, faults = 0, ~NameReused, NEW l \in Running, lives[l].kind \in Counted
  PROVE  Due(l) \in Nat /\ Due(l) <= CostOfPod(l)
<1> DEFINE rate == Rate[lives[l].kind]
           late == now - Interval - lives[l].start
           e == cache[lives[l].key]
<1>0. /\ TypeOK /\ TimeInv /\ EntryInv /\ FreshInv /\ KeysInv /\ TrackedInv /\ l \in DOMAIN lives
      /\ pass \in {"idle", "update"}
  BY DEF ReportInv, Inv, Running, TypeOK
<1>1. /\ now \in Nat /\ Interval \in Nat /\ lives[l].start \in Nat /\ rate \in Nat
      /\ sinceTick \in Nat /\ sinceTick <= Interval
  BY <1>0, AllowedTyped, LivesTyped
<1>2. Due(l) = rate * Max({0, late})
  BY DEF Due, KindOf
<1>3. Max({0, late}) = (IF late > 0 THEN late ELSE 0)
  <2>1. late \in Int
    BY <1>1
  <2> HIDE DEF late
  <2> QED
    BY <2>1, PositivePart
<1>4. CostOfPod(l) \in Nat
  BY <1>0, CostTyped
<1>5. Due(l) \in Nat
  BY <1>1, <1>2, <1>3, ProductNat
<1>6. CASE lives[l].key \in DOMAIN cache
  <2>1. /\ CostOfPod(l) = rate * (e.updated - lives[l].start)
        /\ e.updated \in Nat /\ lives[l].start <= e.updated
    <3>1. e.pod = l
      BY <1>6 DEF NameReused
    <3> QED
      BY <1>0, <1>6, <3>1, CostIsOwed, EntriesTyped DEF EntryInv, Exact
  <2>2. now - e.updated <= Patience
    BY <1>0, <1>6, FreshImplies DEF EntriesAreFresh
  <2>3. Patience = Interval
    BY <1>1 DEF Patience
  <2> HIDE DEF e, rate
  <2>4. Max({0, late}) <= e.updated - lives[l].start
    BY <1>1, <1>3, <2>1, <2>2, <2>3
  <2>5. Max({0, late}) \in Int /\ e.updated - lives[l].start \in Int
    BY <1>1, <1>3, <2>1
  <2> HIDE DEF late
  <2>6. rate * Max({0, late}) <= rate * (e.updated - lives[l].start)
    BY <1>1, <2>4, <2>5, Monotone
  <2> QED
    BY <1>2, <1>5, <2>1, <2>6
<1>7. CASE lives[l].key \notin DOMAIN cache
  <2>1. now - lives[l].start <= Interval
    BY <1>0, <1>1, <1>7 DEF TrackedInv
  <2>2. Max({0, late}) = 0
    BY <1>1, <1>3, <2>1
  <2>3. Due(l) = 0
    BY <1>1, <1>2, <2>2
  <2> QED
    BY <1>4, <2>3
<1> QED
  BY <1>5, <1>6, <1>7

LEMMA Charged == ReportInv => RunningIsCharged
<1> DEFINE Scopes == {NamespaceScope(k.ns) : k \in Key} \cup {TeamScope(t) : t \in Teams}
<1> SUFFICES ASSUME ReportInv, faults = 0, ~NameReused, NEW scope \in Scopes
             PROVE  LET counted == {l \in ScopePods(scope) : KindOf(l) \in Counted} IN
                    ScopeSpend(scope) >= SumFunction([l \in counted |-> Due(l)])
  <2>1. ReportInv => faults \in Nat
    BY TrackerBounds DEF ReportInv, Inv, TypeOK
  <2> QED
    BY <2>1 DEF RunningIsCharged
<1> DEFINE live == ScopePods(scope)
           counted == {l \in live : KindOf(l) \in Counted}
           Dues == [l \in DOMAIN lives |-> Due(l)]
<1>0. TypeOK /\ TimeInv /\ TableInv
  BY DEF ReportInv, Inv
<1>1. live \subseteq Running /\ Running \subseteq DOMAIN lives /\ counted \subseteq live
  BY DEF ScopePods, Running
<1>2. /\ IsFiniteSet(live) /\ IsFiniteSet(counted)
      /\ CostOfPods(live) = SumFunctionOnSet(Charge, live)
      /\ \A l \in live : Charge[l] = CostOfPod(l) /\ Charge[l] \in Nat
  <2> HIDE DEF live, counted
  <2> QED
    BY <1>0, <1>1, ChargeSum, LivesFinite
<1>3. \A l \in counted : /\ Dues[l] = Due(l) /\ Dues[l] \in Nat /\ Dues[l] <= Charge[l]
                         /\ Charge[l] \in Nat
  BY <1>1, <1>2, CostIsDue DEF KindOf
<1>4. SumFunction([l \in counted |-> Due(l)]) = SumFunctionOnSet(Dues, counted)
  <2>1. [l \in counted |-> Due(l)] = [l \in counted |-> Dues[l]]
    BY <1>3
  <2>2. SumFunction([l \in counted |-> Dues[l]]) = SumFunctionOnSet(Dues, counted)
    <3> HIDE DEF Dues, counted, live
    <3> QED
      BY <1>2, <1>3, SumOver
  <2> HIDE DEF Dues, counted
  <2> QED
    BY <2>1, <2>2, Zenon
<1>5. SumFunctionOnSet(Dues, counted) <= SumFunctionOnSet(Charge, counted)
  <2> HIDE DEF Dues, counted, live
  <2> QED
    BY <1>2, <1>3, SumLeq
<1>6. SumFunctionOnSet(Charge, counted) <= SumFunctionOnSet(Charge, live)
  <2> HIDE DEF counted, live
  <2> QED
    BY <1>1, <1>2, SumSubset
<1>7. /\ SumFunctionOnSet(Dues, counted) \in Nat /\ SumFunctionOnSet(Charge, counted) \in Nat
      /\ SumFunctionOnSet(Charge, live) \in Nat
  <2> HIDE DEF Dues, counted, live
  <2> QED
    BY <1>2, <1>3, SumNat
<1>8. \E history \in Nat : ScopeSpend(scope) = history + CostOfPods(live)
  <2>1. IsFiniteSet(scope.namespaces) /\ IsFiniteSet(scope.teams)
    <3>1. \A x : IsFiniteSet({x})
      BY FS_Singleton
    <3>2. IsFiniteSet({})
      BY FS_EmptySet
    <3>3. CASE \E k \in Key : scope = NamespaceScope(k.ns)
      <4>1. PICK k \in Key : scope.namespaces = {k.ns} /\ scope.teams = {}
        BY <3>3 DEF NamespaceScope
      <4> QED
        BY <3>1, <3>2, <4>1, Zenon
    <3>4. CASE \E t \in Teams : scope = TeamScope(t)
      <4>1. PICK t \in Teams : scope.namespaces = {} /\ scope.teams = {t}
        BY <3>4 DEF TeamScope
      <4> QED
        BY <3>1, <3>2, <4>1, Zenon
    <3> QED
      BY <3>3, <3>4
  <2>2. \A from, to : HistoricalSpend(scope, from, to) \in Nat
    BY <1>0, <2>1, HistoryNat
  <2> DEFINE starts == {lives[l].start : l \in live}
  <2>3. CASE starts = {}
    BY <2>2, <2>3 DEF ScopeSpend, LiveSpend
  <2>4. CASE starts # {} /\ Min(starts) > MonthStart
    BY <2>2, <2>4 DEF ScopeSpend, LiveSpend
  <2>5. CASE starts # {} /\ ~(Min(starts) > MonthStart)
    BY <2>5 DEF ScopeSpend, LiveSpend
  <2> QED
    BY <2>3, <2>4, <2>5
<1>9. ScopeSpend(scope) >= SumFunction([l \in counted |-> Due(l)])
  <2> HIDE DEF Dues, counted, live
  <2> QED
    BY <1>2, <1>4, <1>5, <1>6, <1>7, <1>8
<1> QED
  BY <1>9

-----------------------------------------------------------------------------
(* A breakdown adds up.                                                    *)

LEMMA AddsUp == ReportInv => BreakdownAddsUp
<1> SUFFICES ASSUME ReportInv, NEW team \in Teams,
                    \A l, m \in KnownPods(TeamSpec(team)) :
                      l # m => lives[l].key.name # lives[m].key.name,
                    NEW of \in PodCostsByName(TeamSpec(team))
             PROVE  LET spec == TeamSpec(team)
                        kinds == {CapacityOf[KindOf(l)] : l \in KnownPods(spec)} IN
                    SumFunction([capacity \in kinds |-> ByCapacityType(of, capacity)])
                      = AttributionStatus(spec).TotalCost
  BY DEF BreakdownAddsUp
<1> DEFINE known == KnownPods(TeamSpec(team))
           cap == [l \in known |-> CapacityOf[KindOf(l)]]
           kinds == {CapacityOf[KindOf(l)] : l \in known}
           Part == [capacity \in kinds |-> ByCapacityType(of, capacity)]
           One(c) == {l \in known : cap[l] = c}
<1>0. TypeOK /\ TimeInv
  BY DEF ReportInv, Inv
<1>1. known \subseteq DOMAIN lives
  BY DEF KnownPods, MatchingPods, Running
<1>2. /\ IsFiniteSet(known) /\ CostOfPods(known) = SumFunctionOnSet(Charge, known)
      /\ \A l \in known : Charge[l] \in Nat
  <2> HIDE DEF known
  <2> QED
    BY <1>0, <1>1, ChargeSum
<1>3. {of[name] : name \in DOMAIN of} = known
  BY DEF PodCostsByName
<1>4. ASSUME NEW c PROVE ByCapacityType(of, c) = SumFunctionOnSet(Charge, One(c))
  <2>1. {l \in {of[name] : name \in DOMAIN of} : CapacityOf[KindOf(l)] = c} = One(c)
    BY <1>3
  <2>2. ByCapacityType(of, c)
          = CostOfPods({l \in {of[name] : name \in DOMAIN of} : CapacityOf[KindOf(l)] = c})
    BY DEF ByCapacityType
  <2>3. One(c) \subseteq DOMAIN lives
    BY <1>1
  <2> HIDE DEF One
  <2>4. ByCapacityType(of, c) = CostOfPods(One(c))
    BY <2>1, <2>2, Zenon
  <2> QED
    BY <1>0, <2>3, <2>4, ChargeSum
<1>5. \A c \in kinds : Part[c] = SumFunctionOnSet(Charge, {l \in known : cap[l] = c})
  <2> TAKE c \in kinds
  <2>1. Part[c] = ByCapacityType(of, c)
    OBVIOUS
  <2> QED
    BY <1>4, <2>1
<1>6. IsFiniteSet(kinds) /\ DOMAIN Part = kinds
  <2>1. kinds = {cap[l] : l \in known}
    OBVIOUS
  <2>2. cap \in Surjection(known, kinds)
    BY DEF Surjection
  <2> HIDE DEF cap, kinds, known
  <2>3. IsFiniteSet(kinds)
    BY <1>2, <2>2, FS_Surjection
  <2> QED
    BY <2>3
<1>7. \A l \in known : cap[l] \in kinds /\ Charge[l] \in Int
  BY <1>2
<1>8. SumFunctionOnSet(Part, kinds) = SumFunctionOnSet(Charge, known)
  <2> HIDE DEF Part, kinds, cap, known
  <2> QED
    BY <1>2, <1>5, <1>6, <1>7, SumPartition
<1>9. SumFunction(Part) = SumFunctionOnSet(Part, kinds)
  <2> HIDE DEF Part
  <2> QED
    BY <1>6, Zenon DEF SumFunction
<1>10. AttributionStatus(TeamSpec(team)).TotalCost = CostOfPods(known)
  BY DEF AttributionStatus
<1>11. SumFunction(Part) = AttributionStatus(TeamSpec(team)).TotalCost
  BY <1>2, <1>8, <1>9, <1>10
<1> QED
  BY <1>11

-----------------------------------------------------------------------------
(* Theorems.                                                               *)

\* Neither a budget nor an attribution charges a team more than its pods have
\* cost: no pod from the table and from the tracker, no sample on top of an
\* earlier one (calculateScopeSpend, GetCostByTeam).
THEOREM SpendIsNotOverstated == Spec => []SpendNotOverstated
BY ReportInvariance, NotOverstated, PTL

\* While no call has failed a budget charges its running pods for all but the
\* last Interval at least (calculateScopeSpend, updateCosts).
THEOREM RunningPodsCharged == Spec => []RunningIsCharged
BY ReportInvariance, Charged, PTL

\* The breakdown of an attribution adds up to its total unless two pods of one
\* name share an entry (updateAttributionStatus, buildDetailedBreakdown).
THEOREM BreakdownsAddUp == Spec => []BreakdownAddsUp
BY ReportInvariance, AddsUp, PTL

-----------------------------------------------------------------------------
(* The catalogue on AWS.                                                   *)

\* The machines of a GPU type on AWS.
AWSMachines == {"p4d", "p4de", "p3", "g5", "g4dn"}

\* The machine a type of GPU stands for.
LEMMA OnAWS ==
  ASSUME NEW gpuType
  PROVE  /\ Machine("aws", gpuType) \in AWSMachines
         /\ gpuType \notin {"t4", "a10"} => Machine("aws", gpuType) \in {"p4d", "p4de", "p3"}
<1>1. Machine("aws", gpuType) = Lookup(AWSInstance, gpuType, "p3")
  BY DEF Machine
<1>2. DOMAIN AWSInstance = {"a100", "a100-80", "v100", "t4", "a10"}
  BY DEF AWSInstance
<1>3. /\ AWSInstance["a100"] = "p4d" /\ AWSInstance["a100-80"] = "p4de"
      /\ AWSInstance["v100"] = "p3" /\ AWSInstance["t4"] = "g4dn" /\ AWSInstance["a10"] = "g5"
  BY DEF AWSInstance
<1> QED
  BY <1>1, <1>2, <1>3 DEF Lookup, AWSMachines

\* What is listed in the regions that have a list.
LEMMA OnDemandListed ==
  /\ DOMAIN AWSOnDemandPrices = {"us-east-1", "us-west-2"}
  /\ LET p == AWSOnDemandPrices["us-east-1"] IN
     /\ DOMAIN p = AWSMachines
     /\ p["p4d"] = 32770 /\ p["p4de"] = 40960 /\ p["p3"] = 3060 /\ p["g5"] = 1006 /\ p["g4dn"] = 526
  /\ LET p == AWSOnDemandPrices["us-west-2"] IN
     /\ "p4de" \notin DOMAIN p /\ {"p4d", "p3"} \subseteq DOMAIN p
     /\ p["p4d"] = 32770 /\ p["p3"] = 3060
BY DEF AWSOnDemandPrices, AWSMachines

\* The same of spot machines.
LEMMA SpotListed ==
  /\ DOMAIN AWSSpotPrices = {"us-east-1"}
  /\ LET p == AWSSpotPrices["us-east-1"] IN
     /\ DOMAIN p = AWSMachines
     /\ p["p4d"] = 11470 /\ p["p4de"] = 14340 /\ p["p3"] = 1070 /\ p["g5"] = 350 /\ p["g4dn"] = 180
BY DEF AWSSpotPrices, AWSMachines

\* The price of a spot machine and of another.
LEMMA PriceOf ==
  ASSUME NEW gpuType, NEW region
  PROVE  LET machine == Machine("aws", gpuType)
             listed == Lookup(AWSOnDemandPrices, region, <<>>)
             spots == Lookup(AWSSpotPrices, region, <<>>) IN
         /\ GetGPUPricing("aws", gpuType, "spot", region)
              = IF machine \in DOMAIN spots THEN (8 * spots[machine]) \div GPUsOf(machine)
                ELSE EstimatedPrice(machine, "spot")
         /\ GetGPUPricing("aws", gpuType, "on-demand", region)
              = IF machine \in DOMAIN listed THEN (8 * listed[machine]) \div GPUsOf(machine)
                ELSE EstimatedPrice(gpuType, "on-demand")
<1>1. PriceTable("aws", "spot") = AWSSpotPrices
  BY DEF PriceTable, Price
<1>2. PriceTable("aws", "on-demand") = AWSOnDemandPrices
  BY DEF PriceTable, Price
<1>3. GetGPUPricing("aws", gpuType, "spot", region)
        = LET machine == Machine("aws", gpuType)
              prices == Lookup(PriceTable("aws", "spot"), region, <<>>) IN
          IF machine \in DOMAIN prices THEN (8 * prices[machine]) \div GPUsOf(machine)
          ELSE EstimatedPrice(machine, "spot")
  BY DEF GetGPUPricing
<1>4. GetGPUPricing("aws", gpuType, "on-demand", region)
        = LET machine == Machine("aws", gpuType)
              prices == Lookup(PriceTable("aws", "on-demand"), region, <<>>) IN
          IF machine \in DOMAIN prices THEN (8 * prices[machine]) \div GPUsOf(machine)
          ELSE EstimatedPrice(gpuType, "on-demand")
  BY DEF GetGPUPricing
<1> QED
  BY <1>1, <1>2, <1>3, <1>4, Zenon

\* No estimate is listed under the name of a machine.
LEMMA SpotEstimate ==
  ASSUME NEW machine \in AWSMachines
  PROVE  EstimatedPrice(machine, "spot") = 5600
<1>1. DOMAIN Estimates = {"a100", "a100-80", "h100", "v100", "t4", "a10", "l4"}
  BY DEF Estimates, GPUTypes
<1>2. Lookup(Estimates, machine, 2000) = 2000
  BY <1>1 DEF Lookup, AWSMachines
<1>3. EstimatedPrice(machine, "spot") = (8 * 2000 * 35) \div 100
  BY <1>2 DEF EstimatedPrice, Price
<1>4. (8 * 2000 * 35) \div 100 = 5600
  OBVIOUS
<1> QED
  BY <1>3, <1>4

\* The estimates for all but the smallest GPUs.
LEMMA OtherEstimate ==
  ASSUME NEW gpuType, gpuType \notin {"t4", "a10", "l4"}
  PROVE  EstimatedPrice(gpuType, "on-demand") \in Nat /\ EstimatedPrice(gpuType, "on-demand") >= 16000
<1> DEFINE e == Lookup(Estimates, gpuType, 2000)
<1>1. DOMAIN Estimates = {"a100", "a100-80", "h100", "v100", "t4", "a10", "l4"}
  BY DEF Estimates, GPUTypes
<1>2. /\ Estimates["a100"] = 3000 /\ Estimates["a100-80"] = 4000 /\ Estimates["h100"] = 5000
      /\ Estimates["v100"] = 2500
  BY DEF Estimates, GPUTypes
<1>3. e \in {2000, 2500, 3000, 4000, 5000}
  BY <1>1, <1>2 DEF Lookup
<1>4. EstimatedPrice(gpuType, "on-demand") = (8 * e * 100) \div 100
  BY DEF EstimatedPrice, Price
<1> HIDE DEF e
<1>5. (8 * e * 100) \div 100 \in Nat /\ (8 * e * 100) \div 100 >= 16000
  BY <1>3
<1> QED
  BY <1>4, <1>5

\* On AWS the price of a GPU of a spot machine is below half of the other.
LEMMA HalfPrice ==
  ASSUME NEW gpuType, NEW region, region = "us-east-1" \/ gpuType \notin {"t4", "a10", "l4"}
  PROVE  LET spot == GetGPUPricing("aws", gpuType, "spot", region)
             other == GetGPUPricing("aws", gpuType, "on-demand", region) IN
         spot \in Nat /\ other \in Nat /\ 2 * spot < other
<1> DEFINE machine == Machine("aws", gpuType)
           spot == GetGPUPricing("aws", gpuType, "spot", region)
           other == GetGPUPricing("aws", gpuType, "on-demand", region)
           listed == Lookup(AWSOnDemandPrices, region, <<>>)
           spots == Lookup(AWSSpotPrices, region, <<>>)
<1>1. /\ machine \in AWSMachines
      /\ gpuType \notin {"t4", "a10"} => machine \in {"p4d", "p4de", "p3"}
  BY OnAWS
<1>2. /\ spot = IF machine \in DOMAIN spots THEN (8 * spots[machine]) \div GPUsOf(machine)
                ELSE EstimatedPrice(machine, "spot")
      /\ other = IF machine \in DOMAIN listed THEN (8 * listed[machine]) \div GPUsOf(machine)
                 ELSE EstimatedPrice(gpuType, "on-demand")
  BY PriceOf
<1>3. GPUsOf(machine) = IF machine \in {"p4d", "p4de"} THEN 8 ELSE 1
  BY <1>1 DEF GPUsOf, AWSMachines
<1> HIDE DEF machine, spot, other
<1>4. ASSUME region = "us-east-1" PROVE spot \in Nat /\ other \in Nat /\ 2 * spot < other
  <2>1. listed = AWSOnDemandPrices["us-east-1"] /\ spots = AWSSpotPrices["us-east-1"]
    BY <1>4, OnDemandListed, SpotListed DEF Lookup
  <2> HIDE DEF listed, spots
  <2>2. /\ spot = (8 * spots[machine]) \div GPUsOf(machine)
        /\ other = (8 * listed[machine]) \div GPUsOf(machine)
    BY <1>1, <1>2, <2>1, OnDemandListed, SpotListed
  <2>3. \/ spots[machine] = 11470 /\ listed[machine] = 32770 /\ GPUsOf(machine) = 8
        \/ spots[machine] = 14340 /\ listed[machine] = 40960 /\ GPUsOf(machine) = 8
        \/ spots[machine] = 1070 /\ listed[machine] = 3060 /\ GPUsOf(machine) = 1
        \/ spots[machine] = 350 /\ listed[machine] = 1006 /\ GPUsOf(machine) = 1
        \/ spots[machine] = 180 /\ listed[machine] = 526 /\ GPUsOf(machine) = 1
    BY <1>1, <1>3, <2>1, OnDemandListed, SpotListed DEF AWSMachines
  <2> QED
    BY <2>2, <2>3
<1>5. ASSUME region # "us-east-1" PROVE spot \in Nat /\ other \in Nat /\ 2 * spot < other
  <2>1. gpuType \notin {"t4", "a10", "l4"} /\ machine \in {"p4d", "p4de", "p3"}
    BY <1>1, <1>5
  <2>2. spots = <<>>
    BY <1>5, SpotListed DEF Lookup
  <2>3. DOMAIN spots = {}
    BY <2>2
  <2>4. spot = 5600
    <3>1. machine \notin DOMAIN spots
      BY <2>3
    <3>2. spot = EstimatedPrice(machine, "spot")
      BY <1>2, <3>1, Zenon
    <3> QED
      BY <1>1, <3>2, SpotEstimate
  <2> DEFINE estimate == EstimatedPrice(gpuType, "on-demand")
  <2>5. estimate \in Nat /\ estimate >= 16000
    BY <2>1, OtherEstimate
  <2>6. ASSUME machine \in DOMAIN listed PROVE other \in {32770, 24480}
    <3>1. region = "us-west-2"
      <4>1. region \notin DOMAIN AWSOnDemandPrices => listed = <<>>
        BY DEF Lookup
      <4>2. DOMAIN <<>> = {}
        OBVIOUS
      <4> HIDE DEF listed
      <4> QED
        BY <1>5, <2>6, <4>1, <4>2, OnDemandListed
    <3>2. listed = AWSOnDemandPrices["us-west-2"]
      BY <3>1, OnDemandListed DEF Lookup
    <3> HIDE DEF listed
    <3>3. \/ listed[machine] = 32770 /\ GPUsOf(machine) = 8
          \/ listed[machine] = 3060 /\ GPUsOf(machine) = 1
      BY <1>3, <2>1, <2>6, <3>2, OnDemandListed
    <3>4. other = (8 * listed[machine]) \div GPUsOf(machine)
      BY <1>2, <2>6
    <3> QED
      BY <3>3, <3>4
  <2>7. other \in Nat /\ other >= 16000
    <3>1. ASSUME machine \in DOMAIN listed PROVE other \in Nat /\ other >= 16000
      BY <2>6, <3>1
    <3>2. ASSUME machine \notin DOMAIN listed PROVE other = estimate
      BY <1>2, <3>2, Zenon
    <3> HIDE DEF estimate, listed
    <3> QED
      BY <2>5, <3>1, <3>2
  <2> QED
    BY <2>4, <2>7
<1> QED
  BY <1>4, <1>5 DEF spot, other

\* The labels of a node but the one that is changed.
LEMMA OtherLabels ==
  ASSUME NEW node, "capacity-type" \in DOMAIN node
  PROVE  LET new == [node EXCEPT !["capacity-type"] = "on-demand"] IN
         /\ GetGPUType(new) = GetGPUType(node) /\ GetRegion(new) = GetRegion(node)
         /\ GetCapacityType(new) = "on-demand"
<1> DEFINE new == [node EXCEPT !["capacity-type"] = "on-demand"]
<1>1. DOMAIN new = DOMAIN node /\ new["capacity-type"] = "on-demand"
  OBVIOUS
<1>2. ASSUME NEW label, label # "capacity-type", NEW default
      PROVE  Lookup(new, label, default) = Lookup(node, label, default)
  BY <1>2 DEF Lookup
<1> HIDE DEF new
<1>3. GetGPUType(new) = GetGPUType(node)
  <2>1. Lookup(new, "instance-type", "unknown") = Lookup(node, "instance-type", "unknown")
    BY <1>2
  <2>2. \A default : /\ Lookup(new, "accelerator", default) = Lookup(node, "accelerator", default)
                     /\ Lookup(new, "gpu.product", default) = Lookup(node, "gpu.product", default)
    BY <1>2
  <2> QED
    BY <2>1, <2>2, Zenon DEF GetGPUType, FirstLabel
<1>4. GetRegion(new) = GetRegion(node)
  <2>1. \A default : /\ Lookup(new, "region", default) = Lookup(node, "region", default)
                     /\ Lookup(new, "region-beta", default) = Lookup(node, "region-beta", default)
    BY <1>2
  <2> QED
    BY <2>1, Zenon DEF GetRegion, FirstLabel
<1>5. GetCapacityType(new) = "on-demand"
  BY <1>1 DEF GetCapacityType
<1> QED
  BY <1>3, <1>4, <1>5 DEF new

\* An inequality of prices is one of what is billed.
LEMMA LessTimes ==
  ASSUME NEW a \in Nat, NEW b \in Nat, a < b, NEW n \in Nat \ {0}
  PROVE  a * n \in Nat /\ b * n \in Nat /\ a * n < b * n
<1>1. b - a \in Nat \ {0}
  OBVIOUS
<1>2. (b - a) * n \in Nat \ {0}
  BY <1>1
<1>3. b * n = a * n + (b - a) * n /\ a * n \in Nat
  OBVIOUS
<1> QED
  BY <1>2, <1>3

\* A pod on a spot node of AWS is billed at less than half of what it would be on
\* demand: every GPU in us-east-1, and elsewhere all but the t4, a10 and l4, for
\* which the estimate for any spot machine is more than half of what their
\* machines cost; whatever was updated, restarted and made anew meanwhile
\* (getAWSSpotPrices, fetchAWSSpotPricing, calculatePodCost).
THEOREM SpotAlwaysCheaper ==
  ASSUME AtPrices, FairlyPriced
  PROVE  Spec => []SpotIsCheaper
<1>1. TypeOK /\ EntryIsExact => SpotIsCheaper
  <2> SUFFICES ASSUME TypeOK, EntryIsExact, NEW k \in DOMAIN cache,
                      CapacityOf[KindOf(cache[k].pod)] = "spot"
               PROVE  LET kind == KindOf(cache[k].pod)
                          onDemand == [kind.node EXCEPT !["capacity-type"] = "on-demand"] IN
                      2 * cache[k].rate < HourlyRate("aws", kind.pod, onDemand)
    BY Zenon DEF SpotIsCheaper
  <2> DEFINE kind == KindOf(cache[k].pod)
             node == kind.node
             onDemand == [node EXCEPT !["capacity-type"] = "on-demand"]
             price(c) == GetGPUPricing("aws", GetGPUType(node), c, GetRegion(node))
             spot == price("spot")
             other == price("on-demand")
             n == GetGPUCount(kind.pod)
             factor == SharingFactor(GetSharingMode(kind.pod))
  <2>1. kind \in Counted /\ kind \in Kind /\ cache[k].rate = Rate[kind]
    BY TrackerAssumption DEF EntryIsExact, KindOf
  <2>2. /\ Rate[kind] = HourlyRate("aws", kind.pod, node)
        /\ GetCapacityType(node) = "spot" /\ n \in Nat \ {0}
        /\ "capacity-type" \in DOMAIN node
        /\ GetRegion(node) = "us-east-1" \/ GetGPUType(node) \notin {"t4", "a10", "l4"}
    BY <2>1 DEF AtPrices, FairlyPriced
  <2>3. /\ GetGPUType(onDemand) = GetGPUType(node) /\ GetRegion(onDemand) = GetRegion(node)
        /\ GetCapacityType(onDemand) = "on-demand"
    BY <2>2, OtherLabels
  <2> HIDE DEF kind, onDemand
  <2>4. HourlyRate("aws", kind.pod, node) = spot * n * factor
    BY <2>2, Zenon DEF HourlyRate
  <2>5. HourlyRate("aws", kind.pod, onDemand) = other * n * factor
    BY <2>3, Zenon DEF HourlyRate
  <2>6. spot \in Nat /\ other \in Nat /\ 2 * spot < other
    BY <2>2, HalfPrice
  <2>7. factor \in Nat \ {0}
    BY DEF SharingFactor
  <2> HIDE DEF spot, other, n, factor
  <2>8. (2 * spot) * n < other * n /\ (2 * spot) * n \in Nat /\ other * n \in Nat
    BY <2>2, <2>6, LessTimes
  <2>9. ((2 * spot) * n) * factor < other * n * factor
    BY <2>7, <2>8, LessTimes
  <2>10. ((2 * spot) * n) * factor = 2 * (spot * n * factor)
    <3>1. n \in Nat /\ factor \in Nat /\ spot * n \in Nat
      BY <2>2, <2>6, <2>7
    <3>2. (2 * spot) * n = 2 * (spot * n)
      BY <2>6, <3>1
    <3>3. \A x \in Nat : (2 * x) * factor = 2 * (x * factor)
      BY <3>1
    <3> QED
      BY <3>1, <3>2, <3>3
  <2>11. 2 * cache[k].rate < HourlyRate("aws", kind.pod, onDemand)
    BY <2>1, <2>2, <2>4, <2>5, <2>9, <2>10
  <2> QED
    BY <2>11, Zenon DEF kind, onDemand
<1> QED
  BY <1>1, TypeCorrect, EntriesExact, PTL
=============================================================================
