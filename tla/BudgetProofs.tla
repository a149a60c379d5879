---------------------------- MODULE BudgetProofs ----------------------------
(***************************************************************************)
(* What the run of BudgetController shows on a small instance, proved for  *)
(* every set of alerts and policies, every limit and grace period, and any *)
(* number of edits, faults and reads from a cache out of date.             *)
(***************************************************************************)
EXTENDS BudgetController, FiniteSetTheorems, TLAPS

-----------------------------------------------------------------------------
(* Types.                                                                  *)

LEMMA NoBudgetTyped == NoBudget \in CostBudgets
BY DEF NoBudget, CostBudgets, Actions, Ages

LEMMA OlderTyped ==
  ASSUME NEW age \in Ages
  PROVE  Older(age) \in Ages
BY BudgetAssumption DEF Older, Ages

LEMMA OlderBudgetTyped ==
  ASSUME NEW b \in CostBudgets
  PROVE  [b EXCEPT !.since = Older(@)] \in CostBudgets
<1>1. b.since \in Ages
  BY DEF CostBudgets
<1>2. Older(b.since) \in Ages
  BY <1>1, OlderTyped
<1> QED
  BY <1>2 DEF CostBudgets

LEMMA ThrottledTyped ==
  ASSUME NEW pools \in PoolSizes
  PROVE  Throttled(pools) \in PoolSizes
<1>1. \A i \in Pool : ThrottledPool(i, pools[i]) \in [min : Nat, max : Nat]
  BY PolicyAssumption DEF ThrottledPool, PoolSizes
<1> QED
  BY <1>1 DEF Throttled, PoolSizes

LEMMA ShrunkTyped ==
  ASSUME NEW pools \in PoolSizes
  PROVE  Shrunk(pools) \in PoolSizes
<1> DEFINE throttled == Throttled(pools)
<1>1. throttled \in PoolSizes
  BY ThrottledTyped
<1> HIDE DEF throttled
<1>2. \A i \in Pool : StoredPool(throttled[i]) \in [min : Nat, max : Nat]
  BY <1>1, PolicyAssumption DEF StoredPool, PoolSizes
<1>3. Stored(throttled) \in PoolSizes
  BY <1>2 DEF Stored, PoolSizes
<1> QED
  BY <1>3 DEF Shrunk, throttled

\* Reconcile's locals are typed again when it returns.
LEMMA ReturnTyped ==
  ASSUME Return
  PROVE  /\ step' = "idle" /\ copy' \in CostBudgets /\ copyFresh' \in BOOLEAN
         /\ seen' \in Spends \cup {0} /\ DOMAIN list' = {} /\ changed' = {}
BY NoBudgetTyped DEF Return, NoList

LEMMA TypeInit == Init => TypeOK
<1> SUFFICES ASSUME Init PROVE TypeOK
  OBVIOUS
<1>1. budget \in CostBudgets
  <2>1. PICK m \in Modes : budget = [NoBudget EXCEPT !.enabled = TRUE, !.mode = m]
    BY DEF Init
  <2> QED
    BY <2>1, BudgetAssumption DEF NoBudget, CostBudgets, Actions, Ages
<1>2. policies \in [Policy -> PoolSizes]
  BY PolicyAssumption DEF Init, PoolSizes
<1>3. over \in Ages
  <2>1. over = 0 \/ over = Never
    BY DEF Init
  <2> QED
    BY <2>1, BudgetAssumption DEF Ages
<1>4. /\ staleReads \in 0..MaxStaleReads /\ edits \in 0..MaxEdits
      /\ faults \in 0..MaxFaults /\ sent \in [Alert -> Nat]
  <2>1. MaxStaleReads \in Nat /\ MaxEdits \in Nat /\ MaxFaults \in Nat
    BY BudgetBounds
  <2>2. staleReads = 0 /\ edits = 0 /\ faults = 0 /\ sent = [a \in Alert |-> 0]
    BY DEF Init
  <2> QED
    BY <2>1, <2>2
<1>5. DOMAIN list = {} /\ changed = {}
  BY DEF Init, NoList
<1>6. /\ spend \in Spends /\ seen = 0 /\ step = "idle"
      /\ cached = budget /\ cacheFresh \in BOOLEAN
      /\ copy = NoBudget /\ copyFresh \in BOOLEAN
  BY DEF Init
<1> QED
  BY <1>1, <1>2, <1>3, <1>4, <1>5, <1>6, NoBudgetTyped DEF TypeOK

LEMMA TypeNext == TypeOK /\ [Next]_vars => TypeOK'
<1> SUFFICES ASSUME TypeOK, [Next]_vars PROVE TypeOK'
  OBVIOUS
<1> USE DEF TypeOK
<1>f. ASSUME Fault PROVE faults' \in 0..MaxFaults
  BY <1>f, BudgetBounds DEF Fault
<1>e. ASSUME Edit PROVE edits' \in 0..MaxEdits
  BY <1>e, BudgetBounds DEF Edit
<1>1. CASE Get
  <2>1. staleReads' \in 0..MaxStaleReads
    BY <1>1, BudgetBounds DEF Get
  <2> QED
    BY <1>1, <2>1 DEF Get, apiVars, cacheVars, listVars
<1>2. CASE UpdateBudgetStatus
  <2>1. copy' \in CostBudgets
    BY <1>2, BudgetAssumption DEF UpdateBudgetStatus, CostBudgets, Ages
  <2> QED
    BY <1>2, <2>1 DEF UpdateBudgetStatus, apiVars, cacheVars, listVars, boundVars
<1>3. CASE UpdateBudgetStatusFails
  BY <1>3, <1>f, ReturnTyped DEF UpdateBudgetStatusFails, apiVars, cacheVars
<1>4. CASE CheckAlerts
  <2>1. copy' \in CostBudgets
    BY <1>4 DEF CheckAlerts, CostBudgets, ReachedBy
  <2>2. sent' \in [Alert -> Nat]
    BY <1>4 DEF CheckAlerts
  <2> QED
    BY <1>4, <2>1, <2>2 DEF CheckAlerts, apiVars, cacheVars, listVars, boundVars
<1>5. CASE LiftEnforcement
  <2>1. copy' \in CostBudgets
    BY <1>5 DEF LiftEnforcement, CostBudgets
  <2> QED
    BY <1>5, <2>1 DEF LiftEnforcement, apiVars, cacheVars, listVars, boundVars
<1>6. CASE EnforceNothing
  BY <1>6 DEF EnforceNothing, apiVars, cacheVars, copyVars, listVars, boundVars
<1>7. CASE AlertOrBlock
  <2>1. copy' \in CostBudgets
    BY <1>7 DEF AlertOrBlock, CostBudgets
  <2> QED
    BY <1>7, <2>1 DEF AlertOrBlock, apiVars, cacheVars, listVars, boundVars
<1>8. CASE ListPolicies
  <2>1. DOMAIN list' = InScope /\ \A p \in InScope : list'[p] = policies[p]
    BY <1>8 DEF ListPolicies
  <2>2. \A p \in InScope : policies[p] \in PoolSizes
    BY DEF InScope
  <2> QED
    BY <1>8, <2>1, <2>2 DEF ListPolicies, apiVars, cacheVars, copyVars, boundVars
<1>9. CASE ListPoliciesFails
  BY <1>9, <1>f DEF ListPoliciesFails, apiVars, cacheVars, copyVars, listVars
<1>10. CASE ThrottleEnds
  <2>1. copy' \in CostBudgets
    BY <1>10 DEF ThrottleEnds, CostBudgets
  <2> QED
    BY <1>10, <2>1 DEF ThrottleEnds, apiVars, cacheVars, listVars, boundVars
<1>d. ASSUME NEW p, Done(p)
      PROVE  /\ DOMAIN list' \subseteq InScope
             /\ \A q \in DOMAIN list' : list'[q] \in PoolSizes
  BY <1>d DEF Done
<1>11. ASSUME NEW p \in Policy, UpdatePolicy(p) PROVE TypeOK'
  <2>1. list[p] \in PoolSizes
    BY <1>11 DEF UpdatePolicy
  <2>2. policies' \in [Policy -> PoolSizes]
    BY <1>11, <2>1, ShrunkTyped DEF UpdatePolicy
  <2> QED
    BY <1>11, <1>d, <2>2 DEF UpdatePolicy, cacheVars, copyVars, boundVars
<1>12. ASSUME NEW p \in Policy, SkipPolicy(p) PROVE TypeOK'
  BY <1>12, <1>d DEF SkipPolicy, apiVars, cacheVars, copyVars, boundVars
<1>13. ASSUME NEW p \in Policy, UpdatePolicyFails(p) PROVE TypeOK'
  BY <1>13, <1>d, <1>f DEF UpdatePolicyFails, apiVars, cacheVars, copyVars
<1>14. CASE WriteStatus
  <2>1. budget' \in CostBudgets
    BY <1>14 DEF WriteStatus, CostBudgets
  <2>2. over' \in Ages
    BY <1>14 DEF WriteStatus, Ages
  <2> QED
    BY <1>14, <2>1, <2>2, ReturnTyped DEF WriteStatus, boundVars
<1>15. CASE WriteStatusFails
  BY <1>15, <1>f, ReturnTyped DEF WriteStatusFails, apiVars, cacheVars
<1>16. CASE Restart
  BY <1>16, <1>f, ReturnTyped DEF Restart, apiVars
<1>17. CASE CacheSync
  BY <1>17 DEF CacheSync, apiVars, copyVars, listVars, boundVars
<1>18. CASE SpendChanges
  <2>1. over' \in Ages
    BY <1>18, BudgetAssumption DEF SpendChanges, Ages
  <2> QED
    BY <1>18, <2>1 DEF SpendChanges, apiVars, cacheVars, copyVars, listVars, boundVars
<1>19. CASE EditBudget
  <2>1. budget' \in CostBudgets
    <3>1. CASE \E a \in budget.fired : budget' = [budget EXCEPT !.fired = @ \ {a}]
      BY <3>1 DEF CostBudgets
    <3>2. CASE budget' = [budget EXCEPT !.enabled = ~@]
      BY <3>2 DEF CostBudgets
    <3>3. CASE \E m \in Modes \ {budget.mode} : budget' = [budget EXCEPT !.mode = m]
      BY <3>3, BudgetAssumption DEF CostBudgets
    <3> QED
      BY <1>19, <3>1, <3>2, <3>3 DEF EditBudget
  <2> QED
    BY <1>19, <1>e, <2>1 DEF EditBudget, listVars
<1>20. ASSUME NEW p \in Policy, EditPolicy(p) PROVE TypeOK'
  <2>1. policies' \in [Policy -> PoolSizes]
    BY <1>20, PolicyAssumption DEF EditPolicy, PoolSizes
  <2> QED
    BY <1>20, <1>e, <2>1 DEF EditPolicy, cacheVars, copyVars
<1>21. CASE Tick
  <2>1. budget' \in CostBudgets /\ cached' \in CostBudgets /\ copy' \in CostBudgets
    BY <1>21, OlderBudgetTyped DEF Tick
  <2> QED
    BY <1>21, <2>1, OlderTyped DEF Tick, listVars, boundVars
<1>22. CASE UNCHANGED vars
  BY <1>22 DEF vars, apiVars, cacheVars, copyVars, listVars, boundVars
<1> QED
  BY <1>1, <1>2, <1>3, <1>4, <1>5, <1>6, <1>7, <1>8, <1>9, <1>10, <1>11, <1>12,
     <1>13, <1>14, <1>15, <1>16, <1>17, <1>18, <1>19, <1>20, <1>21, <1>22
  DEF Next, Reconcile, Enforce, Users

\* Every variable keeps its type.
THEOREM TypeCorrect == Spec => []TypeOK
<1> QED
  BY TypeInit, TypeNext, PTL DEF Spec

-----------------------------------------------------------------------------
(* The copies.                                                             *)

\* A cache and a copy that have the budget's version agree with it, up to
\* what Reconcile has changed in its copy.
CopyInv ==
  /\ cacheFresh => cached = budget
  /\ copyFresh =>
       /\ step # "idle" /\ copy.mode = budget.mode
       /\ budget.fired \subseteq copy.fired
       /\ step \in {"status", "alerts"} => copy.fired = budget.fired
       /\ step \notin {"status", "alerts"} => copy.fired = budget.fired \cup ReachedBy(seen)
       /\ step # "write" => copy.active = budget.active

LEMMA CopyNext == TypeOK /\ CopyInv /\ [Next]_vars => CopyInv'
<1> SUFFICES ASSUME TypeOK, CopyInv, [Next]_vars PROVE CopyInv'
  OBVIOUS
<1> USE DEF CopyInv
<1>t. budget \in CostBudgets /\ copy \in CostBudgets /\ cached \in CostBudgets
  BY DEF TypeOK
<1>r. ASSUME Return PROVE ~copyFresh'
  BY <1>r DEF Return
<1>1. CASE Get
  BY <1>1 DEF Get, apiVars, cacheVars
<1>2. CASE UpdateBudgetStatus
  BY <1>2, <1>t DEF UpdateBudgetStatus, apiVars, cacheVars, CostBudgets
<1>3. CASE UpdateBudgetStatusFails
  BY <1>3, <1>r DEF UpdateBudgetStatusFails, apiVars, cacheVars
<1>4. CASE CheckAlerts
  BY <1>4, <1>t DEF CheckAlerts, apiVars, cacheVars, CostBudgets
<1>5. CASE LiftEnforcement
  BY <1>5, <1>t DEF LiftEnforcement, apiVars, cacheVars, CostBudgets
<1>6. CASE EnforceNothing
  BY <1>6 DEF EnforceNothing, apiVars, cacheVars, copyVars
<1>7. CASE AlertOrBlock
  BY <1>7, <1>t DEF AlertOrBlock, EnforcementDue, apiVars, cacheVars, CostBudgets
<1>8. CASE ListPolicies
  BY <1>8 DEF ListPolicies, EnforcementDue, apiVars, cacheVars, copyVars
<1>9. CASE ListPoliciesFails
  BY <1>9 DEF ListPoliciesFails, EnforcementDue, apiVars, cacheVars, copyVars
<1>10. CASE ThrottleEnds
  BY <1>10, <1>t DEF ThrottleEnds, apiVars, cacheVars, CostBudgets
<1>11. ASSUME NEW p \in Policy, UpdatePolicy(p) PROVE CopyInv'
  BY <1>11 DEF UpdatePolicy, cacheVars, copyVars
<1>12. ASSUME NEW p \in Policy, SkipPolicy(p) PROVE CopyInv'
  BY <1>12 DEF SkipPolicy, apiVars, cacheVars, copyVars
<1>13. ASSUME NEW p \in Policy, UpdatePolicyFails(p) PROVE CopyInv'
  BY <1>13 DEF UpdatePolicyFails, apiVars, cacheVars, copyVars
<1>14. CASE WriteStatus
  BY <1>14, <1>r DEF WriteStatus
<1>15. CASE WriteStatusFails
  BY <1>15, <1>r DEF WriteStatusFails, apiVars, cacheVars
<1>16. CASE Restart
  BY <1>16, <1>r DEF Restart, apiVars
<1>17. CASE CacheSync
  BY <1>17 DEF CacheSync, apiVars, copyVars
<1>18. CASE SpendChanges
  BY <1>18 DEF SpendChanges, apiVars, cacheVars, copyVars
<1>19. CASE EditBudget
  BY <1>19 DEF EditBudget
<1>20. ASSUME NEW p \in Policy, EditPolicy(p) PROVE CopyInv'
  BY <1>20 DEF EditPolicy, cacheVars, copyVars
<1>21. CASE Tick
  <2>1. /\ budget'.fired = budget.fired /\ budget'.active = budget.active
        /\ copy'.fired = copy.fired /\ copy'.active = copy.active
    BY <1>21, <1>t DEF Tick, CostBudgets
  <2> QED
    BY <1>21, <2>1 DEF Tick
<1>22. CASE UNCHANGED vars
  BY <1>22 DEF vars, apiVars, cacheVars, copyVars
<1> QED
  BY <1>1, <1>2, <1>3, <1>4, <1>5, <1>6, <1>7, <1>8, <1>9, <1>10, <1>11, <1>12,
     <1>13, <1>14, <1>15, <1>16, <1>17, <1>18, <1>19, <1>20, <1>21, <1>22
  DEF Next, Reconcile, Enforce, Users

-----------------------------------------------------------------------------
(* The list of policies.                                                   *)

\* Until somebody writes it, a listed policy is what the list says.
ListInv == \A p \in DOMAIN list \ changed : list[p] = policies[p]

LEMMA ListNext == TypeOK /\ ListInv /\ [Next]_vars => ListInv'
<1> SUFFICES ASSUME TypeOK, ListInv, [Next]_vars PROVE ListInv'
  OBVIOUS
<1> USE DEF ListInv
<1>r. ASSUME Return PROVE ListInv'
  BY <1>r DEF Return, NoList
<1>d. ASSUME NEW p, Done(p)
      PROVE  DOMAIN list' = DOMAIN list \ {p} /\ \A q \in DOMAIN list' : list'[q] = list[q]
  BY <1>d DEF Done
<1>u. ASSUME UNCHANGED <<policies, list, changed>> PROVE ListInv'
  BY <1>u
<1>1. CASE Get \/ UpdateBudgetStatus \/ CheckAlerts
  BY <1>1, <1>u DEF Get, UpdateBudgetStatus, CheckAlerts, apiVars, listVars
<1>2. CASE UpdateBudgetStatusFails \/ WriteStatus \/ WriteStatusFails \/ Restart
  BY <1>2, <1>r DEF UpdateBudgetStatusFails, WriteStatus, WriteStatusFails, Restart
<1>3. CASE LiftEnforcement \/ EnforceNothing \/ AlertOrBlock \/ ListPoliciesFails \/ ThrottleEnds
  BY <1>3, <1>u DEF LiftEnforcement, EnforceNothing, AlertOrBlock, ListPoliciesFails,
                    ThrottleEnds, apiVars, listVars
<1>4. CASE ListPolicies
  BY <1>4 DEF ListPolicies, apiVars
<1>5. ASSUME NEW p \in Policy, UpdatePolicy(p) PROVE ListInv'
  <2>1. \A q \in Policy \ {p} : policies'[q] = policies[q]
    BY <1>5 DEF UpdatePolicy, TypeOK
  <2>2. DOMAIN list \subseteq Policy
    BY DEF TypeOK, InScope
  <2> QED
    BY <1>5, <1>d, <2>1, <2>2 DEF UpdatePolicy
<1>6. ASSUME NEW p \in Policy, SkipPolicy(p) \/ UpdatePolicyFails(p) PROVE ListInv'
  BY <1>6, <1>d DEF SkipPolicy, UpdatePolicyFails, apiVars
<1>7. CASE CacheSync \/ SpendChanges \/ EditBudget \/ Tick
  BY <1>7, <1>u DEF CacheSync, SpendChanges, EditBudget, Tick, apiVars, listVars
<1>8. ASSUME NEW p \in Policy, EditPolicy(p) PROVE ListInv'
  <2>1. \A q \in Policy \ {p} : policies'[q] = policies[q]
    BY <1>8 DEF EditPolicy, TypeOK
  <2>2. list' = list /\ changed' = changed \cup (DOMAIN list \cap {p})
    BY <1>8 DEF EditPolicy
  <2> QED
    BY <2>1, <2>2 DEF TypeOK, InScope
<1>9. CASE UNCHANGED vars
  BY <1>9, <1>u DEF vars, apiVars, listVars
<1> QED
  BY <1>1, <1>2, <1>3, <1>4, <1>5, <1>6, <1>7, <1>8, <1>9
  DEF Next, Reconcile, Enforce, Users

\* A throttled pool, once stored, is the pool it was or a smaller spot pool,
\* unless its maximum is 0.
LEMMA ThrottledShrinks ==
  ASSUME NEW pools \in PoolSizes, NEW i \in Pool
  PROVE  LET size == Shrunk(pools)[i] IN
         \/ size = pools[i]
         \/ i \in SpotPools /\ size.min <= pools[i].min /\ size.max <= pools[i].max
         \/ ThrottledPool(i, pools[i]).max = 0 /\ size.max = DefaultMaxSize
<1>1. pools[i] \in [min : Nat, max : Nat]
  BY DEF PoolSizes
<1>2. Shrunk(pools)[i] = StoredPool(ThrottledPool(i, pools[i]))
  BY DEF Throttled, Stored, Shrunk
<1>3. /\ ThrottledPool(i, pools[i]) \in [min : Nat, max : Nat]
      /\ \/ ThrottledPool(i, pools[i]) = pools[i]
         \/ /\ i \in SpotPools
            /\ ThrottledPool(i, pools[i]).min <= pools[i].min
            /\ ThrottledPool(i, pools[i]).max <= pools[i].max
  BY <1>1, PolicyAssumption DEF ThrottledPool
<1> QED
  BY <1>2, <1>3 DEF StoredPool

-----------------------------------------------------------------------------
(* Alerts.                                                                 *)

Disturbances == edits + faults + staleReads

\* An alert that the budget, or the copy about to become its status, does not
\* know as fired was sent at most once per disturbance; and a copy out of date
\* that may send it again is a disturbance that has not cost anything yet.
SentBound(a) ==
  /\ sent[a] <= Disturbances + 1
  /\ a \notin budget.fired /\ ~(copyFresh /\ a \in copy.fired) => sent[a] <= Disturbances
  /\ step \in {"status", "alerts"} /\ ~copyFresh /\ a \notin copy.fired =>
       /\ sent[a] <= Disturbances
       /\ a \notin budget.fired => sent[a] + 1 <= Disturbances

SentInv == \A a \in Alert : SentBound(a)

LEMMA SentInit == Init => SentInv
<1> SUFFICES ASSUME Init, NEW a \in Alert PROVE SentBound(a)
  BY DEF SentInv
<1>1. sent[a] = 0 /\ edits = 0 /\ faults = 0 /\ staleReads = 0 /\ step = "idle"
  BY DEF Init
<1> QED
  BY <1>1 DEF SentBound, Disturbances

LEMMA SentNext == TypeOK /\ CopyInv /\ SentInv /\ [Next]_vars => SentInv'
<1> SUFFICES ASSUME TypeOK, CopyInv, SentInv, [Next]_vars, NEW a \in Alert
             PROVE  SentBound(a)'
  BY DEF SentInv
<1>s. SentBound(a)
  BY DEF SentInv
<1> USE <1>s DEF SentBound, Disturbances
<1>t. /\ budget \in CostBudgets /\ copy \in CostBudgets /\ cached \in CostBudgets
      /\ edits \in Nat /\ faults \in Nat /\ staleReads \in Nat /\ sent[a] \in Nat
      /\ copyFresh \in BOOLEAN /\ cacheFresh \in BOOLEAN
  BY BudgetBounds DEF TypeOK
<1>f. ASSUME Fault PROVE faults' = faults + 1
  BY <1>f DEF Fault
<1>e. ASSUME Edit PROVE edits' = edits + 1
  BY <1>e DEF Edit
<1>r. ASSUME Return PROVE ~copyFresh' /\ step' = "idle"
  BY <1>r DEF Return
<1>u. ASSUME UNCHANGED <<sent, edits, faults, staleReads, copyFresh>>,
             step' \notin {"status", "alerts"} \/ step' = step,
             budget'.fired = budget.fired, copy'.fired = copy.fired
      PROVE  SentBound(a)'
  BY <1>u, <1>t
<1>1. CASE Get
  <2>1. step = "idle" /\ ~copyFresh
    BY <1>1 DEF Get, CopyInv
  <2>2. sent[a] <= Disturbances + 1 /\ (a \notin budget.fired => sent[a] <= Disturbances)
    BY <2>1
  <2>3. CASE cacheFresh
    BY <1>1, <1>t, <2>2, <2>3 DEF Get, CopyInv, apiVars
  <2>4. CASE ~cacheFresh
    BY <1>1, <1>t, <2>2, <2>4 DEF Get, apiVars
  <2> QED
    BY <2>3, <2>4
<1>2. CASE UpdateBudgetStatus
  <2>1. copy'.fired = copy.fired
    BY <1>2, <1>t DEF UpdateBudgetStatus, CostBudgets
  <2> QED
    BY <1>2, <1>t, <2>1 DEF UpdateBudgetStatus, apiVars, boundVars
<1>3. CASE UpdateBudgetStatusFails
  BY <1>3, <1>t, <1>f, <1>r DEF UpdateBudgetStatusFails, apiVars
<1>4. CASE CheckAlerts
  <2>1. PICK due \in SUBSET Alert :
           /\ due \cap copy.fired = {}
           /\ sent' = [b \in Alert |-> IF b \in due THEN sent[b] + 1 ELSE sent[b]]
           /\ copy' = [copy EXCEPT !.fired = @ \cup due]
    BY <1>4 DEF CheckAlerts, ReachedBy
  <2>2. copy'.fired = copy.fired \cup due
    BY <1>t, <2>1 DEF CostBudgets
  <2>3. /\ step = "alerts" /\ step' = "enforce"
        /\ UNCHANGED <<budget, copyFresh, edits, faults, staleReads>>
    BY <1>4 DEF CheckAlerts, apiVars, boundVars
  <2>4. CASE a \in due
    BY <1>t, <2>1, <2>2, <2>3, <2>4 DEF CopyInv
  <2>5. CASE a \notin due
    BY <1>t, <2>1, <2>2, <2>3, <2>5
  <2> QED
    BY <2>4, <2>5
<1>5. CASE LiftEnforcement
  <2>1. copy'.fired = copy.fired
    BY <1>5, <1>t DEF LiftEnforcement, CostBudgets
  <2> QED
    BY <1>5, <1>u, <2>1 DEF LiftEnforcement, apiVars, boundVars
<1>6. CASE EnforceNothing
  BY <1>6, <1>u DEF EnforceNothing, apiVars, copyVars, boundVars
<1>7. CASE AlertOrBlock
  <2>1. copy'.fired = copy.fired
    BY <1>7, <1>t DEF AlertOrBlock, CostBudgets
  <2> QED
    BY <1>7, <1>u, <2>1 DEF AlertOrBlock, apiVars, boundVars
<1>8. CASE ListPolicies
  BY <1>8, <1>u DEF ListPolicies, apiVars, copyVars, boundVars
<1>9. CASE ListPoliciesFails
  BY <1>9, <1>t, <1>f DEF ListPoliciesFails, apiVars, copyVars
<1>10. CASE ThrottleEnds
  <2>1. copy'.fired = copy.fired
    BY <1>10, <1>t DEF ThrottleEnds, CostBudgets
  <2> QED
    BY <1>10, <1>u, <2>1 DEF ThrottleEnds, apiVars, boundVars
<1>11. ASSUME NEW p \in Policy, UpdatePolicy(p) \/ SkipPolicy(p) PROVE SentBound(a)'
  BY <1>11, <1>u DEF UpdatePolicy, SkipPolicy, apiVars, copyVars, boundVars
<1>12. ASSUME NEW p \in Policy, UpdatePolicyFails(p) PROVE SentBound(a)'
  <2>1. faults' = faults \/ faults' = faults + 1
    BY <1>12, <1>f DEF UpdatePolicyFails
  <2> QED
    BY <1>12, <1>t, <2>1 DEF UpdatePolicyFails, apiVars, copyVars
<1>13. CASE WriteStatus
  <2>1. budget'.fired = copy.fired /\ budget.fired \subseteq copy.fired
    BY <1>13, <1>t DEF WriteStatus, CopyInv, CostBudgets
  <2> QED
    BY <1>13, <1>t, <1>r, <2>1 DEF WriteStatus, boundVars
<1>14. CASE WriteStatusFails
  BY <1>14, <1>t, <1>f, <1>r DEF WriteStatusFails, apiVars
<1>15. CASE Restart
  BY <1>15, <1>t, <1>f, <1>r DEF Restart, apiVars
<1>16. CASE CacheSync \/ SpendChanges
  BY <1>16, <1>u DEF CacheSync, SpendChanges, apiVars, copyVars, boundVars
<1>17. CASE EditBudget
  <2>1. budget.fired \ budget'.fired \subseteq budget.fired /\ budget'.fired \subseteq budget.fired
    BY <1>17, <1>t DEF EditBudget, CostBudgets
  <2>2. /\ ~copyFresh' /\ edits' = edits + 1
        /\ UNCHANGED <<step, copy, sent, faults, staleReads>>
    BY <1>17, <1>e DEF EditBudget
  <2>3. CASE copyFresh
    BY <1>t, <2>1, <2>2, <2>3 DEF CopyInv
  <2>4. CASE ~copyFresh
    BY <1>t, <2>1, <2>2, <2>4
  <2> QED
    BY <1>t, <2>3, <2>4
<1>18. ASSUME NEW p \in Policy, EditPolicy(p) PROVE SentBound(a)'
  BY <1>18, <1>t, <1>e DEF EditPolicy, copyVars
<1>19. CASE Tick
  <2>1. budget'.fired = budget.fired /\ copy'.fired = copy.fired
    BY <1>19, <1>t DEF Tick, CostBudgets
  <2> QED
    BY <1>19, <1>u, <2>1 DEF Tick, boundVars
<1>20. CASE UNCHANGED vars
  BY <1>20, <1>u DEF vars, apiVars, copyVars, boundVars
<1> QED
  BY <1>1, <1>2, <1>3, <1>4, <1>5, <1>6, <1>7, <1>8, <1>9, <1>10, <1>11, <1>12,
     <1>13, <1>14, <1>15, <1>16, <1>17, <1>18, <1>19, <1>20
  DEF Next, Reconcile, Enforce, Users

-----------------------------------------------------------------------------
(* The grace period.                                                       *)

\* ExceededSince, in the budget and in a copy of it that is not out of date, is
\* never before the time the limit was reached; what throttles on such a copy,
\* or is about to be recorded as enforced, has waited.
GraceInv ==
  /\ Exceeded(spend) => over # Never
  /\ step \in {"alerts", "enforce", "throttle", "write"} =>
       (Exceeded(seen) <=> copy.since # Never)
  /\ budget.since # Never => over # Never /\ budget.since <= over
  /\ staleReads = 0 \/ copyFresh =>
       /\ step # "idle" /\ copy.since # Never => over # Never /\ copy.since <= over
       /\ step = "throttle" => over = GracePeriod
  /\ step = "write" /\ copyFresh /\ copy.active /\ ~budget.active => over = GracePeriod

LEMMA GraceInit == Init => GraceInv
<1> SUFFICES ASSUME Init PROVE GraceInv
  OBVIOUS
<1>1. budget.since = Never
  BY DEF Init, NoBudget
<1>2. step = "idle" /\ over = (IF Exceeded(spend) THEN 0 ELSE Never)
  BY DEF Init
<1> QED
  BY <1>1, <1>2, BudgetAssumption DEF GraceInv

LEMMA OlderMonotone ==
  ASSUME NEW a \in Ages, NEW b \in Ages
  PROVE  /\ Older(a) = Never <=> a = Never
         /\ a # Never /\ b # Never /\ a <= b => Older(a) <= Older(b)
         /\ b = GracePeriod => Older(b) = GracePeriod
BY BudgetAssumption DEF Older, Ages

LEMMA GraceNext == TypeOK /\ CopyInv /\ GraceInv /\ [Next]_vars => GraceInv'
<1> SUFFICES ASSUME TypeOK, CopyInv, GraceInv, [Next]_vars PROVE GraceInv'
  OBVIOUS
<1> USE DEF GraceInv
<1>t. /\ budget \in CostBudgets /\ copy \in CostBudgets /\ cached \in CostBudgets
      /\ over \in Ages /\ budget.since \in Ages /\ copy.since \in Ages
      /\ staleReads \in Nat /\ GracePeriod \in Nat /\ Never \notin Int
  BY BudgetBounds, BudgetAssumption DEF TypeOK, CostBudgets
<1>r. ASSUME Return, UNCHANGED <<spend, budget, over, staleReads>> PROVE GraceInv'
  BY <1>r DEF Return
<1>u. ASSUME UNCHANGED <<spend, budget, over, staleReads, seen, step, copy, copyFresh>>
      PROVE  GraceInv'
  BY <1>u
\* Once the enforcement is due, the limit has been reached for long enough.
<1>due. ASSUME EnforcementDue, staleReads = 0 \/ copyFresh PROVE over = GracePeriod
  <2>1. copy.since # Never /\ copy.since >= GracePeriod /\ copy.since <= over /\ over # Never
    BY <1>due DEF EnforcementDue
  <2> QED
    BY <2>1, <1>t DEF Ages
<1>1. CASE Get
  <2>1. cacheFresh \/ staleReads' # 0
    BY <1>1, <1>t DEF Get
  <2> QED
    BY <1>1, <1>t, <2>1 DEF Get, CopyInv, apiVars
<1>2. CASE UpdateBudgetStatus
  <2>1. /\ copy'.since = IF Exceeded(spend) THEN IF copy.since = Never THEN 0 ELSE copy.since
                         ELSE Never
        /\ seen' = spend
    BY <1>2, <1>t DEF UpdateBudgetStatus, CostBudgets
  <2>2. /\ step = "status" /\ step' = "alerts"
        /\ UNCHANGED <<spend, budget, over, staleReads, copyFresh>>
    BY <1>2 DEF UpdateBudgetStatus, apiVars, boundVars
  <2>3. over # Never => 0 <= over
    BY <1>t DEF Ages
  <2> QED
    BY <1>t, <2>1, <2>2, <2>3
<1>3. CASE UpdateBudgetStatusFails
  BY <1>3, <1>r DEF UpdateBudgetStatusFails, apiVars
<1>4. CASE CheckAlerts
  <2>1. copy'.since = copy.since
    BY <1>4, <1>t DEF CheckAlerts, CostBudgets
  <2> QED
    BY <1>4, <2>1 DEF CheckAlerts, apiVars, boundVars
<1>5. CASE LiftEnforcement
  <2>1. copy'.since = copy.since /\ ~copy'.active
    BY <1>5, <1>t DEF LiftEnforcement, CostBudgets
  <2> QED
    BY <1>5, <2>1 DEF LiftEnforcement, apiVars, boundVars
<1>6. CASE EnforceNothing
  BY <1>6 DEF EnforceNothing, CopyInv, apiVars, copyVars, boundVars
<1>7. CASE AlertOrBlock
  <2>1. copy'.since = copy.since
    BY <1>7, <1>t DEF AlertOrBlock, CostBudgets
  <2> QED
    BY <1>7, <1>due, <2>1 DEF AlertOrBlock, EnforcementDue, apiVars, boundVars
<1>8. CASE ListPolicies
  BY <1>8, <1>due DEF ListPolicies, EnforcementDue, apiVars, copyVars, boundVars
<1>9. CASE ListPoliciesFails
  BY <1>9, <1>due DEF ListPoliciesFails, EnforcementDue, apiVars, copyVars
<1>10. CASE ThrottleEnds
  <2>1. copy'.since = copy.since
    BY <1>10, <1>t DEF ThrottleEnds, CostBudgets
  <2> QED
    BY <1>10, <2>1 DEF ThrottleEnds, apiVars, boundVars
<1>11. ASSUME NEW p \in Policy, UpdatePolicy(p) \/ SkipPolicy(p) PROVE GraceInv'
  BY <1>11, <1>u DEF UpdatePolicy, SkipPolicy, apiVars, copyVars, boundVars
<1>12. ASSUME NEW p \in Policy, UpdatePolicyFails(p) PROVE GraceInv'
  BY <1>12, <1>u DEF UpdatePolicyFails, apiVars, copyVars
<1>13. CASE WriteStatus
  <2>1. budget'.since = copy.since
    BY <1>13, <1>t DEF WriteStatus, CostBudgets
  <2>2. /\ step = "write" /\ copyFresh /\ step' = "idle" /\ UNCHANGED <<spend, staleReads>>
        /\ over' = IF Exceeded(seen) \/ Exceeded(spend) THEN over ELSE Never
    BY <1>13 DEF WriteStatus, Return, boundVars
  <2> QED
    BY <2>1, <2>2
<1>14. CASE WriteStatusFails
  BY <1>14, <1>r DEF WriteStatusFails, apiVars
<1>15. CASE Restart
  BY <1>15, <1>r DEF Restart, apiVars
<1>16. CASE CacheSync
  BY <1>16, <1>u DEF CacheSync, apiVars, copyVars, boundVars
<1>17. CASE SpendChanges
  <2>1. /\ over' = IF over = Never /\ Exceeded(spend') THEN 0 ELSE over
        /\ UNCHANGED <<budget, step, copy, copyFresh, seen, staleReads>>
    BY <1>17 DEF SpendChanges, apiVars, copyVars, boundVars
  <2> QED
    BY <1>t, <2>1
<1>18. CASE EditBudget
  <2>1. budget'.since = budget.since
    BY <1>18, <1>t DEF EditBudget, CostBudgets
  <2> QED
    BY <1>18, <2>1 DEF EditBudget
<1>19. ASSUME NEW p \in Policy, EditPolicy(p) PROVE GraceInv'
  BY <1>19, <1>u DEF EditPolicy, copyVars
<1>20. CASE Tick
  <2>1. /\ budget'.since = Older(budget.since) /\ budget'.active = budget.active
        /\ copy'.since = Older(copy.since) /\ copy'.active = copy.active
    BY <1>20, <1>t DEF Tick, CostBudgets
  <2>2. over' = Older(over) /\ UNCHANGED <<spend, step, copyFresh, seen, staleReads>>
    BY <1>20 DEF Tick, boundVars
  <2> QED
    BY <1>t, <2>1, <2>2, OlderMonotone
<1>21. CASE UNCHANGED vars
  BY <1>21, <1>u DEF vars, apiVars, copyVars, boundVars
<1> QED
  BY <1>1, <1>2, <1>3, <1>4, <1>5, <1>6, <1>7, <1>8, <1>9, <1>10, <1>11, <1>12,
     <1>13, <1>14, <1>15, <1>16, <1>17, <1>18, <1>19, <1>20, <1>21
  DEF Next, Reconcile, Enforce, Users

-----------------------------------------------------------------------------
(* Alerts before enforcement.                                              *)

\* The thresholds are percentages: to exceed the limit is to reach them all.
LEMMA ExceedingReachesAll ==
  ASSUME NEW s \in Nat, Exceeded(s)
  PROVE  ReachedBy(s) = Alert
<1> SUFFICES ASSUME NEW a \in Alert PROVE PercentageAtLeast(s, Threshold[a])
  BY DEF ReachedBy
<1>1. Threshold[a] \in 0..100 /\ MonthlyLimit \in Nat
  BY BudgetAssumption
<1>2. MonthlyLimit > 0 /\ s * 100 >= 100 * MonthlyLimit
  BY <1>1 DEF Exceeded, PercentageAtLeast
<1>3. Threshold[a] * MonthlyLimit <= 100 * MonthlyLimit
  BY <1>1
<1> QED
  BY <1>1, <1>2, <1>3 DEF PercentageAtLeast

\* What any copy of the budget knows as fired was sent, what the spend found
\* reaches is sent before the budget is enforced, and only a spend over the
\* limit has it enforced.
AlertedInv ==
  /\ \A a \in budget.fired \cup cached.fired \cup copy.fired : sent[a] > 0
  /\ step \in {"enforce", "throttle", "write"} => \A a \in ReachedBy(seen) : sent[a] > 0
  /\ step = "throttle" \/ (step = "write" /\ copy.active) => Exceeded(seen)

LEMMA AlertedInit == Init => AlertedInv
<1> SUFFICES ASSUME Init PROVE AlertedInv
  OBVIOUS
<1>1. budget.fired = {} /\ copy.fired = {} /\ cached = budget /\ step = "idle"
  BY DEF Init, NoBudget
<1> QED
  BY <1>1 DEF AlertedInv

LEMMA AlertedNext == TypeOK /\ AlertedInv /\ [Next]_vars => AlertedInv'
<1> SUFFICES ASSUME TypeOK, AlertedInv, [Next]_vars PROVE AlertedInv'
  OBVIOUS
<1> USE DEF AlertedInv
<1>t. /\ budget \in CostBudgets /\ copy \in CostBudgets /\ cached \in CostBudgets
      /\ sent \in [Alert -> Nat]
  BY DEF TypeOK
<1>r. ASSUME Return, UNCHANGED sent, cached'.fired \cup budget'.fired
               \subseteq cached.fired \cup budget.fired \cup copy.fired
      PROVE  AlertedInv'
  <2>1. step' = "idle" /\ copy'.fired = {}
    BY <1>r DEF Return, NoBudget
  <2> QED
    BY <1>r, <2>1
\* Nothing is sent and the spend found stays.
<1>u. ASSUME UNCHANGED <<sent, seen>>,
             copy'.fired = copy.fired, cached'.fired \cup budget'.fired
               \subseteq cached.fired \cup budget.fired,
             step' \in {"enforce", "throttle", "write"}
               => step \in {"enforce", "throttle", "write"},
             step' = "throttle" \/ (step' = "write" /\ copy'.active) => Exceeded(seen)
      PROVE  AlertedInv'
  BY <1>u DEF ReachedBy, Exceeded, PercentageAtLeast
<1>1. CASE Get
  <2>1. /\ copy' = cached /\ step' = "status" /\ UNCHANGED <<budget, cached, sent>>
    BY <1>1 DEF Get, apiVars, cacheVars
  <2> QED
    BY <2>1
<1>2. CASE UpdateBudgetStatus
  <2>1. copy'.fired = copy.fired
    BY <1>2, <1>t DEF UpdateBudgetStatus, CostBudgets
  <2>2. step' = "alerts" /\ UNCHANGED <<budget, cached, sent>>
    BY <1>2 DEF UpdateBudgetStatus, apiVars, cacheVars
  <2> QED
    BY <2>1, <2>2
<1>3. CASE UpdateBudgetStatusFails \/ WriteStatusFails \/ Restart
  <2>1. /\ Return /\ UNCHANGED <<budget, sent>> /\ cached' \in {cached, budget}
    BY <1>3 DEF UpdateBudgetStatusFails, WriteStatusFails, Restart, apiVars, cacheVars
  <2> QED
    BY <1>r, <2>1
<1>4. CASE CheckAlerts
  <2> DEFINE due == ReachedBy(seen) \ copy.fired
  <2>1. /\ sent' = [a \in Alert |-> IF a \in due THEN sent[a] + 1 ELSE sent[a]]
        /\ copy'.fired = copy.fired \cup due
        /\ step' = "enforce" /\ UNCHANGED <<budget, cached, seen>>
    BY <1>4, <1>t DEF CheckAlerts, CostBudgets, apiVars, cacheVars
  <2>2. ReachedBy(seen) \subseteq Alert /\ ReachedBy(seen') = ReachedBy(seen)
    BY <2>1 DEF ReachedBy
  <2>3. /\ budget.fired \subseteq Alert /\ cached.fired \subseteq Alert
        /\ copy.fired \subseteq Alert
    BY <1>t DEF CostBudgets
  <2>4. \A a \in Alert : sent[a] > 0 \/ a \in due => sent'[a] > 0
    BY <1>t, <2>1
  <2>5. \A a \in budget'.fired \cup cached'.fired \cup copy'.fired : sent'[a] > 0
    BY <2>1, <2>2, <2>3, <2>4
  <2>6. \A a \in ReachedBy(seen') : sent'[a] > 0
    BY <2>2, <2>3, <2>4
  <2> QED
    BY <2>1, <2>2, <2>5, <2>6
<1>5. CASE LiftEnforcement
  <2>1. copy'.fired = copy.fired /\ ~copy'.active /\ step' = "write" /\ step = "enforce"
    BY <1>5, <1>t DEF LiftEnforcement, CostBudgets
  <2> QED
    BY <1>5, <1>u, <2>1 DEF LiftEnforcement, apiVars, cacheVars
<1>6. CASE EnforceNothing \/ ListPolicies \/ ListPoliciesFails
  <2>1. /\ Exceeded(seen) /\ step = "enforce"
        /\ UNCHANGED <<budget, cached, copy, seen, sent>>
    BY <1>6 DEF EnforceNothing, ListPolicies, ListPoliciesFails, EnforcementDue,
                apiVars, cacheVars, copyVars
  <2> QED
    BY <1>u, <2>1
<1>7. CASE AlertOrBlock
  <2>1. copy'.fired = copy.fired /\ Exceeded(seen) /\ step = "enforce"
    BY <1>7, <1>t DEF AlertOrBlock, EnforcementDue, CostBudgets
  <2> QED
    BY <1>7, <1>u, <2>1 DEF AlertOrBlock, apiVars, cacheVars
<1>8. CASE ThrottleEnds
  <2>1. copy'.fired = copy.fired /\ step = "throttle"
    BY <1>8, <1>t DEF ThrottleEnds, CostBudgets
  <2> QED
    BY <1>8, <1>u, <2>1 DEF ThrottleEnds, apiVars, cacheVars
<1>9. ASSUME NEW p \in Policy, UpdatePolicy(p) \/ SkipPolicy(p) \/ UpdatePolicyFails(p)
      PROVE  AlertedInv'
  BY <1>9, <1>u DEF UpdatePolicy, SkipPolicy, UpdatePolicyFails, apiVars, cacheVars, copyVars
<1>10. CASE WriteStatus
  <2>1. budget'.fired = copy.fired
    BY <1>10, <1>t DEF WriteStatus, CostBudgets
  <2> QED
    BY <1>10, <1>r, <2>1 DEF WriteStatus
<1>11. CASE CacheSync \/ SpendChanges
  <2>1. /\ UNCHANGED <<budget, copy, seen, sent, step>> /\ cached' \in {cached, budget}
    BY <1>11 DEF CacheSync, SpendChanges, apiVars, cacheVars, copyVars
  <2> QED
    BY <1>u, <2>1
<1>12. CASE EditBudget
  <2>1. budget'.fired \subseteq budget.fired
    BY <1>12, <1>t DEF EditBudget, CostBudgets
  <2> QED
    BY <1>12, <1>u, <2>1 DEF EditBudget
<1>13. ASSUME NEW p \in Policy, EditPolicy(p) PROVE AlertedInv'
  BY <1>13, <1>u DEF EditPolicy, cacheVars, copyVars
<1>14. CASE Tick
  <2>1. /\ budget'.fired = budget.fired /\ cached'.fired = cached.fired
        /\ copy'.fired = copy.fired /\ copy'.active = copy.active
    BY <1>14, <1>t DEF Tick, CostBudgets
  <2> QED
    BY <1>14, <1>u, <2>1 DEF Tick
<1>15. CASE UNCHANGED vars
  BY <1>15, <1>u DEF vars, apiVars, cacheVars, copyVars
<1> QED
  BY <1>1, <1>2, <1>3, <1>4, <1>5, <1>6, <1>7, <1>8, <1>9, <1>10, <1>11, <1>12,
     <1>13, <1>14, <1>15
  DEF Next, Reconcile, Enforce, Users

-----------------------------------------------------------------------------
(* The action.                                                             *)

\* The budget has one of the actions that users set, and it is on the action
\* "throttle" of its copy that Reconcile throttles.
ModeInv ==
  /\ budget.mode \in Modes
  /\ step = "throttle" => copy.mode = "throttle"

LEMMA ModeInit == Init => ModeInv
<1> SUFFICES ASSUME Init PROVE ModeInv
  OBVIOUS
<1>1. PICK m \in Modes : budget = [NoBudget EXCEPT !.enabled = TRUE, !.mode = m]
  BY DEF Init
<1> QED
  BY <1>1 DEF Init, ModeInv, NoBudget

LEMMA ModeNext == TypeOK /\ ModeInv /\ [Next]_vars => ModeInv'
<1> SUFFICES ASSUME TypeOK, ModeInv, [Next]_vars PROVE ModeInv'
  OBVIOUS
<1> USE DEF ModeInv
<1>t. budget \in CostBudgets /\ copy \in CostBudgets
  BY DEF TypeOK
<1>1. CASE Get \/ UpdateBudgetStatus \/ CheckAlerts \/ LiftEnforcement \/ EnforceNothing
           \/ AlertOrBlock \/ ListPoliciesFails \/ ThrottleEnds
  <2>1. budget' = budget /\ step' # "throttle"
    BY <1>1 DEF Get, UpdateBudgetStatus, CheckAlerts, LiftEnforcement, EnforceNothing,
                AlertOrBlock, ListPoliciesFails, ThrottleEnds, apiVars
  <2> QED
    BY <2>1
<1>2. CASE UpdateBudgetStatusFails \/ WriteStatusFails \/ Restart
  BY <1>2 DEF UpdateBudgetStatusFails, WriteStatusFails, Restart, Return, apiVars
<1>3. CASE ListPolicies
  BY <1>3 DEF ListPolicies, apiVars, copyVars
<1>4. ASSUME NEW p \in Policy, UpdatePolicy(p) \/ SkipPolicy(p) \/ UpdatePolicyFails(p)
      PROVE  ModeInv'
  BY <1>4 DEF UpdatePolicy, SkipPolicy, UpdatePolicyFails, apiVars, copyVars
<1>5. CASE WriteStatus
  <2>1. budget'.mode = budget.mode /\ step' = "idle"
    BY <1>5, <1>t DEF WriteStatus, Return, CostBudgets
  <2> QED
    BY <2>1
<1>6. CASE CacheSync \/ SpendChanges
  BY <1>6 DEF CacheSync, SpendChanges, apiVars, copyVars
<1>7. CASE EditBudget
  <2>1. budget'.mode \in Modes
    BY <1>7, <1>t DEF EditBudget, CostBudgets
  <2> QED
    BY <1>7, <2>1 DEF EditBudget
<1>8. ASSUME NEW p \in Policy, EditPolicy(p) PROVE ModeInv'
  BY <1>8 DEF EditPolicy, copyVars
<1>9. CASE Tick
  <2>1. budget'.mode = budget.mode /\ copy'.mode = copy.mode
    BY <1>9, <1>t DEF Tick, CostBudgets
  <2> QED
    BY <1>9, <2>1 DEF Tick
<1>10. CASE UNCHANGED vars
  BY <1>10 DEF vars, apiVars, copyVars
<1> QED
  BY <1>1, <1>2, <1>3, <1>4, <1>5, <1>6, <1>7, <1>8, <1>9, <1>10
  DEF Next, Reconcile, Enforce, Users

-----------------------------------------------------------------------------
(* Throttling.                                                             *)

\* The policies a pass has missed, or may come to miss: those with a pool that
\* was set to 0, which is at the default once the policy is written; those
\* written by others since they were listed, whose update will be refused; and
\* those dealt with that still allow too many spot nodes.
Zeroed ==
  {p \in Policy : \E i \in SpotPools : InitialSizes[p][i].max # 0 /\ policies[p][i].max = 0}

Missed == Zeroed \cup changed \cup {p \in InScope \ DOMAIN list : Unthrottled(p)}

\* A pass is at the policies, or about to record that it was.
Enforcing ==
  \/ step = "throttle"
  \/ /\ step = "write" /\ copyFresh
     /\ copy.active /\ copy.mode = "throttle" /\ ~budget.active

\* Each of them is there for a fault or an edit of its own.
EffectInv ==
  MaxSpotInstances \notin {0, Never} /\ ~BlockSpotCreation =>
    /\ Cardinality(Zeroed) <= edits + faults
    /\ Enforcing => Cardinality(Missed) <= edits + faults

\* Fewer policies, or one more.
LEMMA PoliciesCounted ==
  ASSUME NEW S, NEW T, NEW p, T \subseteq Policy
  PROVE  /\ Cardinality(T) \in Nat
         /\ S \subseteq T => Cardinality(S) <= Cardinality(T) /\ Cardinality(S) \in Nat
         /\ S \subseteq T \cup {p} => Cardinality(S) <= Cardinality(T) + 1 /\ Cardinality(S) \in Nat
<1>1. IsFiniteSet(T)
  BY PolicyAssumption, FS_Subset
<1>2. Cardinality(T) \in Nat /\ IsFiniteSet(T \cup {p})
  BY <1>1, FS_CardinalityType, FS_AddElement
<1>3. Cardinality(T \cup {p}) \in Nat /\ Cardinality(T \cup {p}) <= Cardinality(T) + 1
  BY <1>1, <1>2, FS_CardinalityType, FS_AddElement
<1>4. S \subseteq T => Cardinality(S) <= Cardinality(T) /\ Cardinality(S) \in Nat
  BY <1>1, FS_Subset, FS_CardinalityType
<1>5. S \subseteq T \cup {p} => Cardinality(S) <= Cardinality(T \cup {p}) /\ Cardinality(S) \in Nat
  BY <1>2, FS_Subset, FS_CardinalityType
<1> QED
  BY <1>2, <1>3, <1>4, <1>5

\* Throttling a listed policy puts it below the limit and leaves no new pool
\* of maximum 0.
LEMMA ThrottledKept ==
  ASSUME MaxSpotInstances \notin {0, Never}, ~BlockSpotCreation,
         NEW pools \in PoolSizes, NEW i \in SpotPools
  PROVE  LET size == Shrunk(pools)[i] IN
         /\ pools[i].max # 0 => size.max # 0 /\ size.max <= MaxSpotInstances
         /\ size.max = 0 => pools[i].max = 0
         /\ ~Modified(pools) => pools[i].max <= MaxSpotInstances
<1>1. /\ pools[i] \in [min : Nat, max : Nat] /\ i \in Pool
      /\ MaxSpotInstances \in Nat /\ MaxSpotInstances > 0
  BY PolicyAssumption DEF PoolSizes
<1>2. Shrunk(pools)[i] = StoredPool(ThrottledPool(i, pools[i]))
  BY <1>1 DEF Throttled, Stored, Shrunk
<1>3. ThrottledPool(i, pools[i])
        = IF pools[i].max > MaxSpotInstances THEN [pools[i] EXCEPT !.max = MaxSpotInstances]
          ELSE pools[i]
  BY <1>1 DEF ThrottledPool
<1>4. ThrottledPool(i, pools[i]).max
        = IF pools[i].max > MaxSpotInstances THEN MaxSpotInstances ELSE pools[i].max
  BY <1>1, <1>3
<1>5. ~Modified(pools) => pools[i].max <= MaxSpotInstances
  BY <1>1, <1>4 DEF Modified
<1>6. StoredPool(ThrottledPool(i, pools[i])).max
        = IF ThrottledPool(i, pools[i]).max = 0 THEN DefaultMaxSize
          ELSE ThrottledPool(i, pools[i]).max
  BY <1>1, <1>3 DEF StoredPool
<1> QED
  BY <1>1, <1>2, <1>4, <1>5, <1>6

\* Only a pass at the policies has a list.
ListingInv == step # "throttle" => DOMAIN list = {}

LEMMA ListingNext == ListingInv /\ [Next]_vars => ListingInv'
<1> SUFFICES ASSUME ListingInv, [Next]_vars PROVE ListingInv'
  OBVIOUS
<1> USE DEF ListingInv
<1>1. CASE Get \/ UpdateBudgetStatus \/ CheckAlerts
  BY <1>1 DEF Get, UpdateBudgetStatus, CheckAlerts, listVars
<1>2. CASE UpdateBudgetStatusFails \/ WriteStatus \/ WriteStatusFails \/ Restart
  BY <1>2 DEF UpdateBudgetStatusFails, WriteStatus, WriteStatusFails, Restart, Return, NoList
<1>3. CASE LiftEnforcement \/ EnforceNothing \/ AlertOrBlock \/ ListPoliciesFails \/ ThrottleEnds
  BY <1>3 DEF LiftEnforcement, EnforceNothing, AlertOrBlock, ListPoliciesFails,
              EnforcementDue, ThrottleEnds, listVars
<1>4. CASE ListPolicies
  BY <1>4 DEF ListPolicies
<1>5. CASE \E p \in Policy : UpdatePolicy(p) \/ SkipPolicy(p) \/ UpdatePolicyFails(p)
  BY <1>5 DEF UpdatePolicy, SkipPolicy, UpdatePolicyFails
<1>6. CASE CacheSync \/ SpendChanges \/ EditBudget \/ Tick \/ UNCHANGED vars
           \/ \E p \in Policy : EditPolicy(p)
  BY <1>6 DEF CacheSync, SpendChanges, EditBudget, EditPolicy, Tick, vars, listVars
<1> QED
  BY <1>1, <1>2, <1>3, <1>4, <1>5, <1>6 DEF Next, Reconcile, Enforce, Users

LEMMA EffectInit == Init => EffectInv
<1> SUFFICES ASSUME Init PROVE EffectInv
  OBVIOUS
<1>1. ~Enforcing /\ edits + faults = 0
  <2>1. step = "idle" /\ edits = 0 /\ faults = 0
    BY DEF Init
  <2> QED
    BY <2>1 DEF Enforcing
<1>2. Zeroed = {}
  BY DEF Init, Zeroed
<1> QED
  BY <1>1, <1>2, FS_EmptySet DEF EffectInv

LEMMA EffectNext == TypeOK /\ CopyInv /\ ListInv /\ EffectInv /\ [Next]_vars => EffectInv'
<1> SUFFICES ASSUME TypeOK, CopyInv, ListInv, EffectInv, [Next]_vars,
                    MaxSpotInstances \notin {0, Never}, ~BlockSpotCreation
             PROVE  /\ Cardinality(Zeroed') <= edits' + faults'
                    /\ Enforcing' => Cardinality(Missed') <= edits' + faults'
  BY DEF EffectInv
<1>t. /\ budget \in CostBudgets /\ copy \in CostBudgets
      /\ policies \in [Policy -> PoolSizes] /\ DOMAIN list \subseteq InScope
      /\ \A p \in DOMAIN list : list[p] \in PoolSizes
      /\ edits \in Nat /\ faults \in Nat
      /\ InScope \subseteq Policy /\ InScope' = InScope
      /\ Zeroed \subseteq Policy /\ Missed \subseteq Policy /\ Zeroed \subseteq Missed
      /\ MaxSpotInstances \in Nat \ {0}
  <2>1. /\ budget \in CostBudgets /\ copy \in CostBudgets
        /\ policies \in [Policy -> PoolSizes] /\ DOMAIN list \subseteq InScope
        /\ \A p \in DOMAIN list : list[p] \in PoolSizes
        /\ edits \in Nat /\ faults \in Nat /\ changed \subseteq Policy
    BY BudgetBounds DEF TypeOK
  <2>2. InScope \subseteq Policy /\ InScope' = InScope
    BY DEF InScope, IsInBudgetScope, NamespaceOf
  <2>3. Zeroed \subseteq Policy /\ Missed \subseteq Policy /\ Zeroed \subseteq Missed
    BY <2>1, <2>2 DEF Zeroed, Missed
  <2> QED
    BY <2>1, <2>2, <2>3, PolicyAssumption
<1>i. /\ Cardinality(Zeroed) <= edits + faults
      /\ Enforcing => Cardinality(Missed) <= edits + faults
  BY DEF EffectInv
<1> DEFINE D == edits + faults
           Goal == /\ Cardinality(Zeroed') <= D'
                   /\ Enforcing' => Cardinality(Missed') <= D'
           Counted == D' \in Nat /\ D <= D'
\* A step that misses nothing more.
<1>a. ASSUME Counted, Zeroed' \subseteq Zeroed,
             Enforcing' => Enforcing /\ Missed' \subseteq Missed
      PROVE  Goal
  <2>1. Cardinality(Zeroed') <= Cardinality(Zeroed) /\ Cardinality(Zeroed') \in Nat
        /\ Cardinality(Zeroed) \in Nat /\ Cardinality(Missed) \in Nat
    BY <1>t, <1>a, PoliciesCounted
  <2>2. Enforcing' => Cardinality(Missed') <= Cardinality(Missed) /\ Cardinality(Missed') \in Nat
    BY <1>t, <1>a, PoliciesCounted
  <2> QED
    BY <1>a, <1>i, <1>t, <2>1, <2>2
\* A step by which one policy more may be missed, and which is counted.
<1>b. ASSUME NEW p, D' = D + 1, Zeroed' \subseteq Zeroed \cup {p},
             Enforcing' => Enforcing /\ Missed' \subseteq Missed \cup {p}
      PROVE  Goal
  <2>1. Cardinality(Zeroed') <= Cardinality(Zeroed) + 1 /\ Cardinality(Zeroed') \in Nat
        /\ Cardinality(Zeroed) \in Nat /\ Cardinality(Missed) \in Nat
    BY <1>t, <1>b, PoliciesCounted
  <2>2. Enforcing' => Cardinality(Missed') <= Cardinality(Missed) + 1 /\ Cardinality(Missed') \in Nat
    BY <1>t, <1>b, PoliciesCounted
  <2> QED
    BY <1>b, <1>i, <1>t, <2>1, <2>2
<1>z. policies' = policies => Zeroed' = Zeroed
  BY DEF Zeroed
<1>m. UNCHANGED <<policies, list, changed>> => Missed' = Missed
  BY <1>t, <1>z DEF Missed, Unthrottled
<1>d. /\ UNCHANGED <<edits, faults>> => Counted
      /\ UNCHANGED edits /\ Fault => Counted /\ D' = D + 1
      /\ UNCHANGED faults /\ Edit => Counted /\ D' = D + 1
  BY <1>t DEF Fault, Edit
<1>r. ASSUME Return PROVE ~Enforcing'
  BY <1>r DEF Return, Enforcing
<1>1. CASE Get \/ UpdateBudgetStatus \/ CheckAlerts \/ LiftEnforcement
  <2>1. UNCHANGED policies /\ UNCHANGED <<edits, faults>>
    BY <1>1 DEF Get, UpdateBudgetStatus, CheckAlerts, LiftEnforcement, apiVars, boundVars
  <2>2. CASE ~LiftEnforcement
    <3>1. ~Enforcing'
      BY <1>1, <2>2 DEF Get, UpdateBudgetStatus, CheckAlerts, Enforcing
    <3> QED
      BY <1>a, <1>d, <1>z, <2>1, <3>1
  <2>3. CASE LiftEnforcement
    <3>1. ~copy'.active /\ step' = "write"
      BY <1>t, <2>3 DEF LiftEnforcement, CostBudgets
    <3> QED
      BY <1>a, <1>d, <1>z, <2>1, <3>1 DEF Enforcing
  <2> QED
    BY <2>2, <2>3
<1>2. CASE UpdateBudgetStatusFails \/ WriteStatus \/ WriteStatusFails \/ Restart
  <2>1. UNCHANGED policies /\ Counted /\ Return
    BY <1>2, <1>d DEF UpdateBudgetStatusFails, WriteStatus, WriteStatusFails, Restart,
                      apiVars, boundVars
  <2> QED
    BY <1>a, <1>r, <1>z, <2>1
<1>3. CASE EnforceNothing \/ ListPoliciesFails
  <2>1. /\ UNCHANGED <<policies, budget, copy, copyFresh>> /\ Counted
        /\ step = "enforce" /\ step' = "write"
    BY <1>3, <1>d DEF EnforceNothing, ListPoliciesFails, EnforcementDue, apiVars, copyVars, boundVars
  <2>2. ~Enforcing'
    BY <2>1 DEF CopyInv, Enforcing
  <2> QED
    BY <1>a, <1>z, <2>1, <2>2
<1>4. CASE AlertOrBlock
  <2>1. UNCHANGED policies /\ Counted /\ step' = "write" /\ copy'.mode # "throttle"
    BY <1>4, <1>d, <1>t DEF AlertOrBlock, CostBudgets, apiVars, boundVars
  <2> QED
    BY <1>a, <1>z, <2>1 DEF Enforcing
<1>5. CASE ListPolicies
  <2>1. UNCHANGED policies /\ UNCHANGED <<edits, faults>> /\ DOMAIN list' = InScope /\ changed' = {}
    BY <1>5 DEF ListPolicies, apiVars, boundVars
  <2>2. Missed' = Zeroed
    BY <1>t, <1>z, <2>1 DEF Missed
  <2> QED
    BY <1>i, <1>z, <2>1, <2>2
<1>6. CASE ThrottleEnds
  <2>1. UNCHANGED <<policies, list, changed, edits, faults>> /\ step = "throttle"
    BY <1>6 DEF ThrottleEnds, apiVars, listVars, boundVars
  <2> QED
    BY <1>a, <1>d, <1>m, <1>z, <2>1 DEF Enforcing
<1>7. ASSUME NEW p \in Policy, UpdatePolicy(p) PROVE Goal
  <2>1. /\ p \in DOMAIN list \ changed
        /\ policies' = [policies EXCEPT ![p] = Shrunk(list[p])]
        /\ DOMAIN list' = DOMAIN list \ {p}
        /\ step = "throttle" /\ UNCHANGED <<changed, edits, faults>>
    BY <1>7 DEF UpdatePolicy, Done, boundVars
  <2>2. list[p] = policies[p] /\ policies[p] \in PoolSizes
    BY <1>t, <2>1 DEF ListInv
  <2>3. /\ policies'[p] = Shrunk(policies[p])
        /\ \A q \in Policy \ {p} : policies'[q] = policies[q]
    BY <1>t, <2>1, <2>2
  <2>4. ASSUME NEW i \in SpotPools
        PROVE  /\ policies[p][i].max # 0
                    => policies'[p][i].max # 0 /\ ~(policies'[p][i].max > MaxSpotInstances)
               /\ policies'[p][i].max = 0 => policies[p][i].max = 0
    <3>1. /\ policies[p][i] \in [min : Nat, max : Nat]
          /\ policies'[p][i] \in [min : Nat, max : Nat]
      BY <2>2, <2>3, ShrunkTyped, PolicyAssumption DEF PoolSizes
    <3> QED
      BY <1>t, <2>2, <2>3, <3>1, ThrottledKept
  <2>5. Zeroed' \subseteq Zeroed
    BY <2>3, <2>4 DEF Zeroed
  <2>6. Unthrottled(p)' => p \in Zeroed
    BY <2>4 DEF Unthrottled, Zeroed
  <2>7. \A q \in Policy \ {p} : Unthrottled(q)' <=> Unthrottled(q)
    BY <2>3 DEF Unthrottled
  <2>8. Missed' \subseteq Missed
    BY <1>t, <2>1, <2>5, <2>6, <2>7 DEF Missed
  <2> QED
    BY <1>a, <1>d, <2>1, <2>5, <2>8 DEF Enforcing
<1>8. ASSUME NEW p \in Policy, SkipPolicy(p) PROVE Goal
  <2>1. /\ p \in DOMAIN list /\ ~Modified(list[p]) /\ policies' = policies
        /\ DOMAIN list' = DOMAIN list \ {p}
        /\ step = "throttle" /\ UNCHANGED <<changed, edits, faults>>
    BY <1>8 DEF SkipPolicy, Done, apiVars, boundVars
  <2>2. p \in changed \/ ~Unthrottled(p)
    <3>1. SUFFICES ASSUME p \notin changed PROVE ~Unthrottled(p)
      OBVIOUS
    <3>2. list[p] = policies[p] /\ policies[p] \in PoolSizes
      BY <1>t, <2>1, <3>1 DEF ListInv
    <3>3. ASSUME NEW i \in SpotPools PROVE ~(policies[p][i].max > MaxSpotInstances)
      <4>1. policies[p][i] \in [min : Nat, max : Nat] /\ ~Modified(policies[p])
        BY <2>1, <3>2, PolicyAssumption DEF PoolSizes
      <4>2. policies[p][i].max <= MaxSpotInstances
        BY <3>2, <4>1, ThrottledKept
      <4> QED
        BY <1>t, <4>1, <4>2
    <3> QED
      BY <3>3 DEF Unthrottled
  <2>3. \A q : Unthrottled(q)' <=> Unthrottled(q)
    BY <2>1 DEF Unthrottled
  <2>4. Missed' \subseteq Missed
    BY <1>t, <1>z, <2>1, <2>2, <2>3 DEF Missed
  <2> QED
    BY <1>a, <1>d, <1>z, <2>1, <2>4 DEF Enforcing
<1>9. ASSUME NEW p \in Policy, UpdatePolicyFails(p) PROVE Goal
  <2>1. /\ p \in DOMAIN list /\ policies' = policies
        /\ DOMAIN list' = DOMAIN list \ {p}
        /\ step = "throttle" /\ UNCHANGED <<changed, edits>>
        /\ IF p \in changed THEN UNCHANGED faults ELSE Fault
    BY <1>9 DEF UpdatePolicyFails, Done, apiVars
  <2>2. \A q : Unthrottled(q)' <=> Unthrottled(q)
    BY <2>1 DEF Unthrottled
  <2>3. Missed' \subseteq Missed \cup {p}
    BY <1>t, <1>z, <2>1, <2>2 DEF Missed
  <2>4. CASE p \in changed
    <3>1. Missed' \subseteq Missed
      BY <2>3, <2>4 DEF Missed
    <3> QED
      BY <1>a, <1>d, <1>z, <2>1, <2>4, <3>1 DEF Enforcing
  <2>5. CASE p \notin changed
    BY <1>b, <1>d, <1>z, <2>1, <2>3, <2>5 DEF Enforcing
  <2> QED
    BY <2>4, <2>5
<1>10. CASE CacheSync \/ SpendChanges \/ UNCHANGED vars
  <2>1. UNCHANGED <<policies, list, changed, edits, faults, budget, copy, copyFresh, step>>
    BY <1>10 DEF CacheSync, SpendChanges, vars, apiVars, boundVars, copyVars, listVars
  <2> QED
    BY <1>a, <1>d, <1>m, <1>z, <2>1 DEF Enforcing
<1>11. CASE EditBudget
  <2>1. UNCHANGED <<policies, list, changed, faults, step>> /\ Edit /\ ~copyFresh'
    BY <1>11 DEF EditBudget, listVars
  <2> QED
    BY <1>a, <1>d, <1>m, <1>z, <2>1 DEF Enforcing
<1>12. ASSUME NEW p \in Policy, EditPolicy(p) PROVE Goal
  <2>1. /\ Edit /\ UNCHANGED <<faults, budget, list, copy, copyFresh, step>>
        /\ changed' \subseteq changed \cup {p}
        /\ \A q \in Policy \ {p} : policies'[q] = policies[q]
    BY <1>12, <1>t DEF EditPolicy, copyVars
  <2>2. Zeroed' \subseteq Zeroed \cup {p}
    BY <2>1 DEF Zeroed
  <2>3. \A q \in Policy \ {p} : Unthrottled(q)' <=> Unthrottled(q)
    BY <2>1 DEF Unthrottled
  <2>4. Missed' \subseteq Missed \cup {p}
    BY <1>t, <2>1, <2>2, <2>3 DEF Missed
  <2> QED
    BY <1>b, <1>d, <2>1, <2>2, <2>4 DEF Enforcing
<1>13. CASE Tick
  <2>1. /\ budget'.active = budget.active
        /\ copy'.mode = copy.mode /\ copy'.active = copy.active
    BY <1>13, <1>t DEF Tick, CostBudgets
  <2>2. UNCHANGED <<policies, list, changed, edits, faults, copyFresh, step>>
    BY <1>13 DEF Tick, boundVars, listVars
  <2> QED
    BY <1>a, <1>d, <1>m, <1>z, <2>1, <2>2 DEF Enforcing
<1> QED
  BY <1>1, <1>2, <1>3, <1>4, <1>5, <1>6, <1>7, <1>8, <1>9, <1>10, <1>11, <1>12, <1>13
  DEF Next, Reconcile, Enforce, Users

-----------------------------------------------------------------------------
(* The theorems.                                                           *)

Inv ==
  /\ TypeOK /\ CopyInv /\ ListInv
  /\ SentInv /\ GraceInv /\ AlertedInv /\ ModeInv /\ ListingInv /\ EffectInv

THEOREM Invariance == Spec => []Inv
<1>1. Init => Inv
  <2> SUFFICES ASSUME Init PROVE Inv
    OBVIOUS
  <2>1. CopyInv /\ ListInv /\ ListingInv
    BY DEF Init, CopyInv, ListInv, ListingInv, NoList
  <2> QED
    BY <2>1, TypeInit, SentInit, GraceInit, AlertedInit, ModeInit,
       EffectInit DEF Inv
<1>2. Inv /\ [Next]_vars => Inv'
  BY TypeNext, CopyNext, ListNext, SentNext, GraceNext, AlertedNext, ModeNext,
     ListingNext, EffectNext DEF Inv
<1> QED
  BY <1>1, <1>2, PTL DEF Spec

\* The steps that write the API server's objects.
LEMMA ApiWrites ==
  ASSUME Next
  PROVE  \/ WriteStatus \/ (\E p \in Policy : UpdatePolicy(p))
         \/ EditBudget \/ (\E p \in Policy : EditPolicy(p))
         \/ Tick \/ UNCHANGED apiVars
BY DEF Next, Reconcile, Enforce, Users, Get, UpdateBudgetStatus,
       UpdateBudgetStatusFails, CheckAlerts, LiftEnforcement, EnforceNothing,
       AlertOrBlock, ListPolicies, ListPoliciesFails, SkipPolicy, UpdatePolicyFails,
       ThrottleEnds, WriteStatusFails, Restart, CacheSync, SpendChanges

\* An alert is sent once, and once more at most for each edit, failed call,
\* restart or read from a cache out of date.
THEOREM AlertsNotRepeated == Spec => []AlertSentOnce
<1>1. Inv => AlertSentOnce
  BY BudgetBounds DEF Inv, SentInv, SentBound, Disturbances, AlertSentOnce, TypeOK
<1> QED
  BY <1>1, Invariance, PTL

\* Nothing is throttled before the limit has been reached for the whole grace
\* period, unless Reconcile read a budget out of date, and enforcement is not
\* marked active before then even if it did.
THEOREM GraceAlwaysGiven == Spec => GraceIsGiven
<1> DEFINE A == /\ ~budget.active /\ budget'.active => over = GracePeriod
                /\ policies' # policies /\ edits' = edits
                     => staleReads > 0 \/ over = GracePeriod
<1>1. Inv /\ [Next]_vars => [A]_vars
  <2> SUFFICES ASSUME Inv, Next PROVE A
    OBVIOUS
  <2> USE DEF Inv
  <2>t. /\ budget \in CostBudgets /\ staleReads \in Nat /\ edits \in Nat
    BY BudgetBounds DEF TypeOK
  <2>1. CASE WriteStatus
    <3>1. budget'.active = copy.active /\ copyFresh /\ step = "write" /\ policies' = policies
      BY <2>1, <2>t DEF WriteStatus, CostBudgets
    <3> QED
      BY <3>1, <2>t DEF GraceInv
  <2>2. CASE \E p \in Policy : UpdatePolicy(p)
    <3>1. step = "throttle" /\ budget' = budget
      BY <2>2 DEF UpdatePolicy
    <3> QED
      BY <3>1, <2>t DEF GraceInv
  <2>3. CASE UNCHANGED policies /\ budget'.active = budget.active
    BY <2>3
  <2>4. CASE EditBudget
    <3>1. budget'.active = budget.active /\ policies' = policies
      BY <2>4, <2>t DEF EditBudget, CostBudgets
    <3> QED
      BY <3>1
  <2>5. CASE \E p \in Policy : EditPolicy(p)
    BY <2>5, <2>t DEF EditPolicy, Edit, apiVars
  <2>6. CASE Tick
    <3>1. budget'.active = budget.active /\ policies' = policies
      BY <2>6, <2>t DEF Tick, CostBudgets
    <3> QED
      BY <3>1
  <2> QED
    BY ApiWrites, <2>1, <2>2, <2>3, <2>4, <2>5, <2>6 DEF apiVars
<1> QED
  BY <1>1, Invariance, PTL DEF Spec, GraceIsGiven

\* Every alert has been sent once at least before a policy is shrunk or
\* enforcement is marked active (checkAlerts before enforceBudget).
THEOREM AlertsAlwaysFirst == Spec => AlertsComeFirst
<1> DEFINE A == \/ ~budget.active /\ budget'.active
                \/ policies' # policies /\ edits' = edits
                => \A a \in Alert : sent[a] > 0
<1>1. Inv /\ [Next]_vars => [A]_vars
  <2> SUFFICES ASSUME Inv, Next PROVE A
    OBVIOUS
  <2> USE DEF Inv
  <2>t. /\ budget \in CostBudgets /\ edits \in Nat /\ seen \in Nat
    BY BudgetBounds, BudgetAssumption DEF TypeOK
  <2>s. ASSUME step \in {"throttle", "write"}, Exceeded(seen)
        PROVE  \A a \in Alert : sent[a] > 0
    BY <2>s, <2>t, ExceedingReachesAll DEF AlertedInv
  <2>1. CASE WriteStatus
    <3>1. budget'.active = copy.active /\ step = "write" /\ policies' = policies
      BY <2>1, <2>t DEF WriteStatus, CostBudgets
    <3> QED
      BY <3>1, <2>s DEF AlertedInv
  <2>2. CASE \E p \in Policy : UpdatePolicy(p)
    <3>1. step = "throttle"
      BY <2>2 DEF UpdatePolicy
    <3> QED
      BY <3>1, <2>s DEF AlertedInv
  <2>3. CASE UNCHANGED policies /\ budget'.active = budget.active
    BY <2>3
  <2>4. CASE EditBudget
    <3>1. budget'.active = budget.active /\ policies' = policies
      BY <2>4, <2>t DEF EditBudget, CostBudgets
    <3> QED
      BY <3>1
  <2>5. CASE \E p \in Policy : EditPolicy(p)
    BY <2>5, <2>t DEF EditPolicy, Edit, apiVars
  <2>6. CASE Tick
    <3>1. budget'.active = budget.active /\ policies' = policies
      BY <2>6, <2>t DEF Tick, CostBudgets
    <3> QED
      BY <3>1
  <2> QED
    BY ApiWrites, <2>1, <2>2, <2>3, <2>4, <2>5, <2>6 DEF apiVars
<1> QED
  BY <1>1, Invariance, PTL DEF Spec, AlertsComeFirst

\* When the budget comes to say that throttling is in effect, the policies of
\* its scope that are not throttled number at most the failed calls, restarts
\* and edits so far, for any policies, pools and limit (throttleResources, the
\* status update).
THEOREM ThrottlingCompletes == Spec => ThrottlingIsComplete
<1> DEFINE A == /\ MaxSpotInstances \notin {0, Never} /\ ~BlockSpotCreation
                /\ ~budget.active /\ budget'.active /\ budget.mode = "throttle"
                => Cardinality({p \in InScope : Unthrottled(p)}) <= edits + faults
<1>1. Inv /\ [Next]_vars => [A]_vars
  <2> SUFFICES ASSUME Inv, Next,
                      MaxSpotInstances \notin {0, Never}, ~BlockSpotCreation,
                      ~budget.active, budget'.active, budget.mode = "throttle"
               PROVE  Cardinality({p \in InScope : Unthrottled(p)}) <= edits + faults
    OBVIOUS
  <2> USE DEF Inv
  <2>t. /\ budget \in CostBudgets /\ edits \in Nat /\ faults \in Nat /\ changed \subseteq Policy
    BY BudgetBounds DEF TypeOK
  <2>1. CASE WriteStatus
    <3>1. /\ step = "write" /\ copyFresh
          /\ budget'.active = copy.active
      BY <2>1, <2>t DEF WriteStatus, CostBudgets
    <3>2. Enforcing
      BY <3>1 DEF CopyInv, Enforcing
    <3>3. Cardinality(Missed) <= edits + faults
      BY <3>2 DEF EffectInv
    <3>4. /\ {p \in InScope : Unthrottled(p)} \subseteq Missed
          /\ Missed \subseteq Policy
      BY <2>t, <3>1 DEF ListingInv, Missed, Zeroed, InScope
    <3>5. /\ Cardinality({p \in InScope : Unthrottled(p)}) <= Cardinality(Missed)
          /\ Cardinality({p \in InScope : Unthrottled(p)}) \in Nat
          /\ Cardinality(Missed) \in Nat
      BY <3>4, PoliciesCounted
    <3> QED
      BY <2>t, <3>3, <3>5
  <2>2. CASE Tick
    BY <2>2, <2>t DEF Tick, CostBudgets
  <2>3. CASE EditBudget
    BY <2>3, <2>t DEF EditBudget, CostBudgets
  <2>4. WriteStatus \/ Tick \/ EditBudget \/ UNCHANGED budget
    BY DEF Next, Reconcile, Enforce, Users, Get, UpdateBudgetStatus,
           UpdateBudgetStatusFails, CheckAlerts, LiftEnforcement, EnforceNothing,
           AlertOrBlock, ListPolicies, ListPoliciesFails, UpdatePolicy, SkipPolicy,
           UpdatePolicyFails, ThrottleEnds, WriteStatusFails, Restart, CacheSync,
           SpendChanges, EditPolicy, apiVars
  <2> QED
    BY <2>1, <2>2, <2>3, <2>4
<1> QED
  BY <1>1, Invariance, PTL DEF Spec, ThrottlingIsComplete

\* The controller touches spot pools in scope only, shrinks them only, and
\* overwrites nothing that users changed, maxima of 0 aside.
THEOREM OnlySpotPoolsShrink == Spec => OnlySpotShrinks
<1> DEFINE A == edits' = edits =>
                  \A p \in Policy, i \in Pool :
                    \/ policies'[p][i] = policies[p][i]
                    \/ /\ IsInBudgetScope(p) /\ i \in SpotPools
                       /\ policies'[p][i].min <= policies[p][i].min
                       /\ policies'[p][i].max <= policies[p][i].max
                    \/ /\ IsInBudgetScope(p) /\ ThrottledPool(i, policies[p][i]).max = 0
                       /\ policies'[p][i].max = DefaultMaxSize
<1>1. Inv /\ [Next]_vars => [A]_vars
  <2> SUFFICES ASSUME Inv, Next PROVE A
    OBVIOUS
  <2> USE DEF Inv
  <2>1. CASE UNCHANGED policies
    BY <2>1
  <2>2. ASSUME NEW q \in Policy, UpdatePolicy(q) PROVE A
    <3>1. /\ q \in DOMAIN list \ changed
          /\ policies' = [policies EXCEPT ![q] = Shrunk(list[q])]
      BY <2>2 DEF UpdatePolicy
    <3>2. list[q] = policies[q] /\ policies[q] \in PoolSizes /\ IsInBudgetScope(q)
      BY <3>1 DEF ListInv, TypeOK, InScope
    <3>3. policies'[q] = Shrunk(policies[q])
          /\ \A p \in Policy \ {q} : policies'[p] = policies[p]
      BY <3>1, <3>2 DEF TypeOK
    <3> QED
      BY <3>2, <3>3, ThrottledShrinks
  <2>3. CASE \E p \in Policy : EditPolicy(p)
    BY <2>3, BudgetBounds DEF EditPolicy, Edit, TypeOK
  <2>4. (\E p \in Policy : UpdatePolicy(p)) \/ (\E p \in Policy : EditPolicy(p))
          \/ UNCHANGED policies
    BY DEF Next, Reconcile, Enforce, Users, Get, UpdateBudgetStatus,
           UpdateBudgetStatusFails, CheckAlerts, LiftEnforcement, EnforceNothing,
           AlertOrBlock, ListPolicies, ListPoliciesFails, SkipPolicy, UpdatePolicyFails,
           ThrottleEnds, WriteStatus, WriteStatusFails, Restart, CacheSync, SpendChanges,
           EditBudget, Tick, apiVars
  <2> QED
    BY <2>1, <2>2, <2>3, <2>4
<1> QED
  BY <1>1, Invariance, PTL DEF Spec, OnlySpotShrinks

-----------------------------------------------------------------------------
(* Refinement.                                                             *)

LEMMA InitKeepsPromise == Init => Promise!Init
<1> SUFFICES ASSUME Init PROVE Promise!Init
  OBVIOUS
<1>1. PICK m \in Modes : budget = [NoBudget EXCEPT !.enabled = TRUE, !.mode = m]
  BY DEF Init
<1>2. budget.mode \in Modes /\ budget.fired = {} /\ budget.active = FALSE
  BY <1>1 DEF NoBudget
<1> QED
  BY <1>2 DEF Init, Stage, Promise!Init

\* A budget is read, judged, its alerts are sent.
LEMMA AlertingKeepsPromise ==
  ASSUME Inv
  PROVE  /\ Get => Promise!Read
         /\ UpdateBudgetStatus => Promise!Judge
         /\ CheckAlerts => Promise!SendAlerts
<1> USE DEF Inv
<1>1. ASSUME Get PROVE Promise!Read
  BY <1>1 DEF Get, Stage, apiVars, Promise!Read, Promise!budgetVars
<1>2. ASSUME UpdateBudgetStatus PROVE Promise!Judge
  BY <1>2 DEF UpdateBudgetStatus, Stage, apiVars, Promise!Judge, Promise!budgetVars
<1>3. ASSUME CheckAlerts PROVE Promise!SendAlerts
  <2> DEFINE due == ReachedBy(seen) \ copy.fired
  <2>1. /\ step = "alerts" /\ step' = "enforce" /\ copyFresh' = copyFresh
        /\ sent' = [a \in Alert |-> IF a \in due THEN sent[a] + 1 ELSE sent[a]]
        /\ UNCHANGED <<spend, budget, policies, over, seen>>
    BY <1>3 DEF CheckAlerts, apiVars
  <2>2. copyFresh => due = ReachedBy(seen) \ budget.fired
    BY <2>1 DEF CopyInv
  <2>3. \A a \in ReachedBy(seen) \ due : sent[a] > 0
    BY DEF AlertedInv
  <2>4. due \in SUBSET ReachedBy(seen)
    OBVIOUS
  <2> HIDE DEF due
  <2> QED
    BY <2>1, <2>2, <2>3, <2>4 DEF Stage, Promise!SendAlerts, Promise!budgetVars
<1> QED
  BY <1>1, <1>2, <1>3

\* A budget that Reconcile decides to enforce is over its limit and, if the copy
\* is not out of date, has been for the grace period and is not enforced yet.
LEMMA DueInTime ==
  ASSUME Inv, EnforcementDue
  PROVE  /\ step = "enforce" /\ Exceeded(seen) /\ ~copy.active
         /\ copyFresh => /\ over = GracePeriod
                         /\ ~budget.active /\ budget.mode = copy.mode
<1>1. /\ step = "enforce" /\ Exceeded(seen) /\ ~copy.active
      /\ copy.since = Never \/ copy.since >= GracePeriod
  BY DEF EnforcementDue
<1>2. copyFresh => ~budget.active /\ budget.mode = copy.mode
  BY <1>1 DEF Inv, CopyInv
<1>3. /\ over \in Ages /\ copy.since \in Ages /\ GracePeriod \in Nat /\ Never \notin Int
  BY BudgetAssumption DEF Inv, TypeOK, CostBudgets
<1>4. copyFresh => copy.since # Never /\ over # Never /\ copy.since <= over
  BY <1>1 DEF Inv, GraceInv
<1>5. copyFresh => over = GracePeriod
  BY <1>1, <1>3, <1>4 DEF Ages
<1> QED
  BY <1>1, <1>2, <1>5

\* Enforcement begins, goes on, ends or does not begin.
LEMMA EnforcingKeepsPromise ==
  ASSUME Inv
  PROVE  /\ LiftEnforcement => Promise!Forgo
         /\ EnforceNothing => Promise!Enforce \/ Promise!Forgo
         /\ AlertOrBlock => Promise!Enforce
         /\ ListPolicies => Promise!Throttle
         /\ ListPoliciesFails => Promise!Forgo
         /\ ThrottleEnds => Promise!Enforce
<1>t. copy \in CostBudgets
  BY DEF Inv, TypeOK
<1>1. ASSUME LiftEnforcement PROVE Promise!Forgo
  <2>1. /\ step = "enforce" /\ step' = "write" /\ ~copy'.active /\ ~Exceeded(seen)
        /\ UNCHANGED <<spend, policies, budget, over, sent, copyFresh, seen>>
    BY <1>1, <1>t DEF LiftEnforcement, CostBudgets, apiVars
  <2> QED
    BY <2>1 DEF Stage, Promise!Forgo, Promise!budgetVars
<1>2. ASSUME EnforceNothing PROVE Promise!Enforce \/ Promise!Forgo
  <2>1. /\ step = "enforce" /\ step' = "write" /\ Exceeded(seen)
        /\ UNCHANGED <<spend, policies, budget, over, sent, copy, copyFresh, seen>>
    BY <1>2 DEF EnforceNothing, apiVars, copyVars
  <2>2. copyFresh => copy.active = budget.active
    BY <2>1 DEF Inv, CopyInv
  <2>3. CASE copy.active
    BY <2>1, <2>2, <2>3 DEF Stage, Promise!Enforce, Promise!budgetVars
  <2>4. CASE ~copy.active
    BY <2>1, <2>2, <2>4 DEF Stage, Promise!Forgo, Promise!budgetVars
  <2> QED
    BY <2>3, <2>4
<1>3. ASSUME AlertOrBlock PROVE Promise!Enforce
  <2>1. /\ EnforcementDue /\ copy.mode # "throttle" /\ step' = "write" /\ copy'.active
        /\ UNCHANGED <<spend, policies, budget, over, sent, copyFresh, seen>>
    BY <1>3, <1>t DEF AlertOrBlock, CostBudgets, apiVars
  <2> QED
    BY <2>1, DueInTime DEF Stage, Promise!Enforce, Promise!budgetVars
<1>4. ASSUME ListPolicies PROVE Promise!Throttle
  <2>1. /\ EnforcementDue /\ copy.mode = "throttle" /\ step' = "throttle"
        /\ DOMAIN list' = InScope
        /\ UNCHANGED <<spend, policies, budget, over, sent, copyFresh, seen>>
    BY <1>4 DEF ListPolicies, apiVars, copyVars
  <2> QED
    BY <2>1, DueInTime DEF Stage, Promise!Throttle, Promise!budgetVars
<1>5. ASSUME ListPoliciesFails PROVE Promise!Forgo
  <2>1. /\ EnforcementDue /\ step' = "write"
        /\ UNCHANGED <<spend, policies, budget, over, sent, copy, copyFresh, seen>>
    BY <1>5 DEF ListPoliciesFails, apiVars, copyVars
  <2> QED
    BY <2>1, DueInTime DEF Stage, Promise!Forgo, Promise!budgetVars
<1>6. ASSUME ThrottleEnds PROVE Promise!Enforce
  <2>1. /\ step = "throttle" /\ DOMAIN list = {} /\ step' = "write" /\ copy'.active
        /\ UNCHANGED <<spend, policies, budget, over, sent, copyFresh, seen>>
    BY <1>6, <1>t DEF ThrottleEnds, CostBudgets, apiVars
  <2>2. Exceeded(seen) /\ (copyFresh => over = GracePeriod /\ budget.mode = "throttle")
    BY <2>1 DEF Inv, AlertedInv, GraceInv, CopyInv, ModeInv
  <2> QED
    BY <2>1, <2>2 DEF Stage, Promise!Enforce, Promise!budgetVars
<1> QED
  BY <1>1, <1>2, <1>3, <1>4, <1>5, <1>6

\* A listed policy is throttled as it is now, or left as it is.
LEMMA ThrottlingKeepsPromise ==
  ASSUME Inv, NEW p \in Policy, UpdatePolicy(p) \/ SkipPolicy(p) \/ UpdatePolicyFails(p)
  PROVE  Promise!Settle(p)
<1>1. /\ step = "throttle" /\ p \in DOMAIN list /\ DOMAIN list' = DOMAIN list \ {p}
      /\ UNCHANGED <<spend, budget, step, copyFresh, seen, over, sent>>
  BY DEF UpdatePolicy, SkipPolicy, UpdatePolicyFails, Done, apiVars, copyVars
<1>2. policies' \in {policies, [policies EXCEPT ![p] = Shrunk(@)]}
  <2>1. CASE UpdatePolicy(p)
    <3>1. list[p] = policies[p]
      BY <2>1 DEF UpdatePolicy, Inv, ListInv
    <3>2. policies' = [policies EXCEPT ![p] = Shrunk(policies[p])]
      BY <2>1, <3>1 DEF UpdatePolicy
    <3> QED
      BY <3>2
  <2>2. CASE SkipPolicy(p) \/ UpdatePolicyFails(p)
    BY <2>2 DEF SkipPolicy, UpdatePolicyFails, apiVars
  <2> QED
    BY <2>1, <2>2
<1> QED
  BY <1>1, <1>2 DEF Stage, Promise!Settle, Promise!budgetVars

\* A pass is recorded if its copy still has the budget's version, and leaves no
\* trace otherwise.
LEMMA ReturningKeepsPromise ==
  ASSUME Inv
  PROVE  /\ WriteStatus => Promise!Conclude
         /\ UpdateBudgetStatusFails \/ WriteStatusFails \/ Restart => Promise!GiveUp
<1>1. ASSUME Return
      PROVE  Stage' = "rest" /\ step' = "idle" /\ seen' = 0
  BY <1>1 DEF Return, Stage
<1>2. ASSUME WriteStatus PROVE Promise!Conclude
  <2>1. /\ Return /\ step = "write" /\ copyFresh /\ UNCHANGED <<spend, policies, sent>>
        /\ over' = IF Exceeded(seen) \/ Exceeded(spend) THEN over ELSE Never
    BY <1>2 DEF WriteStatus
  <2>2. /\ budget'.mode = budget.mode /\ budget'.fired = copy.fired
        /\ budget'.active = copy.active /\ copy.active \in BOOLEAN
    BY <1>2 DEF WriteStatus, Inv, TypeOK, CostBudgets
  <2>3. copy.fired = budget.fired \cup ReachedBy(seen)
    BY <2>1 DEF Inv, CopyInv
  <2> QED
    BY <1>1, <2>1, <2>2, <2>3 DEF Stage, Promise!Conclude, Promise!Return
<1>3. ASSUME UpdateBudgetStatusFails \/ WriteStatusFails \/ Restart PROVE Promise!GiveUp
  <2>1. Return /\ UNCHANGED <<spend, policies, budget, over, sent>>
    BY <1>3 DEF UpdateBudgetStatusFails, WriteStatusFails, Restart, apiVars
  <2> QED
    BY <1>1, <2>1 DEF Promise!GiveUp, Promise!Return, Promise!budgetVars
<1> QED
  BY <1>2, <1>3

\* What users and time do.
LEMMA WorldKeepsPromise ==
  ASSUME Inv
  PROVE  /\ SpendChanges => Promise!SpendChanges
         /\ EditBudget => Promise!EditBudget
         /\ \A p \in Policy : EditPolicy(p) => Promise!EditPolicy(p)
         /\ Tick => Promise!Age \/ UNCHANGED Promise!vars
<1>t. /\ budget \in CostBudgets /\ copy \in CostBudgets /\ over \in Ages
  BY DEF Inv, TypeOK
<1>1. ASSUME SpendChanges PROVE Promise!SpendChanges
  BY <1>1 DEF SpendChanges, Stage, apiVars, copyVars, listVars, Promise!SpendChanges,
              Promise!budgetVars, Promise!passVars
<1>2. ASSUME EditBudget PROVE Promise!EditBudget
  <2>1. /\ budget'.mode \in Modes /\ budget'.fired \subseteq budget.fired
        /\ budget'.active = budget.active
    BY <1>2, <1>t DEF EditBudget, CostBudgets, Inv, ModeInv
  <2>2. ~copyFresh' /\ UNCHANGED <<spend, policies, step, copy, seen, list, sent, over>>
    BY <1>2 DEF EditBudget, listVars
  <2>3. (step # "idle") = (Stage # "rest")
    BY DEF Stage, Inv, TypeOK
  <2> QED
    BY <2>1, <2>2, <2>3 DEF Stage, Promise!EditBudget
<1>3. ASSUME NEW p \in Policy, EditPolicy(p) PROVE Promise!EditPolicy(p)
  <2>1. /\ \E i \in Pool, size \in Sizes : policies' = [policies EXCEPT ![p][i] = size]
        /\ UNCHANGED <<spend, budget, step, copy, copyFresh, seen, list, sent, over>>
    BY <1>3 DEF EditPolicy, copyVars
  <2> QED
    BY <2>1 DEF Stage, Promise!EditPolicy, Promise!budgetVars, Promise!passVars
<1>4. ASSUME Tick PROVE Promise!Age \/ UNCHANGED Promise!vars
  <2>1. /\ budget'.mode = budget.mode /\ budget'.fired = budget.fired
        /\ budget'.active = budget.active /\ copy'.active = copy.active
    BY <1>4, <1>t DEF Tick, CostBudgets
  <2>2. /\ over' = Older(over)
        /\ UNCHANGED <<spend, policies, step, copyFresh, seen, list, sent>>
    BY <1>4 DEF Tick, listVars
  <2>3. Stage' = Stage
    BY <2>1, <2>2 DEF Stage
  <2> QED
    BY <2>1, <2>2, <2>3 DEF Older, Promise!Age, Promise!vars, Promise!budgetVars, Promise!passVars
<1> QED
  BY <1>1, <1>2, <1>3, <1>4

LEMMA StepKeepsPromise == Inv /\ [Next]_vars => [Promise!Next]_(Promise!vars)
<1> SUFFICES ASSUME Inv, [Next]_vars PROVE Promise!Next \/ UNCHANGED Promise!vars
  OBVIOUS
<1>1. CASE Get \/ UpdateBudgetStatus \/ CheckAlerts
  BY <1>1, AlertingKeepsPromise DEF Promise!Next
<1>2. CASE LiftEnforcement \/ EnforceNothing \/ AlertOrBlock \/ ListPolicies
           \/ ListPoliciesFails \/ ThrottleEnds
  BY <1>2, EnforcingKeepsPromise DEF Promise!Next
<1>3. ASSUME NEW p \in Policy, UpdatePolicy(p) \/ SkipPolicy(p) \/ UpdatePolicyFails(p)
      PROVE  Promise!Next
  BY <1>3, ThrottlingKeepsPromise DEF Promise!Next
<1>4. CASE WriteStatus \/ UpdateBudgetStatusFails \/ WriteStatusFails \/ Restart
  BY <1>4, ReturningKeepsPromise DEF Promise!Next
<1>5. CASE SpendChanges \/ EditBudget \/ Tick \/ \E p \in Policy : EditPolicy(p)
  BY <1>5, WorldKeepsPromise DEF Promise!Next
<1>6. CASE CacheSync \/ UNCHANGED vars
  <2>1. UNCHANGED <<spend, budget, policies, step, copy, copyFresh, seen, list, sent, over>>
    BY <1>6 DEF CacheSync, vars, apiVars, copyVars, listVars
  <2> QED
    BY <2>1 DEF Stage, Promise!vars, Promise!budgetVars, Promise!passVars
<1> QED
  BY <1>1, <1>2, <1>3, <1>4, <1>5, <1>6 DEF Next, Reconcile, Enforce, Users

\* The controller keeps the promise: a pass whose copy has the budget's version
\* does what it would do with the budget itself, and a pass whose copy has not
\* leaves no trace in the budget (Reconcile and the API server's versions).
THEOREM ControllerKeepsPromise == Spec => ImplementsPromise
<1> QED
  BY InitKeepsPromise, StepKeepsPromise, Invariance, PTL
  DEF Spec, Promise!Spec, ImplementsPromise
=============================================================================
