---------------------------- MODULE PlacementProofs ----------------------------
(***************************************************************************)
(* What Placement's run shows on two nodes and three pods, proved for all  *)
(* pods, nodes, submissions, usages and replicas.                          *)
(***************************************************************************)
EXTENDS Billing, SumProofs, SequenceTheorems

\* A sequence over a set: its elements and its positions.
LEMMA ElementOf ==
  ASSUME NEW T, NEW s \in Seq(T)
  PROVE  /\ \A i \in DOMAIN s : s[i] \in T
         /\ DOMAIN s = 1..Len(s) /\ Len(s) \in Nat
OBVIOUS

\* Of a set of positions one is the first.
LEMMA SmallestOf ==
  ASSUME NEW I, NEW n \in Nat, I \subseteq 1..n, I # {}
  PROVE  \E i \in I : \A j \in I : i <= j
<1> SUFFICES ASSUME \A i \in I : \E j \in I : ~(i <= j) PROVE FALSE
  OBVIOUS
<1>0. I \subseteq Nat /\ \A i \in I : i > 0 /\ i <= n
  OBVIOUS
<1> DEFINE C == {m \in Nat : \A i \in I : i > m}
<1>1. 0 \in C
  BY <1>0
<1>2. ASSUME NEW m \in Nat, m \in C PROVE m + 1 \in C
  <2>1. \A i \in I : i > m
    BY <1>2
  <2>2. m + 1 \notin I
    <3> SUFFICES ASSUME m + 1 \in I PROVE FALSE
      OBVIOUS
    <3>1. PICK j \in I : ~(m + 1 <= j)
      OBVIOUS
    <3> QED
      BY <1>0, <2>1, <3>1
  <2>3. \A i \in I : i > m + 1
    BY <1>0, <2>1, <2>2
  <2> QED
    BY <2>3
<1> HIDE DEF C
<1>3. n \in C
  BY <1>1, <1>2, NatSetInduction
<1>4. PICK i \in I : TRUE
  OBVIOUS
<1>5. i > n /\ i <= n /\ i \in Nat
  BY <1>0, <1>3 DEF C
<1> QED
  BY <1>5

-----------------------------------------------------------------------------
(* What the webhook makes of a pod.                                        *)

Toleration == STRING \cup {"timeslicing"}

\* A pod as it is submitted or as the webhook let it in.
IsPod(pod) ==
  /\ DOMAIN pod = {"containers", "type", "annotations", "selector", "tolerations", "priority"}
  /\ IsFiniteSet(DOMAIN pod.containers)
  /\ \A i \in DOMAIN pod.containers : IsContainer(pod.containers[i])
  /\ pod.tolerations \in Seq(Toleration)
  /\ pod.priority \in Int

\* What a user submits is a pod.
LEMMA SubmittedIsPod ==
  ASSUME NEW pod, IsSubmitted(pod)
  PROVE  IsPod(pod)
<1>1. pod.containers \in Seq(Range(pod.containers))
  BY DEF IsSubmitted
<1>2. DOMAIN pod.containers = 1..Len(pod.containers) /\ Len(pod.containers) \in Nat
  BY <1>1
<1>3. IsFiniteSet(DOMAIN pod.containers)
  <2>1. IsFiniteSet(1..Len(pod.containers))
    BY <1>2, FS_Interval
  <2> QED
    BY <1>2, <2>1
<1>4. DOMAIN pod = {"containers", "type", "annotations", "selector", "tolerations", "priority"}
  BY DEF IsSubmitted
<1>5. pod.tolerations \in Seq(Toleration)
  <2>1. pod.tolerations \in Seq(STRING)
    BY DEF IsSubmitted
  <2>2. \A i \in 1..Len(pod.tolerations) : pod.tolerations[i] \in Toleration
    BY <2>1 DEF Toleration
  <2> QED
    BY <2>1, <2>2, SeqDef
<1> QED
  BY <1>3, <1>4, <1>5 DEF IsSubmitted, IsPod

\* What a pod requests of a resource is a natural number.
LEMMA TotalTyped ==
  ASSUME NEW pod, IsPod(pod), NEW resource
  PROVE  TotalRequest(pod, resource) \in Nat
<1> DEFINE F == [i \in DOMAIN pod.containers |->
                   IF resource \in DOMAIN pod.containers[i] THEN pod.containers[i][resource] ELSE 0]
<1>1. \A i \in DOMAIN pod.containers : F[i] \in Nat
  BY DEF IsPod, IsContainer
<1>2. IsFiniteSet(DOMAIN pod.containers)
  BY DEF IsPod
<1>3. TotalRequest(pod, resource) = SumFunctionOnSet(F, DOMAIN F)
  BY DEF TotalRequest, SumFunction
<1>4. DOMAIN F = DOMAIN pod.containers
  OBVIOUS
<1> HIDE DEF F
<1> QED
  BY <1>1, <1>2, <1>3, <1>4, SumNat

\* Pods whose containers request the same of a resource request the same of it.
LEMMA TotalSame ==
  ASSUME NEW pod, NEW other, IsPod(pod), IsPod(other), NEW resource,
         DOMAIN other.containers = DOMAIN pod.containers,
         \A i \in DOMAIN pod.containers :
           /\ resource \in DOMAIN other.containers[i] <=> resource \in DOMAIN pod.containers[i]
           /\ resource \in DOMAIN pod.containers[i]
                => other.containers[i][resource] = pod.containers[i][resource]
  PROVE  TotalRequest(other, resource) = TotalRequest(pod, resource)
<1> DEFINE F == [i \in DOMAIN pod.containers |->
                   IF resource \in DOMAIN pod.containers[i] THEN pod.containers[i][resource] ELSE 0]
           G == [i \in DOMAIN other.containers |->
                   IF resource \in DOMAIN other.containers[i] THEN other.containers[i][resource] ELSE 0]
<1>1. F = G
  OBVIOUS
<1>2. TotalRequest(pod, resource) = SumFunction(F) /\ TotalRequest(other, resource) = SumFunction(G)
  BY Zenon DEF TotalRequest
<1> HIDE DEF F, G
<1> QED
  BY <1>1, <1>2

ConvertedMIG(pod, profile, time) ==
  Optimized(ConvertPodToMIG(pod, profile), "mig", time)

\* What the webhook notes on a pod.
Note(strategy, time) ==
  [optimized |-> "true", strategy |-> strategy, timestamp |-> time]

\* Where the same is noted later, the time is changed and nothing else.
LEMMA UpdatedAgain ==
  ASSUME NEW f, NEW a, NEW strategy, NEW time, NEW later
  PROVE  LET g == Updated(Updated(f, a), Note(strategy, time)) IN
         Updated(Updated(g, a), Note(strategy, later)) = Updated(g, [timestamp |-> later])
<1> DEFINE g == Updated(Updated(f, a), Note(strategy, time))
           h == Updated(Updated(g, a), Note(strategy, later))
           k == Updated(g, [timestamp |-> later])
<1>1. \A t : /\ DOMAIN Note(strategy, t) = {"optimized", "strategy", "timestamp"}
            /\ Note(strategy, t)["optimized"] = "true" /\ Note(strategy, t)["strategy"] = strategy
            /\ Note(strategy, t)["timestamp"] = t
  BY DEF Note
<1>2. /\ DOMAIN [timestamp |-> later] = {"timestamp"}
      /\ [timestamp |-> later]["timestamp"] = later
  OBVIOUS
<1>3. DOMAIN g = DOMAIN f \cup DOMAIN a \cup {"optimized", "strategy", "timestamp"}
  BY <1>1 DEF Updated, Note
<1>4. DOMAIN h = DOMAIN g /\ DOMAIN k = DOMAIN g
  BY <1>1, <1>2, <1>3 DEF Updated
<1>5. h = [x \in DOMAIN h |-> h[x]] /\ k = [x \in DOMAIN k |-> k[x]]
  BY DEF Updated
<1>6. \A x \in DOMAIN g : h[x] = k[x]
  BY <1>1, <1>2, <1>3 DEF Updated
<1> QED
  BY <1>4, <1>5, <1>6

\* A container that has a request replaced is one.
LEMMA OneOfTyped ==
  ASSUME NEW resource, NEW c, IsContainer(c), NEW kept, kept \subseteq DOMAIN c
  PROVE  IsContainer(OneOf(resource, c, kept))
BY DEF IsContainer, OneOf

\* What the conversion to MIG makes of a pod, field by field.
IsMIGOf(new, pod, profile, time) ==
  /\ IsPod(new)
  /\ new.annotations = Updated(Updated(pod.annotations,
       [original |-> GetTotalGPURequest(pod), profile |-> profile.name]),
       Note("mig", time))
  /\ DOMAIN new.containers = DOMAIN pod.containers
  /\ \A i \in DOMAIN pod.containers :
       new.containers[i] = IF RequestsGPU(pod.containers[i])
                           THEN OneOf(profile.name, pod.containers[i],
                                      DOMAIN pod.containers[i] \ {"gpu"})
                           ELSE pod.containers[i]

LEMMA MIGIsPod ==
  ASSUME NEW pod, IsPod(pod), NEW time, NEW profile
  PROVE  IsMIGOf(ConvertedMIG(pod, profile, time), pod, profile, time)
<1> DEFINE new == ConvertedMIG(pod, profile, time)
<1>1. /\ DOMAIN new = DOMAIN pod
      /\ new.tolerations = pod.tolerations /\ new.priority = pod.priority
      /\ new.annotations = Updated(Updated(pod.annotations,
              [original |-> GetTotalGPURequest(pod), profile |-> profile.name]),
              Note("mig", time))
      /\ new.containers = [i \in DOMAIN pod.containers |->
              IF RequestsGPU(pod.containers[i])
              THEN OneOf(profile.name, pod.containers[i], DOMAIN pod.containers[i] \ {"gpu"})
              ELSE pod.containers[i]]
  BY DEF ConvertedMIG, Optimized, ConvertPodToMIG, Annotated, Note, IsPod
<1> HIDE DEF new
<1>2. \A i \in DOMAIN pod.containers : IsContainer(new.containers[i])
  BY <1>1, OneOfTyped DEF IsPod
<1>3. IsPod(new)
  BY <1>1, <1>2 DEF IsPod
<1>4. IsMIGOf(new, pod, profile, time)
  BY <1>1, <1>3 DEF IsMIGOf
<1> QED
  BY <1>4 DEF new

\* What the conversion to MPS makes of a pod.
IsMPSOf(new, pod, time) ==
  /\ IsPod(new) /\ new = [x \in DOMAIN pod |-> new[x]]
  /\ new.selector = pod.selector \cup {"mps"} /\ new.tolerations = pod.tolerations
  /\ new.priority = pod.priority
  /\ new.containers = [i \in DOMAIN pod.containers |-> new.containers[i]]
  /\ new.annotations = Updated(Updated(pod.annotations,
       [original |-> GetTotalGPURequest(pod), mps |-> "true"]),
       Note("mps", time))
  /\ DOMAIN new.containers = DOMAIN pod.containers
  /\ \A i \in DOMAIN pod.containers :
       new.containers[i] = IF RequestsGPU(pod.containers[i]) /\ pod.containers[i].gpu < 1
                           THEN OneOf("gpu.shared", pod.containers[i],
                                      DOMAIN pod.containers[i])
                           ELSE pod.containers[i]
  /\ new.type = pod.type

LEMMA MPSIsPod ==
  ASSUME NEW pod, IsPod(pod), NEW time
  PROVE  IsMPSOf(ApplyMPSOptimization(pod, time), pod, time)
<1> DEFINE new == ApplyMPSOptimization(pod, time)
<1>1. /\ DOMAIN new = DOMAIN pod
      /\ new.tolerations = pod.tolerations /\ new.priority = pod.priority /\ new.type = pod.type
      /\ new.annotations = Updated(Updated(pod.annotations,
              [original |-> GetTotalGPURequest(pod), mps |-> "true"]),
              Note("mps", time))
      /\ new.containers = [i \in DOMAIN pod.containers |->
              IF RequestsGPU(pod.containers[i]) /\ pod.containers[i].gpu < 1
              THEN OneOf("gpu.shared", pod.containers[i], DOMAIN pod.containers[i])
              ELSE pod.containers[i]]
  BY DEF ApplyMPSOptimization, Optimized, ConvertPodToMPS, Annotated, Note, IsPod
<1>4. /\ new = [x \in DOMAIN pod |-> new[x]]
      /\ new.selector = pod.selector \cup {"mps"}
  BY DEF ApplyMPSOptimization, Optimized, ConvertPodToMPS, Annotated, Note, IsPod
<1> HIDE DEF new
<1>5. new.containers = [i \in DOMAIN pod.containers |-> new.containers[i]]
  BY <1>1
<1>2. \A i \in DOMAIN pod.containers : IsContainer(new.containers[i])
  BY <1>1, OneOfTyped DEF IsPod
<1>3. IsPod(new)
  BY <1>1, <1>2 DEF IsPod
<1>6. IsMPSOf(new, pod, time)
  BY <1>1, <1>3, <1>4, <1>5 DEF IsMPSOf
<1> QED
  BY <1>6 DEF new

\* What the conversion to time-slicing makes of a pod.
LEMMA TimeSlicingIsPod ==
  ASSUME NEW pod, IsPod(pod), NEW time
  PROVE  LET new == ApplyTimeSlicingOptimization(pod, time) IN
         /\ IsPod(new) /\ new = [x \in DOMAIN pod |-> new[x]]
         /\ new.selector = pod.selector \cup {"timeslicing"}
         /\ new.tolerations = (IF Contains(pod.tolerations, "timeslicing") THEN pod.tolerations
                               ELSE Append(pod.tolerations, "timeslicing"))
         /\ Contains(new.tolerations, "timeslicing")
         /\ new.priority = pod.priority
         /\ new.annotations = Updated(Updated(pod.annotations,
              [original |-> GetTotalGPURequest(pod), timeslicing |-> "true"]),
              Note("timeslicing", time))
         /\ new.containers = pod.containers
         /\ new.type = pod.type
<1> DEFINE new == ApplyTimeSlicingOptimization(pod, time)
<1>1. /\ DOMAIN new = DOMAIN pod
      /\ new.tolerations = IF Contains(pod.tolerations, "timeslicing") THEN pod.tolerations
                           ELSE Append(pod.tolerations, "timeslicing")
      /\ new.priority = pod.priority /\ new.type = pod.type
      /\ new.annotations = Updated(Updated(pod.annotations,
              [original |-> GetTotalGPURequest(pod), timeslicing |-> "true"]),
              Note("timeslicing", time))
      /\ new.containers = pod.containers
  BY DEF ApplyTimeSlicingOptimization, Optimized, ConvertPodToTimeSlicing, Annotated, Note, IsPod
<1>4. /\ new = [x \in DOMAIN pod |-> new[x]]
      /\ new.selector = pod.selector \cup {"timeslicing"}
  BY DEF ApplyTimeSlicingOptimization, Optimized, ConvertPodToTimeSlicing, Annotated, Note, IsPod
<1> HIDE DEF new
<1>5. Contains(new.tolerations, "timeslicing")
  <2>1. pod.tolerations \in Seq(Toleration) /\ "timeslicing" \in Toleration
    BY DEF IsPod, Toleration
  <2>2. Contains(Append(pod.tolerations, "timeslicing"), "timeslicing")
    BY <2>1 DEF Contains
  <2> QED
    BY <1>1, <2>2
<1>2. new.tolerations \in Seq(Toleration)
  <2>1. "timeslicing" \in Toleration
    BY DEF Toleration
  <2>2. pod.tolerations \in Seq(Toleration)
    BY DEF IsPod
  <2>3. Append(pod.tolerations, "timeslicing") \in Seq(Toleration)
    BY <2>1, <2>2
  <2> QED
    BY <1>1, <2>2, <2>3
<1>3. IsPod(new)
  BY <1>1, <1>2 DEF IsPod
<1> QED
  BY <1>1, <1>3, <1>4, <1>5 DEF new

\* The webhook leaves a pod alone or converts it in one of three ways.
LEMMA HandleCases ==
  ASSUME NEW time, NEW pod
  PROVE  \/ Handle(pod, time) = pod
         \/ /\ HasGPURequest(pod) /\ Annotation(pod, "optimize") # "false"
            /\ \/ LET i == GetMIGProfile(GetTotalGPURequest(pod), GetTotalMemoryRequest(pod)) IN
                  i # 0 /\ Handle(pod, time) = ConvertedMIG(pod, SupportedProfiles[i], time)
               \/ /\ SelectOptimizationStrategy(pod) = "mps" /\ EnableMPS
                  /\ Handle(pod, time) = ApplyMPSOptimization(pod, time)
               \/ /\ SelectOptimizationStrategy(pod) = "timeslicing" /\ EnableTS
                  /\ Handle(pod, time) = ApplyTimeSlicingOptimization(pod, time)
<1>1. CASE ~HasGPURequest(pod) \/ Annotation(pod, "optimize") = "false"
  BY SMTT(30), <1>1 DEF Handle
<1>2. CASE ~(~HasGPURequest(pod) \/ Annotation(pod, "optimize") = "false")
  <2> DEFINE strategy == SelectOptimizationStrategy(pod)
  <2>1. CASE strategy = "mig" /\ EnableMIG
    BY SMTT(30), <1>2, <2>1 DEF Handle, ApplyMIGOptimization, ConvertedMIG
  <2>2. CASE strategy = "mps" /\ EnableMPS
    BY SMTT(30), <1>2, <2>2 DEF Handle
  <2>3. CASE strategy = "timeslicing" /\ EnableTS
    BY SMTT(30), <1>2, <2>3 DEF Handle
  <2>4. CASE ~(strategy = "mig" /\ EnableMIG) /\ ~(strategy = "mps" /\ EnableMPS)
             /\ ~(strategy = "timeslicing" /\ EnableTS)
    BY SMTT(30), <1>2, <2>4 DEF Handle
  <2> QED
    BY <2>1, <2>2, <2>3, <2>4
<1> QED
  BY <1>1, <1>2

\* A pod that asks for the same in the same way is converted in the same way.
LEMMA SameChoice ==
  ASSUME NEW pod, NEW new, new.type = pod.type,
         \A a \in {"mode", "optimize", "sharing"} :
           /\ a \in DOMAIN new.annotations <=> a \in DOMAIN pod.annotations
           /\ a \in DOMAIN pod.annotations => new.annotations[a] = pod.annotations[a],
         GetTotalGPURequest(new) = GetTotalGPURequest(pod),
         GetTotalMemoryRequest(new) = GetTotalMemoryRequest(pod)
  PROVE  /\ SelectOptimizationStrategy(new) = SelectOptimizationStrategy(pod)
         /\ Annotation(new, "optimize") = Annotation(pod, "optimize")
<1>1. IsSmall(new) = IsSmall(pod)
  BY DEF IsSmall
<1>2. \A a \in {"mode", "optimize", "sharing"} : Annotation(new, a) = Annotation(pod, a)
  BY DEF Annotation
<1>3. "mode" \in DOMAIN new.annotations <=> "mode" \in DOMAIN pod.annotations
  OBVIOUS
<1>4. "mode" \in DOMAIN pod.annotations => new.annotations.mode = pod.annotations.mode
  OBVIOUS
<1>5. SelectOptimizationStrategy(new) = SelectOptimizationStrategy(pod)
  BY SMTT(30), <1>1, <1>2, <1>3, <1>4 DEF SelectOptimizationStrategy
<1> QED
  BY <1>2, <1>5

\* A pod converted to MPS and later converted again differs in the time.
LEMMA MPSAgain ==
  ASSUME NEW pod, IsPod(pod), NEW time, NEW later, HasGPURequest(pod),
         Annotation(pod, "optimize") # "false",
         SelectOptimizationStrategy(pod) = "mps", EnableMPS
  PROVE  Handle(ApplyMPSOptimization(pod, time), later)
           = Annotated(ApplyMPSOptimization(pod, time), [timestamp |-> later])
<1> DEFINE new == ApplyMPSOptimization(pod, time)
           again == ApplyMPSOptimization(new, later)
<1>i. IsMPSOf(new, pod, time)
  BY MPSIsPod
<1>n. new = ApplyMPSOptimization(pod, time)
  OBVIOUS
<1> HIDE DEF new
<1>0. /\ IsPod(new)
      /\ new.annotations = Updated(Updated(pod.annotations,
           [original |-> GetTotalGPURequest(pod), mps |-> "true"]), Note("mps", time))
      /\ DOMAIN new.containers = DOMAIN pod.containers
      /\ new.type = pod.type
  BY <1>i DEF IsMPSOf
<1>c. \A i \in DOMAIN pod.containers :
        new.containers[i] = IF RequestsGPU(pod.containers[i]) /\ pod.containers[i].gpu < 1
                            THEN OneOf("gpu.shared", pod.containers[i], DOMAIN pod.containers[i])
                            ELSE pod.containers[i]
  BY <1>i DEF IsMPSOf
<1>1. /\ GetTotalGPURequest(new) = GetTotalGPURequest(pod)
      /\ GetTotalMemoryRequest(new) = GetTotalMemoryRequest(pod)
  <2>1. \A resource \in {"gpu", "memory"}, i \in DOMAIN pod.containers :
           /\ resource \in DOMAIN new.containers[i] <=> resource \in DOMAIN pod.containers[i]
           /\ resource \in DOMAIN pod.containers[i]
                => new.containers[i][resource] = pod.containers[i][resource]
    BY <1>c DEF OneOf
  <2>2. \A resource \in {"gpu", "memory"} : TotalRequest(new, resource) = TotalRequest(pod, resource)
    BY <1>0, <2>1, TotalSame
  <2> QED
    BY <2>2 DEF GetTotalGPURequest, GetTotalMemoryRequest
<1>2. \A a \in {"mode", "optimize", "sharing"} :
        /\ a \in DOMAIN new.annotations <=> a \in DOMAIN pod.annotations
        /\ a \in DOMAIN pod.annotations => new.annotations[a] = pod.annotations[a]
  BY <1>0 DEF Updated, Note
<1>3. /\ SelectOptimizationStrategy(new) = SelectOptimizationStrategy(pod)
      /\ Annotation(new, "optimize") = Annotation(pod, "optimize")
  BY <1>0, <1>1, <1>2, SameChoice
<1>4. HasGPURequest(new)
  BY <1>0, <1>c DEF HasGPURequest, RequestsGPU, OneOf
<1>5. Handle(new, later) = again
  BY SMTT(30), <1>3, <1>4 DEF Handle
<1>j. IsMPSOf(again, new, later)
  BY <1>0, MPSIsPod
<1> HIDE DEF again
<1>6. again.annotations = Updated(new.annotations, [timestamp |-> later])
  <2>1. again.annotations = Updated(Updated(new.annotations,
           [original |-> GetTotalGPURequest(pod), mps |-> "true"]), Note("mps", later))
    BY <1>1, <1>j DEF IsMPSOf
  <2> QED
    BY <1>0, <2>1, UpdatedAgain
<1>7. again.containers = new.containers
  <2>1. \A i \in DOMAIN new.containers :
          (IF RequestsGPU(new.containers[i]) /\ new.containers[i].gpu < 1
           THEN OneOf("gpu.shared", new.containers[i], DOMAIN new.containers[i])
           ELSE new.containers[i]) = new.containers[i]
    BY <1>0, <1>c DEF OneOf, RequestsGPU
  <2>2. \A i \in DOMAIN new.containers : again.containers[i] = new.containers[i]
    BY <1>j, <2>1 DEF IsMPSOf
  <2>3. /\ new.containers = [i \in DOMAIN pod.containers |-> new.containers[i]]
        /\ again.containers = [i \in DOMAIN new.containers |-> again.containers[i]]
    BY <1>i, <1>j DEF IsMPSOf
  <2> QED
    BY <1>0, <2>2, <2>3
<1>8. /\ again.selector = new.selector /\ again.tolerations = new.tolerations
      /\ again.type = new.type /\ again.priority = new.priority
  BY <1>i, <1>j DEF IsMPSOf
<1>9. again = [x \in DOMAIN new |-> again[x]] /\ new = [x \in DOMAIN pod |-> new[x]]
  BY <1>i, <1>j DEF IsMPSOf
<1>10. /\ DOMAIN new
            = {"containers", "type", "annotations", "selector", "tolerations", "priority"}
       /\ DOMAIN new = DOMAIN pod
  BY <1>0 DEF IsPod
<1>11. \A x \in DOMAIN new :
         again[x] = IF x = "annotations" THEN Updated(new.annotations, [timestamp |-> later])
                    ELSE new[x]
  BY <1>6, <1>7, <1>8, <1>10
<1>12. again = Annotated(new, [timestamp |-> later])
  BY <1>9, <1>10, <1>11 DEF Annotated
<1> QED
  BY <1>5, <1>12, <1>n

\* A pod converted to time-slicing and later converted again differs in the time.
LEMMA TimeSlicingAgain ==
  ASSUME NEW pod, IsPod(pod), NEW time, NEW later, HasGPURequest(pod),
         Annotation(pod, "optimize") # "false",
         SelectOptimizationStrategy(pod) = "timeslicing", EnableTS
  PROVE  Handle(ApplyTimeSlicingOptimization(pod, time), later)
           = Annotated(ApplyTimeSlicingOptimization(pod, time), [timestamp |-> later])
<1> DEFINE new == ApplyTimeSlicingOptimization(pod, time)
           again == ApplyTimeSlicingOptimization(new, later)
<1>0. /\ IsPod(new) /\ new = [x \in DOMAIN pod |-> new[x]]
      /\ new.annotations = Updated(Updated(pod.annotations,
           [original |-> GetTotalGPURequest(pod), timeslicing |-> "true"]),
           Note("timeslicing", time))
      /\ new.containers = pod.containers
      /\ new.type = pod.type
      /\ new.selector = pod.selector \cup {"timeslicing"}
      /\ Contains(new.tolerations, "timeslicing")
  BY TimeSlicingIsPod
<1> HIDE DEF new
<1>1. /\ GetTotalGPURequest(new) = GetTotalGPURequest(pod)
      /\ GetTotalMemoryRequest(new) = GetTotalMemoryRequest(pod)
  BY <1>0 DEF GetTotalGPURequest, GetTotalMemoryRequest, TotalRequest
<1>2. \A a \in {"mode", "optimize", "sharing"} :
        /\ a \in DOMAIN new.annotations <=> a \in DOMAIN pod.annotations
        /\ a \in DOMAIN pod.annotations => new.annotations[a] = pod.annotations[a]
  BY <1>0 DEF Updated, Note
<1>3. /\ SelectOptimizationStrategy(new) = SelectOptimizationStrategy(pod)
      /\ Annotation(new, "optimize") = Annotation(pod, "optimize")
  BY <1>0, <1>1, <1>2, SameChoice
<1>4. HasGPURequest(new)
  BY <1>0 DEF HasGPURequest, RequestsGPU
<1>5. Handle(new, later) = again
  BY SMTT(30), <1>3, <1>4 DEF Handle
<1>6. /\ IsPod(again) /\ again = [x \in DOMAIN new |-> again[x]]
      /\ again.annotations = Updated(Updated(new.annotations,
           [original |-> GetTotalGPURequest(pod), timeslicing |-> "true"]),
           Note("timeslicing", later))
      /\ again.containers = new.containers /\ again.type = new.type
      /\ again.selector = new.selector \cup {"timeslicing"}
      /\ again.tolerations = new.tolerations /\ again.priority = new.priority
  BY <1>0, <1>1, TimeSlicingIsPod
<1> HIDE DEF again
<1>7. again.annotations = Updated(new.annotations, [timestamp |-> later])
  BY <1>0, <1>6, UpdatedAgain
<1>8. again.selector = new.selector
  BY <1>0, <1>6
<1>9. /\ DOMAIN new
           = {"containers", "type", "annotations", "selector", "tolerations", "priority"}
      /\ DOMAIN new = DOMAIN pod
  BY <1>0 DEF IsPod
<1>10. \A x \in DOMAIN new :
         again[x] = IF x = "annotations" THEN Updated(new.annotations, [timestamp |-> later])
                    ELSE new[x]
  BY <1>6, <1>7, <1>8, <1>9
<1>11. again = Annotated(new, [timestamp |-> later])
  BY <1>0, <1>6, <1>9, <1>10 DEF Annotated
<1> QED
  BY <1>5, <1>11 DEF new

\* The profiles, and what a search of them returns.
LEMMA ProfileFound ==
  ASSUME NEW gpus \in Nat, NEW memory \in Nat, GetMIGProfile(gpus, memory) # 0
  PROVE  LET i == GetMIGProfile(gpus, memory) IN
         /\ i \in DOMAIN SupportedProfiles
         /\ Satisfies(SupportedProfiles[i], gpus, memory)
         /\ \A j \in DOMAIN SupportedProfiles :
              Satisfies(SupportedProfiles[j], gpus, memory) => i <= j
<1> DEFINE I == {i \in 1..Len(SupportedProfiles) : Satisfies(SupportedProfiles[i], gpus, memory)}
<1>0. Len(SupportedProfiles) = 10 /\ DOMAIN SupportedProfiles = 1..10
  BY DEF SupportedProfiles
<1>1. GetMIGProfile(gpus, memory) = IF I # {} THEN Min(I) ELSE 0
  BY Zenon DEF GetMIGProfile, SelectInSeq
<1>2. I # {} /\ I \subseteq 1..10
  BY <1>0, <1>1
<1> HIDE DEF I
<1>3. Min(I) \in I /\ \A j \in I : Min(I) <= j
  <2>1. \E i \in I : \A j \in I : i <= j
    BY <1>2, SmallestOf
  <2> QED
    BY <2>1 DEF Min
<1>4. GetMIGProfile(gpus, memory) = Min(I)
  BY <1>1, <1>2
<1> QED
  BY <1>0, <1>3, <1>4 DEF I

\* What rounding a request down to whole MB does to it.
LEMMA RoundedDown ==
  ASSUME NEW m \in Nat, NEW memory \in Nat
  PROVE  /\ m >= memory \div MB => memory - m * MB < MB
         /\ m * MB >= memory => m >= memory \div MB
BY DEF MB

\* A profile is not the name of a plain resource, and of one card a later one
\* has no fewer units.
LEMMA ProfilesOrdered ==
  /\ DOMAIN SupportedProfiles = 1..10
  /\ \A i \in 1..10 :
       /\ SupportedProfiles[i].name \in ProfileNames
       /\ SupportedProfiles[i].name \notin {"gpu", "memory", "gpu-shared", "gpu.shared"}
       /\ SupportedProfiles[i].compute \in Nat /\ SupportedProfiles[i].memory \in Nat
  /\ \A i, j \in 1..10 :
       i <= j /\ SupportedProfiles[i].card = SupportedProfiles[j].card
         => SupportedProfiles[i].compute <= SupportedProfiles[j].compute
<1>1. DOMAIN SupportedProfiles = 1..10
  BY DEF SupportedProfiles
<1>2. \A i \in 1..10 :
       /\ SupportedProfiles[i].name \notin {"gpu", "memory", "gpu-shared", "gpu.shared"}
       /\ SupportedProfiles[i].compute \in Nat /\ SupportedProfiles[i].memory \in Nat
  BY DEF SupportedProfiles, Profile
<1>5. \A i, j \in 1..10 :
       i <= j /\ SupportedProfiles[i].card = SupportedProfiles[j].card
         => SupportedProfiles[i].compute <= SupportedProfiles[j].compute
  BY DEF SupportedProfiles, Profile
<1>6. \A i \in 1..10 : SupportedProfiles[i].name \in ProfileNames
  BY <1>1 DEF ProfileNames
<1> QED
  BY <1>1, <1>2, <1>5, <1>6

\* A pod that was converted to MIG requests no whole GPU, and memory as before.
LEMMA MIGRequests ==
  ASSUME NEW pod, IsPod(pod), NEW time, NEW profile, profile.name \notin {"gpu", "memory"}
  PROVE  LET new == ConvertedMIG(pod, profile, time) IN
         /\ ~HasGPURequest(new)
         /\ GetTotalMemoryRequest(new) = GetTotalMemoryRequest(pod)
         /\ "strategy" \in DOMAIN new.annotations /\ new.annotations.strategy = "mig"
         /\ new.annotations.profile = profile.name
         /\ new.annotations.original = GetTotalGPURequest(pod)
<1> DEFINE new == ConvertedMIG(pod, profile, time)
<1>1. /\ IsPod(new)
      /\ new.annotations = Updated(Updated(pod.annotations,
           [original |-> GetTotalGPURequest(pod), profile |-> profile.name]),
           Note("mig", time))
      /\ DOMAIN new.containers = DOMAIN pod.containers
      /\ \A i \in DOMAIN pod.containers :
           new.containers[i] = IF RequestsGPU(pod.containers[i])
                               THEN OneOf(profile.name, pod.containers[i],
                                          DOMAIN pod.containers[i] \ {"gpu"})
                               ELSE pod.containers[i]
  <2>1. IsMIGOf(new, pod, profile, time)
    BY MIGIsPod
  <2> HIDE DEF new
  <2> QED
    BY <2>1 DEF IsMIGOf
<1> HIDE DEF new
<1>2. ~HasGPURequest(new)
  <2>1. ASSUME NEW i \in DOMAIN pod.containers PROVE ~RequestsGPU(new.containers[i])
    <3> DEFINE c == pod.containers[i]
    <3>1. new.containers[i] = IF RequestsGPU(c) THEN OneOf(profile.name, c, DOMAIN c \ {"gpu"}) ELSE c
      BY <1>1, <2>1
    <3>2. "gpu" \notin DOMAIN OneOf(profile.name, c, DOMAIN c \ {"gpu"})
      BY DEF OneOf
    <3> HIDE DEF c
    <3> QED
      BY <3>1, <3>2 DEF RequestsGPU
  <2>2. DOMAIN new.containers = DOMAIN pod.containers
    BY <1>1
  <2> QED
    BY <2>1, <2>2 DEF HasGPURequest
<1>3. \A i \in DOMAIN pod.containers :
        /\ "memory" \in DOMAIN new.containers[i] <=> "memory" \in DOMAIN pod.containers[i]
        /\ "memory" \in DOMAIN pod.containers[i]
             => new.containers[i]["memory"] = pod.containers[i]["memory"]
  <2> TAKE i \in DOMAIN pod.containers
  <2> DEFINE c == pod.containers[i]
             d == OneOf(profile.name, c, DOMAIN c \ {"gpu"})
  <2>1. new.containers[i] = IF RequestsGPU(c) THEN d ELSE c
    BY <1>1
  <2>2. /\ "memory" \in DOMAIN d <=> "memory" \in DOMAIN c
        /\ "memory" \in DOMAIN c => d["memory"] = c["memory"]
    BY DEF OneOf
  <2> HIDE DEF c, d
  <2>3. /\ "memory" \in DOMAIN new.containers[i] <=> "memory" \in DOMAIN c
        /\ "memory" \in DOMAIN c => new.containers[i]["memory"] = c["memory"]
    BY <2>1, <2>2
  <2> QED
    BY <2>3 DEF c
<1>4. TotalRequest(new, "memory") = TotalRequest(pod, "memory")
  BY <1>1, <1>3, TotalSame
<1>5. /\ "strategy" \in DOMAIN new.annotations /\ new.annotations.strategy = "mig"
      /\ new.annotations.profile = profile.name
      /\ new.annotations.original = GetTotalGPURequest(pod)
  BY <1>1 DEF Updated, Note
<1> QED
  BY <1>2, <1>4, <1>5 DEF new, GetTotalMemoryRequest

\* Every pod the webhook lets in is one.
LEMMA HandleIsPod ==
  ASSUME NEW pod, IsPod(pod), NEW time
  PROVE  IsPod(Handle(pod, time))
<1> DEFINE i == GetMIGProfile(GetTotalGPURequest(pod), GetTotalMemoryRequest(pod))
<1>1. \/ Handle(pod, time) = pod
      \/ Handle(pod, time) = ConvertedMIG(pod, SupportedProfiles[i], time)
      \/ Handle(pod, time) = ApplyMPSOptimization(pod, time)
      \/ Handle(pod, time) = ApplyTimeSlicingOptimization(pod, time)
  BY HandleCases
<1> HIDE DEF i
<1>2. /\ IsPod(ConvertedMIG(pod, SupportedProfiles[i], time))
      /\ IsPod(ApplyMPSOptimization(pod, time)) /\ IsPod(ApplyTimeSlicingOptimization(pod, time))
  BY MIGIsPod, MPSIsPod, TimeSlicingIsPod DEF IsMIGOf, IsMPSOf
<1> QED
  BY <1>1, <1>2

\* What the webhook may let a pod in as is a pod.
LEMMA AdmittedIsPod ==
  ASSUME NEW pod, IsPod(pod), NEW spec \in AsAdmitted(pod)
  PROVE  IsPod(spec)
BY HandleIsPod DEF AsAdmitted

\* A pod the webhook let in has the notes it was submitted with or those of one
\* conversion.
LEMMA AdmittedCases ==
  ASSUME NEW pod, NEW spec \in AsAdmitted(pod)
  PROVE  \/ spec = pod
         \/ \E time :
              /\ HasGPURequest(pod) /\ Annotation(pod, "optimize") # "false"
              /\ \/ LET i == GetMIGProfile(GetTotalGPURequest(pod), GetTotalMemoryRequest(pod)) IN
                    i # 0 /\ spec = ConvertedMIG(pod, SupportedProfiles[i], time)
                 \/ /\ SelectOptimizationStrategy(pod) = "mps" /\ EnableMPS
                    /\ spec = ApplyMPSOptimization(pod, time)
                 \/ /\ SelectOptimizationStrategy(pod) = "timeslicing" /\ EnableTS
                    /\ spec = ApplyTimeSlicingOptimization(pod, time)
<1>1. CASE spec = pod
  BY <1>1
<1>2. ASSUME NEW time, spec = Handle(pod, time), spec # pod
      PROVE  \E t :
              /\ HasGPURequest(pod) /\ Annotation(pod, "optimize") # "false"
              /\ \/ LET i == GetMIGProfile(GetTotalGPURequest(pod), GetTotalMemoryRequest(pod)) IN
                    i # 0 /\ spec = ConvertedMIG(pod, SupportedProfiles[i], t)
                 \/ /\ SelectOptimizationStrategy(pod) = "mps" /\ EnableMPS
                    /\ spec = ApplyMPSOptimization(pod, t)
                 \/ /\ SelectOptimizationStrategy(pod) = "timeslicing" /\ EnableTS
                    /\ spec = ApplyTimeSlicingOptimization(pod, t)
  <2> WITNESS time
  <2> QED
    BY <1>2, HandleCases, Zenon
<1> QED
  BY <1>1, <1>2, Zenon DEF AsAdmitted

\* Called again with a pod it converted, the webhook changes the time at most.
LEMMA HandleAgain ==
  ASSUME NEW pod, IsSubmitted(pod), NEW spec \in AsAdmitted(pod), NEW later,
         "optimized" \in DOMAIN spec.annotations
  PROVE  Handle(spec, later) \in {spec, Annotated(spec, [timestamp |-> later])}
<1>0. IsPod(pod) /\ spec # pod
  BY SubmittedIsPod DEF IsSubmitted
<1> DEFINE i == GetMIGProfile(GetTotalGPURequest(pod), GetTotalMemoryRequest(pod))
<1>1. PICK time :
         /\ HasGPURequest(pod) /\ Annotation(pod, "optimize") # "false"
         /\ \/ i # 0 /\ spec = ConvertedMIG(pod, SupportedProfiles[i], time)
            \/ /\ SelectOptimizationStrategy(pod) = "mps" /\ EnableMPS
               /\ spec = ApplyMPSOptimization(pod, time)
            \/ /\ SelectOptimizationStrategy(pod) = "timeslicing" /\ EnableTS
               /\ spec = ApplyTimeSlicingOptimization(pod, time)
  BY <1>0, AdmittedCases, Zenon
<1>2. i # 0 => i \in 1..10
  BY <1>0, TotalTyped, ProfileFound, ProfilesOrdered DEF GetTotalGPURequest, GetTotalMemoryRequest
<1> HIDE DEF i
<1>3. CASE i # 0 /\ spec = ConvertedMIG(pod, SupportedProfiles[i], time)
  <2>1. SupportedProfiles[i].name \notin {"gpu", "memory"}
    BY <1>2, <1>3, ProfilesOrdered
  <2>2. ~HasGPURequest(spec)
    BY <1>0, <1>3, <2>1, MIGRequests
  <2> QED
    BY SMTT(30), <2>2 DEF Handle
<1> QED
  BY <1>0, <1>1, <1>3, MPSAgain, TimeSlicingAgain

\* A pod the webhook converted to MIG has the profile that was searched for it.
LEMMA ProfileOfHandled ==
  ASSUME NEW pod, IsSubmitted(pod), NEW spec \in AsAdmitted(pod),
         Annotation(spec, "strategy") = "mig"
  PROVE  LET i == GetMIGProfile(GetTotalGPURequest(pod), GetTotalMemoryRequest(pod)) IN
         /\ i \in 1..10
         /\ spec.annotations.profile = SupportedProfiles[i].name
         /\ spec.annotations.original = GetTotalGPURequest(pod)
         /\ GetTotalMemoryRequest(spec) = GetTotalMemoryRequest(pod)
         /\ GetTotalGPURequest(pod) \in Nat /\ GetTotalMemoryRequest(pod) \in Nat
<1> DEFINE i == GetMIGProfile(GetTotalGPURequest(pod), GetTotalMemoryRequest(pod))
<1>1. IsPod(pod)
  BY SubmittedIsPod
<1>2. Annotation(pod, "strategy") # "mig"
  BY DEF IsSubmitted, Annotation
<1>3. PICK time :
         \/ i # 0 /\ spec = ConvertedMIG(pod, SupportedProfiles[i], time)
         \/ spec = ApplyMPSOptimization(pod, time)
         \/ spec = ApplyTimeSlicingOptimization(pod, time)
  BY <1>2, AdmittedCases, Zenon
<1>4. Annotation(ApplyMPSOptimization(pod, time), "strategy") # "mig"
  <2> DEFINE new == ApplyMPSOptimization(pod, time)
             a == Updated(pod.annotations, [original |-> GetTotalGPURequest(pod), mps |-> "true"])
  <2>1. IsMPSOf(new, pod, time)
    BY <1>1, MPSIsPod
  <2> HIDE DEF new
  <2>2. new.annotations = Updated(a, Note("mps", time))
    BY <2>1 DEF IsMPSOf
  <2> HIDE DEF a
  <2>3. Annotation(new, "strategy") # "mig"
    BY <2>2 DEF Annotation, Updated, Note
  <2> QED
    BY <2>3 DEF new
<1>5. Annotation(ApplyTimeSlicingOptimization(pod, time), "strategy") # "mig"
  <2> DEFINE a == Updated(pod.annotations,
                   [original |-> GetTotalGPURequest(pod), timeslicing |-> "true"])
  <2>1. ApplyTimeSlicingOptimization(pod, time).annotations
          = Updated(a, Note("timeslicing", time))
    BY <1>1, TimeSlicingIsPod
  <2> HIDE DEF a
  <2> QED
    BY <2>1 DEF Annotation, Updated, Note
<1>6. GetTotalGPURequest(pod) \in Nat /\ GetTotalMemoryRequest(pod) \in Nat
  BY <1>1, TotalTyped DEF GetTotalGPURequest, GetTotalMemoryRequest
<1>7. i # 0 => i \in 1..10
  BY <1>6, ProfileFound, ProfilesOrdered
<1> HIDE DEF i
<1>8. i \in 1..10 /\ spec = ConvertedMIG(pod, SupportedProfiles[i], time)
  BY <1>2, <1>3, <1>4, <1>5, <1>7
<1>9. SupportedProfiles[i].name \notin {"gpu", "memory"}
  BY <1>8, ProfilesOrdered
<1>10. /\ GetTotalMemoryRequest(spec) = GetTotalMemoryRequest(pod)
       /\ spec.annotations.profile = SupportedProfiles[i].name
       /\ spec.annotations.original = GetTotalGPURequest(pod)
  BY <1>1, <1>8, <1>9, MIGRequests
<1> QED
  BY <1>6, <1>8, <1>10 DEF i

-----------------------------------------------------------------------------
(* Types.                                                                  *)

\* Every pod came as one of its submissions, converted or not.
CameInv ==
  /\ IsFiniteSet(DOMAIN pods)
  /\ \A p \in DOMAIN pods : \E spec \in Submitted[p] : pods[p].spec \in AsAdmitted(spec)

\* What the pass holds: nodes, with the capacity they had when they were listed,
\* and of some the pods that ran on them when those were listed.
TodoInv ==
  /\ todo \in Seq([name : Node, total : Nat])
  /\ \A i \in DOMAIN todo : todo[i].total <= nodes[todo[i].name].capacity

ListedInv ==
  /\ listed \in Seq([name : Node, total : Nat, free : Int, pods : SUBSET Pod])
  /\ \A i \in DOMAIN listed :
       /\ listed[i].total <= nodes[listed[i].name].capacity
       /\ listed[i].pods \subseteq DOMAIN pods
       /\ \A p \in listed[i].pods : pods[p].phase # "Pending"
       /\ listed[i].free = listed[i].total - Requests(listed[i].pods)
       /\ Requests(listed[i].pods) <= nodes[listed[i].name].capacity

\* The pods bound to a node and not finished fit on its GPUs.
CapacityInv ==
  \A n \in Node : Requests(PodsOn(n, {"Pending", "Running"})) <= nodes[n].capacity

\* The plan of a pass that is done is one for what it listed and what is pending.
PlanInv ==
  /\ pass = "done" => todo = <<>> /\
       \E strategy \in Strategies, order \in SortedWorkloads(PendingGPUWorkloads) :
         plan = Packing(strategy, listed, order)
  /\ pass = "idle" => todo = <<>> /\ listed = <<>>

PodRecords == [spec : Admitted, node : Node \union {NoNode},
               phase : {"Pending", "Running", "Succeeded"}, aged : BOOLEAN]
NodeRecords == [capacity : Nat, original : Nat, mps : BOOLEAN,
                replicas : {0, Replicas}, mig : {"none"} \union ProfileNames]

\* Every admitted specification is a pod.
LEMMA SpecIsPod ==
  ASSUME CameInv, DOMAIN pods \subseteq Pod, NEW p \in DOMAIN pods
  PROVE  IsPod(pods[p].spec)
<1>1. PICK spec \in Submitted[p] : pods[p].spec \in AsAdmitted(spec)
  BY DEF CameInv
<1>2. IsPod(spec)
  BY <1>1, SubmittedIsPod, PlacementAssumption
<1> QED
  BY <1>1, <1>2, AdmittedIsPod

\* What a pod goes through on its way.
LEMMA PodSteps ==
  ASSUME TypeOK, NEW p \in DOMAIN pods, Progress(p)
  PROVE  \E new \in PodRecords :
           /\ pods' = [pods EXCEPT ![p] = new]
           /\ new.spec = pods[p].spec
           /\ UNCHANGED <<nodes, pass, todo, listed, plan, advised>>
           /\ new.phase # "Pending" => new.node \in Node
           /\ \/ /\ new.node \in Node /\ new.phase = "Pending" /\ pods[p].phase = "Pending"
                 /\ pods[p].node = NoNode
                 /\ Request(p) + Requests(PodsOn(new.node, {"Pending", "Running"}))
                      <= nodes[new.node].capacity
              \/ /\ new.node = pods[p].node
                 /\ \/ new.phase = "Running" /\ pods[p].phase \in {"Pending", "Running"}
                    \/ new.phase = "Succeeded"
<1>0. /\ pods[p] \in PodRecords /\ (pods[p].phase # "Pending" => pods[p].node \in Node)
  BY DEF TypeOK, PodRecords
<1>1. CASE Start(p)
  <2> DEFINE new == [pods[p] EXCEPT !.phase = "Running"]
  <2>1. pods[p].node \in Node /\ pods[p].phase = "Pending"
    BY <1>0, <1>1 DEF Start, PodRecords
  <2>2. /\ new \in PodRecords /\ new.spec = pods[p].spec /\ new.node = pods[p].node
        /\ new.phase = "Running"
    BY <1>0 DEF PodRecords
  <2>3. SetPod(p, new)
    BY <1>1 DEF Start
  <2> HIDE DEF new
  <2> QED
    BY <2>1, <2>2, <2>3 DEF SetPod
<1>2. CASE Age(p)
  <2> DEFINE new == [pods[p] EXCEPT !.aged = TRUE]
  <2>1. pods[p].phase = "Running"
    BY <1>2 DEF Age
  <2>2. /\ new \in PodRecords /\ new.spec = pods[p].spec /\ new.node = pods[p].node
        /\ new.phase = pods[p].phase
    BY <1>0 DEF PodRecords
  <2>3. SetPod(p, new)
    BY <1>2 DEF Age
  <2> HIDE DEF new
  <2> QED
    BY <1>0, <2>1, <2>2, <2>3 DEF SetPod
<1>3. CASE Finish(p)
  <2> DEFINE new == [pods[p] EXCEPT !.phase = "Succeeded", !.aged = FALSE]
  <2>1. pods[p].phase = "Running"
    BY <1>3 DEF Finish
  <2>2. /\ new \in PodRecords /\ new.spec = pods[p].spec /\ new.node = pods[p].node
        /\ new.phase = "Succeeded"
    BY <1>0 DEF PodRecords
  <2>3. SetPod(p, new)
    BY <1>3 DEF Finish
  <2> HIDE DEF new
  <2> QED
    BY <1>0, <2>1, <2>2, <2>3 DEF SetPod
<1>4. ASSUME NEW n \in Node, Bind(p, n)
      PROVE  \E new \in PodRecords :
           /\ pods' = [pods EXCEPT ![p] = new]
           /\ new.spec = pods[p].spec
           /\ UNCHANGED <<nodes, pass, todo, listed, plan, advised>>
           /\ new.node \in Node /\ new.phase = "Pending" /\ pods[p].phase = "Pending"
           /\ pods[p].node = NoNode
           /\ Request(p) + Requests(PodsOn(new.node, {"Pending", "Running"}))
                <= nodes[new.node].capacity
  <2> DEFINE new == [pods[p] EXCEPT !.node = n]
  <2>1. /\ new \in PodRecords /\ new.spec = pods[p].spec /\ new.node = n
        /\ new.phase = pods[p].phase
    BY <1>0, <1>4 DEF PodRecords
  <2>2. /\ SetPod(p, new) /\ pods[p].phase = "Pending" /\ pods[p].node = NoNode
        /\ Request(p) + Requests(PodsOn(n, {"Pending", "Running"})) <= nodes[n].capacity
    BY <1>4 DEF Bind
  <2> HIDE DEF new
  <2> QED
    BY <2>1, <2>2 DEF SetPod
<1>5. Start(p) \/ Age(p) \/ Finish(p) \/ \E n \in Node : Bind(p, n)
  BY DEF Progress
<1>6. CASE \E n \in Node : Bind(p, n)
  BY <1>4, <1>6
<1> QED
  BY <1>1, <1>2, <1>3, <1>5, <1>6

\* Multiplication of natural numbers is monotone.
LEMMA ProductGrows ==
  ASSUME NEW r \in Nat, NEW a \in Nat, NEW b \in Nat, a <= b
  PROVE  r * a \in Nat /\ r * b \in Nat /\ r * a <= r * b
<1>1. b - a \in Nat
  OBVIOUS
<1>2. r * (b - a) \in Nat
  BY <1>1
<1>3. r * b = r * a + r * (b - a)
  OBVIOUS
<1>4. r * a \in Nat /\ r * b \in Nat
  OBVIOUS
<1> QED
  BY <1>2, <1>3, <1>4

\* A GPU is advertised once at least.
LEMMA ReplicasGrow ==
  ASSUME NEW n \in Node
  PROVE  /\ Physical[n] \in Nat /\ Physical[n] * Replicas \in Nat
         /\ Physical[n] <= Physical[n] * Replicas
<1>1. Physical[n] \in Nat /\ Replicas \in Nat /\ 1 <= Replicas
  BY PlacementAssumption
<1>2. Physical[n] * 1 = Physical[n]
  BY <1>1
<1> QED
  BY <1>1, <1>2, ProductGrows

\* How nodes are made ready: their capacity never shrinks.
LEMMA NodeSteps ==
  ASSUME TypeOK, CameInv, NEW n \in Node, Prepare(n)
  PROVE  \E new \in NodeRecords :
           /\ nodes' = [nodes EXCEPT ![n] = new]
           /\ UNCHANGED <<pods, pass, todo, listed, plan, advised>>
           /\ nodes[n].capacity <= new.capacity
           /\ new.capacity \in {Physical[n], Physical[n] * Replicas}
<1>0. /\ nodes[n] \in NodeRecords /\ nodes[n].capacity \in {Physical[n], Physical[n] * Replicas}
      /\ Replicas \in {0, Replicas} /\ nodes[n].capacity \in Nat
  BY DEF TypeOK, NodeRecords
<1>1. CASE EnableMPSOnNode(n)
  <2> DEFINE new == [nodes[n] EXCEPT !.mps = TRUE]
  <2>1. new \in NodeRecords /\ new.capacity = nodes[n].capacity
    BY <1>0 DEF NodeRecords
  <2>2. SetNode(n, new)
    BY <1>1 DEF EnableMPSOnNode
  <2> HIDE DEF new
  <2>3. nodes[n].capacity <= new.capacity
    BY <1>0, <2>1
  <2>4. new.capacity \in {Physical[n], Physical[n] * Replicas}
    BY <1>0, <2>1, Zenon
  <2> QED
    BY <2>1, <2>2, <2>3, <2>4 DEF SetNode
<1>2. CASE EnableTimeSlicingOnNode(n)
  <2> DEFINE new == [nodes[n] EXCEPT !.replicas = Replicas, !.original = nodes[n].capacity]
  <2>1. new \in NodeRecords /\ new.capacity = nodes[n].capacity
    BY <1>0 DEF NodeRecords
  <2>2. SetNode(n, new)
    BY <1>2 DEF EnableTimeSlicingOnNode
  <2> HIDE DEF new
  <2>3. nodes[n].capacity <= new.capacity
    BY <1>0, <2>1
  <2>4. new.capacity \in {Physical[n], Physical[n] * Replicas}
    BY <1>0, <2>1, Zenon
  <2> QED
    BY <2>1, <2>2, <2>3, <2>4 DEF SetNode
<1>3. ASSUME NEW profile \in ProfileNames, ApplyMIGConfiguration(n, profile)
      PROVE  \E new \in NodeRecords : SetNode(n, new) /\ new.capacity = nodes[n].capacity
  <2> DEFINE new == [nodes[n] EXCEPT !.mig = profile]
  <2>1. new \in NodeRecords /\ new.capacity = nodes[n].capacity
    BY <1>0 DEF NodeRecords
  <2>2. SetNode(n, new)
    BY <1>3 DEF ApplyMIGConfiguration
  <2> HIDE DEF new
  <2> QED
    BY <2>1, <2>2
<1>4. CASE AdvertiseReplicas(n)
  <2> DEFINE new == [nodes[n] EXCEPT !.capacity = Physical[n] * nodes[n].replicas]
  <2>1. nodes[n].replicas = Replicas
    BY <1>0, <1>4 DEF AdvertiseReplicas, NodeRecords
  <2>2. new \in NodeRecords /\ new.capacity = Physical[n] * Replicas
    BY <1>0, <2>1, ReplicasGrow DEF NodeRecords
  <2>3. SetNode(n, new)
    BY <1>4 DEF AdvertiseReplicas
  <2> HIDE DEF new
  <2>4. nodes[n].capacity <= new.capacity
    BY <1>0, <2>2, ReplicasGrow
  <2> QED
    BY <2>2, <2>3, <2>4 DEF SetNode
<1>5. ASSUME NEW p \in DOMAIN pods, NEW profile \in RequestedProfiles(pods[p].spec)
      PROVE  profile \in ProfileNames
  BY <1>5 DEF RequestedProfiles
<1>6. \/ EnableMPSOnNode(n) \/ EnableTimeSlicingOnNode(n) \/ AdvertiseReplicas(n)
      \/ \E profile \in ProfileNames : ApplyMIGConfiguration(n, profile)
  BY <1>5 DEF Prepare
<1>7. CASE \E profile \in ProfileNames : ApplyMIGConfiguration(n, profile)
  <2>1. PICK new \in NodeRecords : SetNode(n, new) /\ new.capacity = nodes[n].capacity
    BY <1>3, <1>7
  <2>2. nodes[n].capacity <= new.capacity
    BY <1>0, <2>1
  <2>3. new.capacity \in {Physical[n], Physical[n] * Replicas}
    BY <1>0, <2>1, Zenon
  <2> QED
    BY <2>1, <2>2, <2>3 DEF SetNode
<1> QED
  BY <1>1, <1>2, <1>4, <1>6, <1>7

-----------------------------------------------------------------------------
(* What sets of pods request.                                              *)

\* What the pods of S request, by the pods f.
Asked(f, S) == SumFunction([p \in S |-> GetTotalGPURequest(f[p].spec)])

ArePods(f, S) == IsFiniteSet(S) /\ \A p \in S : IsPod(f[p].spec)

\* Requests of parts of a set of pods are sums of one function.
LEMMA AskedSum ==
  ASSUME NEW f, NEW T, ArePods(f, T), NEW S, S \subseteq T
  PROVE  LET F == [p \in T |-> GetTotalGPURequest(f[p].spec)] IN
         /\ \A p \in T : F[p] \in Nat
         /\ IsFiniteSet(S)
         /\ Asked(f, S) = SumFunctionOnSet(F, S)
<1> DEFINE F == [p \in T |-> GetTotalGPURequest(f[p].spec)]
           G == [p \in S |-> GetTotalGPURequest(f[p].spec)]
<1>1. \A p \in T : F[p] \in Nat
  BY TotalTyped DEF ArePods, GetTotalGPURequest
<1>2. IsFiniteSet(S)
  BY FS_Subset DEF ArePods
<1>3. Asked(f, S) = SumFunctionOnSet(G, DOMAIN G)
  BY DEF Asked, SumFunction
<1>4. DOMAIN G = S /\ \A p \in S : G[p] = F[p] /\ G[p] \in Int
  BY <1>1
<1> HIDE DEF F, G
<1>5. SumFunctionOnSet(G, S) = SumFunctionOnSet(F, S)
  BY <1>2, <1>4, SumEqual
<1> QED
  BY <1>1, <1>2, <1>3, <1>4, <1>5 DEF F

\* The sum of requests is a natural number, grows with the set, adds up over
\* disjoint sets and depends on the specifications alone.
LEMMA AskedNat ==
  ASSUME NEW f, NEW S, ArePods(f, S)
  PROVE  Asked(f, S) \in Nat
<1> DEFINE F == [p \in S |-> GetTotalGPURequest(f[p].spec)]
<1>1. (\A p \in S : F[p] \in Nat) /\ IsFiniteSet(S) /\ Asked(f, S) = SumFunctionOnSet(F, S)
  BY AskedSum
<1> HIDE DEF F
<1> QED
  BY <1>1, SumNat

LEMMA AskedSubset ==
  ASSUME NEW f, NEW S, NEW T, ArePods(f, T), S \subseteq T
  PROVE  Asked(f, S) <= Asked(f, T)
<1> DEFINE F == [p \in T |-> GetTotalGPURequest(f[p].spec)]
<1>1. /\ \A p \in T : F[p] \in Nat
      /\ IsFiniteSet(T)
      /\ Asked(f, S) = SumFunctionOnSet(F, S) /\ Asked(f, T) = SumFunctionOnSet(F, T)
  BY AskedSum
<1> HIDE DEF F
<1> QED
  BY <1>1, SumSubset

LEMMA AskedDisjoint ==
  ASSUME NEW f, NEW S, NEW T, ArePods(f, S \cup T), S \cap T = {}
  PROVE  Asked(f, S \cup T) = Asked(f, S) + Asked(f, T)
<1> DEFINE U == S \cup T
           F == [p \in U |-> GetTotalGPURequest(f[p].spec)]
<1>1. /\ \A p \in U : F[p] \in Nat
      /\ IsFiniteSet(S) /\ IsFiniteSet(T)
      /\ Asked(f, U) = SumFunctionOnSet(F, U)
      /\ Asked(f, S) = SumFunctionOnSet(F, S) /\ Asked(f, T) = SumFunctionOnSet(F, T)
  <2> HIDE DEF U
  <2>1. S \subseteq U /\ T \subseteq U /\ ArePods(f, U)
    BY DEF U
  <2> QED
    BY <2>1, AskedSum
<1> HIDE DEF F
<1> QED
  BY <1>1, SumDisjoint

LEMMA AskedOne ==
  ASSUME NEW f, NEW S, NEW p, ArePods(f, S \cup {p}), p \notin S
  PROVE  Asked(f, S \cup {p}) = Asked(f, S) + GetTotalGPURequest(f[p].spec)
<1> DEFINE U == S \cup {p}
           F == [q \in U |-> GetTotalGPURequest(f[q].spec)]
<1>1. /\ \A q \in U : F[q] \in Nat
      /\ IsFiniteSet(S)
      /\ Asked(f, U) = SumFunctionOnSet(F, U)
      /\ Asked(f, S) = SumFunctionOnSet(F, S)
  <2> HIDE DEF U
  <2>1. S \subseteq U /\ ArePods(f, U)
    BY DEF U
  <2> QED
    BY <2>1, AskedSum
<1>2. F[p] = GetTotalGPURequest(f[p].spec)
  OBVIOUS
<1> HIDE DEF F
<1>3. \A q \in S \cup {p} : F[q] \in Int
  BY <1>1
<1>4. SumFunctionOnSet(F, S \cup {p}) = F[p] + SumFunctionOnSet(F, S)
  BY <1>1, <1>3, SumAdd
<1>5. F[p] \in Int /\ SumFunctionOnSet(F, S) \in Int
  BY <1>1, <1>3, SumNat
<1> QED
  BY <1>1, <1>2, <1>4, <1>5

LEMMA AskedSame ==
  ASSUME NEW f, NEW g, NEW S, \A p \in S : f[p].spec = g[p].spec
  PROVE  Asked(f, S) = Asked(g, S)
<1>1. [p \in S |-> GetTotalGPURequest(f[p].spec)] = [p \in S |-> GetTotalGPURequest(g[p].spec)]
  OBVIOUS
<1> QED
  BY <1>1, Zenon DEF Asked

LEMMA AskedNone ==
  ASSUME NEW f
  PROVE  Asked(f, {}) = 0
<1>1. ArePods(f, {})
  BY FS_EmptySet DEF ArePods
<1> QED
  BY <1>1, AskedSum, SumEmpty

-----------------------------------------------------------------------------
(* The steps.                                                              *)

\* A pod is let in, or goes on.
PodStep(p, new) ==
  /\ pods' = [q \in DOMAIN pods \cup {p} |-> IF q = p THEN new ELSE pods[q]]
  /\ new.phase # "Pending" => new.node \in Node
  /\ \/ /\ p \notin DOMAIN pods /\ new.node = NoNode /\ new.phase = "Pending"
        /\ \E spec \in Submitted[p] : new.spec \in AsAdmitted(spec)
     \/ /\ p \in DOMAIN pods /\ new.spec = pods[p].spec
        /\ \/ /\ new.node \in Node /\ new.phase = "Pending" /\ pods[p].phase = "Pending"
              /\ pods[p].node = NoNode
              /\ Request(p) + Requests(PodsOn(new.node, {"Pending", "Running"}))
                   <= nodes[new.node].capacity
           \/ /\ new.node = pods[p].node
              /\ \/ new.phase = "Running" /\ pods[p].phase \in {"Pending", "Running"}
                 \/ new.phase = "Succeeded"

\* A node gets other labels or more GPUs.
NodeStep(n, new) ==
  /\ nodes' = [nodes EXCEPT ![n] = new]
  /\ nodes[n].capacity <= new.capacity
  /\ new.capacity \in {Physical[n], Physical[n] * Replicas}

\* Every step is one of the cluster, of the pass or of the advice.
LEMMA Steps ==
  ASSUME TypeOK, CameInv, [Next]_vars
  PROVE  \/ UNCHANGED <<pods, nodes, pass, todo, listed, plan>>
         \/ /\ UNCHANGED <<nodes, pass, todo, listed, plan>> /\ pass # "done"
            /\ \E p \in Pod, new \in PodRecords : PodStep(p, new)
         \/ /\ UNCHANGED <<pods, pass, todo, listed, plan>> /\ pass # "done"
            /\ \E n \in Node, new \in NodeRecords : NodeStep(n, new)
         \/ ListNodes \/ ListNodePods \/ ListFails \/ PackPending \/ RunBinPackingAnalysis
<1>1. ASSUME NEW p \in Pod, Admit(p), pass # "done"
      PROVE  /\ UNCHANGED <<nodes, pass, todo, listed, plan>>
             /\ \E new \in PodRecords : PodStep(p, new)
  <2>0. PICK submitted \in Submitted[p] : \E spec \in AsAdmitted(submitted) :
          pods' = Updated(pods, [q \in {p} |->
                    [spec |-> spec, node |-> NoNode, phase |-> "Pending", aged |-> FALSE]])
    BY <1>1 DEF Admit
  <2>1. PICK spec \in AsAdmitted(submitted) :
          pods' = Updated(pods, [q \in {p} |->
                    [spec |-> spec, node |-> NoNode, phase |-> "Pending", aged |-> FALSE]])
    BY <2>0
  <2> DEFINE new == [spec |-> spec, node |-> NoNode, phase |-> "Pending", aged |-> FALSE]
  <2>2. /\ \E pod \in Submitted[p] : new.spec \in AsAdmitted(pod)
        /\ new.node = NoNode /\ new.phase = "Pending"
    OBVIOUS
  <2>3. new \in PodRecords
    BY <2>1 DEF PodRecords, Admitted
  <2>4. pods' = [q \in DOMAIN pods \cup {p} |-> IF q = p THEN new ELSE pods[q]]
    <3>1. pods' = Updated(pods, [q \in {p} |-> new])
      BY <2>1
    <3> HIDE DEF new
    <3> QED
      BY <3>1 DEF Updated
  <2> HIDE DEF new
  <2>5. p \notin DOMAIN pods /\ UNCHANGED <<nodes, pass, todo, listed, plan>>
    BY <1>1 DEF Admit
  <2> QED
    BY <2>2, <2>3, <2>4, <2>5 DEF PodStep
<1>2. ASSUME NEW p \in DOMAIN pods, Progress(p)
      PROVE  /\ UNCHANGED <<nodes, pass, todo, listed, plan>> /\ p \in Pod
             /\ \E new \in PodRecords : PodStep(p, new)
  <2>1. PICK new \in PodRecords :
           /\ pods' = [pods EXCEPT ![p] = new]
           /\ new.spec = pods[p].spec
           /\ UNCHANGED <<nodes, pass, todo, listed, plan, advised>>
           /\ new.phase # "Pending" => new.node \in Node
           /\ \/ /\ new.node \in Node /\ new.phase = "Pending" /\ pods[p].phase = "Pending"
                 /\ pods[p].node = NoNode
                 /\ Request(p) + Requests(PodsOn(new.node, {"Pending", "Running"}))
                      <= nodes[new.node].capacity
              \/ /\ new.node = pods[p].node
                 /\ \/ new.phase = "Running" /\ pods[p].phase \in {"Pending", "Running"}
                    \/ new.phase = "Succeeded"
    BY <1>2, PodSteps
  <2>2. p \in Pod /\ pods = [q \in DOMAIN pods |-> pods[q]]
    BY DEF TypeOK
  <2>3. pods' = [q \in DOMAIN pods \cup {p} |-> IF q = p THEN new ELSE pods[q]]
    BY <2>1, <2>2
  <2> QED
    BY <2>1, <2>2, <2>3 DEF PodStep
<1>3. ASSUME NEW n \in Node, Prepare(n)
      PROVE  /\ UNCHANGED <<pods, pass, todo, listed, plan>>
             /\ \E new \in NodeRecords : NodeStep(n, new)
  BY <1>3, NodeSteps DEF NodeStep
<1>4. ASSUME NEW p \in DOMAIN pods, Reconcile(p)
      PROVE  UNCHANGED <<pods, nodes, pass, todo, listed, plan>>
  BY <1>4 DEF Reconcile
<1>5. CASE UNCHANGED vars
  BY <1>5 DEF vars
<1>6. CASE RunBinPackingAnalysis
  BY <1>6
<1>7. CASE /\ pass # "done"
           /\ \/ \E p \in Pod : Admit(p)
              \/ \E p \in DOMAIN pods : Progress(p) \/ Reconcile(p)
              \/ \E n \in Node : Prepare(n)
              \/ ListNodes \/ ListNodePods \/ ListFails \/ PackPending
  BY <1>1, <1>2, <1>3, <1>4, <1>7
<1> QED
  BY <1>5, <1>6, <1>7 DEF Next

PodsTyped ==
  /\ DOMAIN pods \subseteq Pod
  /\ pods \in [DOMAIN pods -> PodRecords]
  /\ \A p \in DOMAIN pods : pods[p].phase # "Pending" => pods[p].node \in Node

NodesTyped ==
  /\ nodes \in [Node -> NodeRecords]
  /\ \A n \in Node : nodes[n].capacity \in {Physical[n], Physical[n] * Replicas}

\* A pod keeps its specification, and having started does not wait again.
LEMMA PodStepKeeps ==
  ASSUME PodsTyped, CameInv, NEW p \in Pod, NEW new \in PodRecords, PodStep(p, new)
  PROVE  /\ DOMAIN pods' = DOMAIN pods \cup {p} /\ pods'[p] = new
         /\ \A q \in DOMAIN pods : q # p => pods'[q] = pods[q]
         /\ \A q \in DOMAIN pods :
              /\ pods'[q].spec = pods[q].spec
              /\ pods[q].phase # "Pending" => pods'[q].phase # "Pending"
         /\ CameInv' /\ PodsTyped'
<1>1. /\ DOMAIN pods' = DOMAIN pods \cup {p} /\ pods'[p] = new
      /\ \A q \in DOMAIN pods : q # p => pods'[q] = pods[q]
  BY DEF PodStep
<1>2. \A q \in DOMAIN pods :
        /\ pods'[q].spec = pods[q].spec
        /\ pods[q].phase # "Pending" => pods'[q].phase # "Pending"
  BY <1>1 DEF PodStep
<1>3. CameInv'
  <2>1. IsFiniteSet(DOMAIN pods')
    BY <1>1, FS_AddElement DEF CameInv
  <2>2. \E spec \in Submitted[p] : new.spec \in AsAdmitted(spec)
    BY DEF PodStep, CameInv
  <2>3. \A q \in DOMAIN pods' : \E spec \in Submitted[q] : pods'[q].spec \in AsAdmitted(spec)
    BY <1>1, <2>2 DEF CameInv
  <2> QED
    BY <2>1, <2>3 DEF CameInv
<1>4. PodsTyped'
  <2>1. pods' \in [DOMAIN pods' -> PodRecords]
    BY DEF PodStep, PodsTyped
  <2>2. \A q \in DOMAIN pods' : pods'[q].phase # "Pending" => pods'[q].node \in Node
    BY <1>1 DEF PodStep, PodsTyped
  <2> QED
    BY <1>1, <2>1, <2>2 DEF PodsTyped, PodRecords
<1> QED
  BY <1>1, <1>2, <1>3, <1>4

\* Capacities never shrink.
LEMMA NodeStepKeeps ==
  ASSUME NodesTyped, NEW n \in Node, NEW new \in NodeRecords, NodeStep(n, new)
  PROVE  /\ \A m \in Node : nodes[m].capacity <= nodes'[m].capacity
         /\ NodesTyped'
<1>1. \A m \in Node : nodes[m].capacity \in Nat
  BY DEF NodesTyped, NodeRecords
<1>2. /\ nodes' \in [Node -> NodeRecords] /\ nodes'[n] = new
      /\ \A m \in Node : m # n => nodes'[m] = nodes[m]
  BY DEF NodeStep, NodesTyped
<1>3. \A m \in Node : nodes[m].capacity <= nodes'[m].capacity
  BY <1>1, <1>2 DEF NodeStep
<1>4. \A m \in Node : nodes'[m].capacity \in {Physical[m], Physical[m] * Replicas}
  BY <1>2 DEF NodeStep, NodesTyped
<1> QED
  BY <1>2, <1>3, <1>4 DEF NodesTyped, NodeRecords

\* Of what is admitted everything is a pod, now and after a step.
LEMMA AllArePods ==
  PodsTyped /\ CameInv => \A q \in DOMAIN pods : IsPod(pods[q].spec)
BY SpecIsPod DEF PodsTyped

LEMMA AllArePodsNext ==
  PodsTyped' /\ CameInv' => \A q \in DOMAIN pods' : IsPod(pods'[q].spec)
<1>1. (PodsTyped /\ CameInv => \A q \in DOMAIN pods : IsPod(pods[q].spec))'
  BY AllArePods, PTL
<1> QED
  BY <1>1

LEMMA SomePods ==
  ASSUME PodsTyped, CameInv, NEW S, S \subseteq DOMAIN pods
  PROVE  ArePods(pods, S)
BY SpecIsPod, FS_Subset DEF PodsTyped, ArePods, CameInv

LEMMA RequestsAsked ==
  ASSUME NEW S
  PROVE  Requests(S) = Asked(pods, S)
BY DEF Requests, Request, Asked

\* A pod that takes a step fits where it is bound.
LEMMA PodStepCapacity ==
  ASSUME PodsTyped, NodesTyped, CameInv, CapacityInv, UNCHANGED nodes,
         NEW p \in Pod, NEW new \in PodRecords, PodStep(p, new), NEW n \in Node
  PROVE  Asked(pods', PodsOn(n, {"Pending", "Running"})') <= nodes[n].capacity
<1> DEFINE S == PodsOn(n, {"Pending", "Running"})
           T == S'
<1>1. /\ DOMAIN pods' = DOMAIN pods \cup {p} /\ pods'[p] = new
      /\ \A q \in DOMAIN pods : q # p => pods'[q] = pods[q]
      /\ \A q \in DOMAIN pods : pods'[q].spec = pods[q].spec
      /\ CameInv' /\ PodsTyped'
  BY PodStepKeeps
<1>2. /\ S = {q \in DOMAIN pods : pods[q].node = n /\ pods[q].phase \in {"Pending", "Running"}}
      /\ T = {q \in DOMAIN pods' : pods'[q].node = n /\ pods'[q].phase \in {"Pending", "Running"}}
  BY DEF PodsOn
<1>3. Asked(pods, S) <= nodes[n].capacity
  BY RequestsAsked DEF CapacityInv
<1> HIDE DEF S, T
<1>4. ArePods(pods', T) /\ ArePods(pods, S)
  <2>1. (\A q \in DOMAIN pods' : IsPod(pods'[q].spec)) /\ IsFiniteSet(DOMAIN pods')
    BY <1>1, AllArePodsNext DEF CameInv
  <2>2. IsFiniteSet(T)
    BY <1>2, <2>1, FS_Subset
  <2> QED
    BY <1>2, <2>1, <2>2, SomePods DEF ArePods
<1>5. Asked(pods', T) \in Nat /\ Asked(pods, S) \in Nat /\ nodes[n].capacity \in Nat
  BY <1>4, AskedNat DEF NodesTyped, NodeRecords
<1>6. ASSUME T \subseteq S PROVE Asked(pods', T) <= nodes[n].capacity
  <2>1. Asked(pods, T) = Asked(pods', T)
    BY <1>1, <1>2, <1>6, AskedSame
  <2>2. Asked(pods, T) <= Asked(pods, S)
    BY <1>4, <1>6, AskedSubset
  <2> QED
    BY <1>3, <1>5, <2>1, <2>2
<1>7. ASSUME ~(T \subseteq S) PROVE Asked(pods', T) <= nodes[n].capacity
  <2>1. /\ p \in DOMAIN pods /\ new.node = n /\ pods[p].node = NoNode
        /\ Request(p) + Requests(PodsOn(n, {"Pending", "Running"})) <= nodes[n].capacity
    BY <1>1, <1>2, <1>7, PlacementAssumption DEF PodStep
  <2>2. T = S \cup {p} /\ p \notin S
    BY <1>1, <1>2, <1>7, <2>1, PlacementAssumption
  <2>3. Asked(pods', T) = Asked(pods', S) + GetTotalGPURequest(pods'[p].spec)
    BY <1>4, <2>2, AskedOne
  <2>4. Asked(pods', S) = Asked(pods, S)
    BY <1>1, <1>2, AskedSame
  <2>5. Request(p) + Asked(pods, S) <= nodes[n].capacity
    BY <2>1, RequestsAsked DEF S
  <2>6. Request(p) = GetTotalGPURequest(pods'[p].spec) /\ Request(p) \in Nat
    BY <1>1, <2>1, SpecIsPod, TotalTyped DEF Request, GetTotalGPURequest, PodsTyped
  <2> QED
    BY <1>5, <2>3, <2>4, <2>5, <2>6
<1> QED
  BY <1>6, <1>7 DEF T, S

-----------------------------------------------------------------------------
(* The invariant.                                                          *)

PlacementInv ==
  /\ PodsTyped /\ NodesTyped /\ pass \in {"idle", "listing", "done"}
  /\ CameInv /\ CapacityInv /\ TodoInv /\ ListedInv /\ PlanInv

ListedNodes == [name : Node, total : Nat, free : Int, pods : SUBSET Pod]

\* The fields of a listed node.
LEMMA ListedTyped ==
  ASSUME ListedInv, NEW i \in DOMAIN listed
  PROVE  /\ listed[i].name \in Node /\ listed[i].total \in Nat /\ listed[i].free \in Int
         /\ listed[i].pods \subseteq Pod
<1>1. listed \in Seq(ListedNodes)
  BY DEF ListedInv, ListedNodes
<1>2. listed[i] \in ListedNodes
  BY <1>1, ElementOf
<1> QED
  BY <1>2 DEF ListedNodes

\* The invariant gives the types, and the bounds of what is listed.
LEMMA TypeHolds ==
  ASSUME PlacementInv
  PROVE  TypeOK
<1>1. \A i \in DOMAIN listed : listed[i].free <= listed[i].total
  <2> TAKE i \in DOMAIN listed
  <2>1. /\ listed[i].pods \subseteq DOMAIN pods
        /\ listed[i].free = listed[i].total - Requests(listed[i].pods)
        /\ Requests(listed[i].pods) = Asked(pods, listed[i].pods)
    BY RequestsAsked DEF PlacementInv, ListedInv
  <2>2. Asked(pods, listed[i].pods) \in Nat
    BY <2>1, SomePods, AskedNat DEF PlacementInv
  <2>3. listed[i].total \in Nat
    BY ListedTyped DEF PlacementInv
  <2> DEFINE a == listed[i].free
             b == listed[i].total
             c == Asked(pods, listed[i].pods)
  <2>4. a = b - c /\ b \in Nat /\ c \in Nat
    BY <2>1, <2>2, <2>3
  <2> HIDE DEF a, b, c
  <2>5. a <= b
    BY <2>4
  <2> QED
    BY <2>5 DEF a, b
<1>2. \A i \in DOMAIN listed : listed[i].pods \subseteq DOMAIN pods
  BY DEF PlacementInv, ListedInv
<1>3. /\ PodsTyped /\ NodesTyped /\ pass \in {"idle", "listing", "done"}
  BY DEF PlacementInv
<1> QED
  BY <1>1, <1>2, <1>3 DEF TypeOK, PodsTyped, NodesTyped, PodRecords, NodeRecords

\* What is to be listed: a capacity only grows after it was read.
LEMMA TodoNext ==
  ASSUME PlacementInv, [Next]_vars
  PROVE  TodoInv'
<1>0. /\ todo \in Seq([name : Node, total : Nat]) /\ NodesTyped
      /\ \A i \in DOMAIN todo : todo[i].total <= nodes[todo[i].name].capacity
      /\ \A n \in Node : nodes[n].capacity \in Nat
  BY DEF PlacementInv, TodoInv, NodesTyped, NodeRecords
<1>1. CASE UNCHANGED <<nodes, todo>>
  BY <1>0, <1>1 DEF TodoInv
<1>2. ASSUME NEW n \in Node, NEW new \in NodeRecords, NodeStep(n, new), UNCHANGED todo
      PROVE  TodoInv'
  <2>1. (\A m \in Node : nodes[m].capacity <= nodes'[m].capacity) /\ NodesTyped'
    BY <1>0, <1>2, NodeStepKeeps
  <2>2. \A m \in Node : nodes'[m].capacity \in Nat
    BY <2>1 DEF NodesTyped, NodeRecords
  <2>3. \A i \in DOMAIN todo : todo[i].name \in Node /\ todo[i].total \in Nat
    <3>1. todo \in Seq([name : Node, total : Nat])
      BY <1>0
    <3>2. \A i \in DOMAIN todo : todo[i] \in [name : Node, total : Nat]
      BY <3>1, ElementOf
    <3> QED
      BY <3>2
  <2>4. \A i \in DOMAIN todo : todo[i].total <= nodes'[todo[i].name].capacity
    <3> TAKE i \in DOMAIN todo
    <3> DEFINE m == todo[i].name
               a == todo[i].total
               b == nodes[m].capacity
               c == nodes'[m].capacity
    <3>1. a <= b /\ b <= c /\ a \in Nat /\ b \in Nat /\ c \in Nat
      BY <1>0, <2>1, <2>2, <2>3
    <3> HIDE DEF a, b, c
    <3>2. a <= c
      BY <3>1
    <3> QED
      BY <3>2 DEF a, c
  <2> QED
    BY <1>0, <1>2, <2>4 DEF TodoInv
<1>3. CASE ListNodes
  <2>1. PICK order \in SetToSeqs(GPUNodes) :
          todo' = [i \in DOMAIN order |->
                    [name |-> order[i], total |-> nodes[order[i]].capacity]]
    BY <1>3 DEF ListNodes
  <2>2. nodes' = nodes
    BY <1>3 DEF ListNodes
  <2> DEFINE k == Cardinality(GPUNodes)
  <2>3. k \in Nat
    BY PlacementAssumption, FS_Subset, FS_CardinalityType DEF GPUNodes
  <2>4. order \in [1..k -> GPUNodes] /\ GPUNodes \subseteq Node
    BY DEF SetToSeqs, GPUNodes
  <2> HIDE DEF k
  <2>5. todo' = [i \in 1..k |-> [name |-> order[i], total |-> nodes[order[i]].capacity]]
    BY <2>1, <2>4
  <2>6. todo' \in Seq([name : Node, total : Nat])
    BY <1>0, <2>3, <2>4, <2>5
  <2>7. \A i \in DOMAIN todo' : todo'[i].total <= nodes[todo'[i].name].capacity
    BY <1>0, <2>4, <2>5
  <2> QED
    BY <2>2, <2>6, <2>7 DEF TodoInv
<1>4. CASE ListNodePods
  <2>1. todo # <<>> /\ todo' = Tail(todo) /\ nodes' = nodes
    BY <1>4 DEF ListNodePods
  <2>2. todo' \in Seq([name : Node, total : Nat])
    BY <1>0, <2>1
  <2>3. \A i \in DOMAIN todo' : i + 1 \in DOMAIN todo /\ todo'[i] = todo[i + 1]
    BY <1>0, <2>1
  <2> QED
    BY <1>0, <2>1, <2>2, <2>3 DEF TodoInv
<1>5. CASE ListFails
  <2>1. todo' = <<>> /\ nodes' = nodes
    BY <1>5 DEF ListFails
  <2> QED
    BY <2>1 DEF TodoInv
<1>6. CASE PackPending \/ RunBinPackingAnalysis
  BY <1>1, <1>6 DEF PackPending, RunBinPackingAnalysis
<1> QED
  <2>1. TypeOK /\ CameInv
    BY TypeHolds DEF PlacementInv
  <2>2. \/ UNCHANGED <<pods, nodes, pass, todo, listed, plan>>
        \/ UNCHANGED <<nodes, pass, todo, listed, plan>>
        \/ /\ UNCHANGED <<pods, pass, todo, listed, plan>>
           /\ \E n \in Node, new \in NodeRecords : NodeStep(n, new)
        \/ ListNodes \/ ListNodePods \/ ListFails \/ PackPending \/ RunBinPackingAnalysis
    BY <2>1, Steps
  <2> QED
    BY <1>1, <1>2, <1>3, <1>4, <1>5, <1>6, <2>2

\* What was listed stays true while pods start and nodes grow.
LEMMA ListedKept ==
  ASSUME PodsTyped, NodesTyped, CameInv, ListedInv, NodesTyped', UNCHANGED listed,
         \A q \in DOMAIN pods :
           /\ q \in DOMAIN pods' /\ pods'[q].spec = pods[q].spec
           /\ pods[q].phase # "Pending" => pods'[q].phase # "Pending",
         \A m \in Node : nodes[m].capacity <= nodes'[m].capacity
  PROVE  ListedInv'
<1>1. \A m \in Node : nodes[m].capacity \in Nat /\ nodes'[m].capacity \in Nat
  BY DEF NodesTyped, NodeRecords
<1>2. ASSUME NEW i \in DOMAIN listed
      PROVE  /\ listed[i].total <= nodes'[listed[i].name].capacity
             /\ listed[i].pods \subseteq DOMAIN pods'
             /\ \A p \in listed[i].pods : pods'[p].phase # "Pending"
             /\ listed[i].free = listed[i].total - Asked(pods', listed[i].pods)
             /\ Asked(pods', listed[i].pods) <= nodes'[listed[i].name].capacity
  <2> DEFINE n == listed[i].name
             S == listed[i].pods
             c == nodes[n].capacity
             d == nodes'[n].capacity
             t == listed[i].total
             r == Asked(pods, S)
  <2>1. n \in Node /\ t \in Nat
    BY ListedTyped
  <2>2. c \in Nat /\ d \in Nat /\ c <= d
    BY <1>1, <2>1
  <2>3. S \subseteq DOMAIN pods /\ \A p \in S : pods[p].phase # "Pending"
    BY DEF ListedInv
  <2>4. t <= c /\ listed[i].free = t - r /\ r <= c
    BY RequestsAsked DEF ListedInv
  <2>5. Asked(pods', S) = r
    BY <2>3, AskedSame
  <2>6. r \in Nat
    BY <2>3, SomePods, AskedNat
  <2>7. S \subseteq DOMAIN pods' /\ \A p \in S : pods'[p].phase # "Pending"
    BY <2>3
  <2> HIDE DEF n, S, c, d, t, r
  <2>8. t <= d /\ r <= d
    BY <2>1, <2>2, <2>4, <2>6
  <2> QED
    BY <2>4, <2>5, <2>7, <2>8 DEF n, S, d, t
<1>3. \A i \in DOMAIN listed' : Requests(listed[i].pods)' = Asked(pods', listed'[i].pods)
  BY DEF Requests, Request, Asked
<1>4. listed' \in Seq([name : Node, total : Nat, free : Int, pods : SUBSET Pod])
  BY DEF ListedInv
<1> QED
  BY <1>2, <1>3, <1>4 DEF ListedInv

\* What was listed stays true: counted pods have started and stay so.
LEMMA ListedNext ==
  ASSUME PlacementInv, [Next]_vars
  PROVE  ListedInv'
<1>0. /\ PodsTyped /\ NodesTyped /\ CameInv /\ ListedInv /\ TodoInv /\ CapacityInv
      /\ \A n \in Node : nodes[n].capacity \in Nat
  BY DEF PlacementInv, NodesTyped, NodeRecords
<1>1. CASE UNCHANGED <<pods, nodes, listed>>
  <2>1. \A m \in Node : nodes[m].capacity <= nodes'[m].capacity
    BY <1>0, <1>1
  <2>2. NodesTyped'
    BY <1>0, <1>1 DEF NodesTyped
  <2> QED
    BY <1>0, <1>1, <2>1, <2>2, ListedKept
<1>2. ASSUME NEW n \in Node, NEW new \in NodeRecords, NodeStep(n, new), UNCHANGED <<pods, listed>>
      PROVE  ListedInv'
  <2>1. (\A m \in Node : nodes[m].capacity <= nodes'[m].capacity) /\ NodesTyped'
    BY <1>0, <1>2, NodeStepKeeps
  <2> QED
    BY <1>0, <1>2, <2>1, ListedKept
<1>3. ASSUME NEW p \in Pod, NEW new \in PodRecords, PodStep(p, new), UNCHANGED <<nodes, listed>>
      PROVE  ListedInv'
  <2>1. \A m \in Node : nodes[m].capacity <= nodes'[m].capacity
    BY <1>0, <1>3
  <2>2. NodesTyped'
    BY <1>0, <1>3 DEF NodesTyped
  <2>3. \A q \in DOMAIN pods :
           /\ q \in DOMAIN pods' /\ pods'[q].spec = pods[q].spec
           /\ pods[q].phase # "Pending" => pods'[q].phase # "Pending"
    BY <1>0, <1>3, PodStepKeeps
  <2> QED
    BY <1>0, <1>3, <2>1, <2>2, <2>3, ListedKept
<1>4. ASSUME listed' = <<>> PROVE ListedInv'
  BY <1>4 DEF ListedInv
<1>5. CASE ListNodePods
  <2> DEFINE n == Head(todo)
             running == GPUPodsOn(n.name, {"Running"})
             r == Asked(pods, running)
             new == [name |-> n.name, total |-> n.total, free |-> n.total - r, pods |-> running]
  <2>1. /\ todo # <<>> /\ UNCHANGED <<pods, nodes>>
        /\ listed' = Append(listed, [name |-> n.name, total |-> n.total,
                                     free |-> n.total - Requests(running), pods |-> running])
    BY <1>5 DEF ListNodePods
  <2>2. listed' = Append(listed, new)
    <3>1. Requests(running) = r
      BY RequestsAsked
    <3> QED
      BY <2>1, <3>1
  <2>3. n.name \in Node /\ n.total \in Nat /\ n.total <= nodes[n.name].capacity
    <3>1. todo \in Seq([name : Node, total : Nat]) /\ 1 \in DOMAIN todo /\ n = todo[1]
      BY <1>0, <2>1 DEF TodoInv
    <3>2. todo[1] \in [name : Node, total : Nat]
      <4>1. todo \in Seq([name : Node, total : Nat])
        BY <3>1
      <4>2. \A i \in DOMAIN todo : todo[i] \in [name : Node, total : Nat]
        BY <4>1, ElementOf
      <4> QED
        BY <3>1, <4>2
    <3>3. todo[1].total <= nodes[todo[1].name].capacity
      BY <1>0, <3>1 DEF TodoInv
    <3> HIDE DEF n
    <3>4. todo[1].name \in Node /\ todo[1].total \in Nat
      BY <3>2
    <3> QED
      BY <3>1, <3>3, <3>4
  <2>4. /\ running \subseteq DOMAIN pods
        /\ running \subseteq PodsOn(n.name, {"Pending", "Running"})
        /\ \A p \in running : pods[p].phase # "Pending"
    BY DEF GPUPodsOn, PodsOn
  <2> HIDE DEF n, running
  <2>5. r \in Nat
    BY <1>0, <2>4, SomePods, AskedNat
  <2>6. r <= nodes[n.name].capacity
    <3> DEFINE all == PodsOn(n.name, {"Pending", "Running"})
               c == nodes[n.name].capacity
               s == Asked(pods, all)
    <3>1. ArePods(pods, all)
      BY <1>0, SomePods DEF PodsOn
    <3>2. s \in Nat /\ r <= s
      BY <2>4, <3>1, AskedNat, AskedSubset
    <3>3. s <= c /\ c \in Nat
      BY <1>0, <2>3, RequestsAsked DEF CapacityInv
    <3> HIDE DEF r, s, c
    <3> QED
      BY <2>5, <3>2, <3>3 DEF c
  <2>7. running \subseteq Pod
    BY <1>0, <2>4 DEF PodsTyped
  <2>8. new \in ListedNodes
    BY <2>3, <2>5, <2>7 DEF ListedNodes
  <2>9. /\ new.name = n.name /\ new.total = n.total /\ new.pods = running
        /\ new.free = n.total - r
    OBVIOUS
  <2> HIDE DEF new, r
  <2>10. listed \in Seq(ListedNodes)
    BY <1>0 DEF ListedInv, ListedNodes
  <2>11. /\ listed' \in Seq(ListedNodes)
         /\ DOMAIN listed' = DOMAIN listed \cup {Len(listed) + 1}
         /\ \A i \in DOMAIN listed : listed'[i] = listed[i]
         /\ listed'[Len(listed) + 1] = new
    BY <2>2, <2>8, <2>10
  <2>12. \A i \in DOMAIN listed :
           /\ listed[i].total <= nodes[listed[i].name].capacity
           /\ listed[i].pods \subseteq DOMAIN pods
           /\ \A p \in listed[i].pods : pods[p].phase # "Pending"
           /\ listed[i].free = listed[i].total - Asked(pods, listed[i].pods)
           /\ Asked(pods, listed[i].pods) <= nodes[listed[i].name].capacity
    BY <1>0, RequestsAsked DEF ListedInv
  <2>13. /\ new.total <= nodes[new.name].capacity
         /\ new.pods \subseteq DOMAIN pods
         /\ \A p \in new.pods : pods[p].phase # "Pending"
         /\ new.free = new.total - Asked(pods, new.pods)
         /\ Asked(pods, new.pods) <= nodes[new.name].capacity
    BY <2>3, <2>4, <2>6, <2>9 DEF r
  <2>14. \A i \in DOMAIN listed' :
           /\ listed'[i].total <= nodes'[listed'[i].name].capacity
           /\ listed'[i].pods \subseteq DOMAIN pods'
           /\ \A p \in listed'[i].pods : pods'[p].phase # "Pending"
           /\ listed'[i].free = listed'[i].total - Asked(pods', listed'[i].pods)
           /\ Asked(pods', listed'[i].pods) <= nodes'[listed'[i].name].capacity
    BY <2>1, <2>11, <2>12, <2>13
  <2>15. \A i \in DOMAIN listed' : Requests(listed[i].pods)' = Asked(pods', listed'[i].pods)
    BY DEF Requests, Request, Asked
  <2> QED
    BY <2>11, <2>14, <2>15 DEF ListedInv, ListedNodes
<1>6. CASE ListNodes \/ ListFails \/ RunBinPackingAnalysis
  BY <1>4, <1>6 DEF ListNodes, ListFails, RunBinPackingAnalysis
<1>7. CASE PackPending
  BY <1>1, <1>7 DEF PackPending
<1> QED
  <2>1. TypeOK /\ CameInv
    BY TypeHolds DEF PlacementInv
  <2>2. \/ UNCHANGED <<pods, nodes, pass, todo, listed, plan>>
        \/ /\ UNCHANGED <<nodes, pass, todo, listed, plan>>
           /\ \E p \in Pod, new \in PodRecords : PodStep(p, new)
        \/ /\ UNCHANGED <<pods, pass, todo, listed, plan>>
           /\ \E n \in Node, new \in NodeRecords : NodeStep(n, new)
        \/ ListNodes \/ ListNodePods \/ ListFails \/ PackPending \/ RunBinPackingAnalysis
    BY <2>1, Steps
  <2> QED
    BY <1>1, <1>2, <1>3, <1>5, <1>6, <1>7, <2>2

\* What is bound to a node fits on it.
LEMMA CapacityNext ==
  ASSUME PlacementInv, [Next]_vars
  PROVE  CapacityInv'
<1>0. /\ PodsTyped /\ NodesTyped /\ CameInv /\ CapacityInv
      /\ \A n \in Node : nodes[n].capacity \in Nat
  BY DEF PlacementInv, NodesTyped, NodeRecords
<1>1. CASE UNCHANGED <<pods, nodes>>
  <2>1. \A n \in Node : Asked(pods', PodsOn(n, {"Pending", "Running"})') <= nodes'[n].capacity
    <3> TAKE n \in Node
    <3>1. Asked(pods, PodsOn(n, {"Pending", "Running"})) <= nodes[n].capacity
      BY <1>0, RequestsAsked DEF CapacityInv
    <3>2. PodsOn(n, {"Pending", "Running"})' = PodsOn(n, {"Pending", "Running"})
      BY <1>1 DEF PodsOn
    <3> QED
      BY <1>1, <3>1, <3>2
  <2>2. \A n \in Node : Requests(PodsOn(n, {"Pending", "Running"}))'
                          = Asked(pods', PodsOn(n, {"Pending", "Running"})')
    BY DEF Requests, Request, Asked
  <2> QED
    BY <2>1, <2>2 DEF CapacityInv
<1>2. ASSUME NEW n \in Node, NEW new \in NodeRecords, NodeStep(n, new), UNCHANGED pods
      PROVE  CapacityInv'
  <2>1. (\A m \in Node : nodes[m].capacity <= nodes'[m].capacity) /\ NodesTyped'
    BY <1>0, <1>2, NodeStepKeeps
  <2>2. \A m \in Node : Asked(pods', PodsOn(m, {"Pending", "Running"})') <= nodes'[m].capacity
    <3> TAKE m \in Node
    <3> DEFINE S == PodsOn(m, {"Pending", "Running"})
               r == Asked(pods, S)
               c == nodes[m].capacity
               d == nodes'[m].capacity
    <3>1. S' = S
      BY <1>2 DEF PodsOn
    <3>2. r <= c
      BY <1>0, RequestsAsked DEF CapacityInv
    <3>3. r \in Nat
      BY <1>0, SomePods, AskedNat DEF PodsOn
    <3>4. c \in Nat /\ d \in Nat /\ c <= d
      BY <1>0, <2>1 DEF NodesTyped, NodeRecords
    <3>5. Asked(pods', S') = r
      BY <1>2, <3>1
    <3> HIDE DEF r, c, d
    <3>6. r <= d
      BY <3>2, <3>3, <3>4
    <3> QED
      BY <3>5, <3>6 DEF d
  <2>3. \A m \in Node : Requests(PodsOn(m, {"Pending", "Running"}))'
                          = Asked(pods', PodsOn(m, {"Pending", "Running"})')
    BY DEF Requests, Request, Asked
  <2> QED
    BY <2>2, <2>3 DEF CapacityInv
<1>3. ASSUME NEW p \in Pod, NEW new \in PodRecords, PodStep(p, new), UNCHANGED nodes
      PROVE  CapacityInv'
  <2>1. \A n \in Node : Asked(pods', PodsOn(n, {"Pending", "Running"})') <= nodes'[n].capacity
    BY <1>0, <1>3, PodStepCapacity
  <2>2. \A n \in Node : Requests(PodsOn(n, {"Pending", "Running"}))'
                          = Asked(pods', PodsOn(n, {"Pending", "Running"})')
    BY DEF Requests, Request, Asked
  <2> QED
    BY <2>1, <2>2 DEF CapacityInv
<1>4. CASE ListNodes \/ ListNodePods \/ ListFails \/ PackPending \/ RunBinPackingAnalysis
  BY <1>1, <1>4 DEF ListNodes, ListNodePods, ListFails, PackPending, RunBinPackingAnalysis
<1> QED
  <2>1. TypeOK /\ CameInv
    BY TypeHolds DEF PlacementInv
  <2>2. \/ UNCHANGED <<pods, nodes, pass, todo, listed, plan>>
        \/ /\ UNCHANGED <<nodes, pass, todo, listed, plan>>
           /\ \E p \in Pod, new \in PodRecords : PodStep(p, new)
        \/ /\ UNCHANGED <<pods, pass, todo, listed, plan>>
           /\ \E n \in Node, new \in NodeRecords : NodeStep(n, new)
        \/ ListNodes \/ ListNodePods \/ ListFails \/ PackPending \/ RunBinPackingAnalysis
    BY <2>1, Steps
  <2> QED
    BY <1>1, <1>2, <1>3, <1>4, <2>2

\* The plan is a packing of the listing, and nothing happens before it is logged.
LEMMA PlanNext ==
  ASSUME PlacementInv, [Next]_vars
  PROVE  PlanInv' /\ pass' \in {"idle", "listing", "done"}
<1>0. PlanInv /\ pass \in {"idle", "listing", "done"}
  BY DEF PlacementInv
<1>1. CASE UNCHANGED <<pods, nodes, pass, todo, listed, plan>>
  <2>1. PendingGPUWorkloads' = PendingGPUWorkloads
    BY <1>1 DEF PendingGPUWorkloads, Request
  <2> QED
    BY <1>0, <1>1, <2>1 DEF PlanInv
<1>2. CASE UNCHANGED <<pass, todo, listed, plan>> /\ pass # "done"
  BY <1>0, <1>2 DEF PlanInv
<1>3. CASE PackPending
  <2>1. PICK strategy \in Strategies : plan' \in PackWorkloads(strategy, listed, PendingGPUWorkloads)
    BY <1>3 DEF PackPending
  <2>2. PICK order \in SortedWorkloads(PendingGPUWorkloads) :
          plan' = Packing(strategy, listed, order)
    BY <2>1 DEF PackWorkloads
  <2>3. todo = <<>> /\ pass' = "done" /\ UNCHANGED <<pods, nodes, todo, listed>>
    BY <1>3 DEF PackPending
  <2>4. PendingGPUWorkloads' = PendingGPUWorkloads
    BY <2>3 DEF PendingGPUWorkloads, Request
  <2> QED
    BY <2>1, <2>2, <2>3, <2>4 DEF PlanInv
<1>4. CASE ListNodes \/ ListNodePods \/ ListFails
  <2>1. \/ pass' = "listing"
        \/ pass' = "idle" /\ todo' = <<>> /\ listed' = <<>>
    BY <1>4 DEF ListNodes, ListNodePods, ListFails
  <2> QED
    BY <2>1 DEF PlanInv
<1>5. CASE RunBinPackingAnalysis
  <2>1. pass' = "idle" /\ todo' = <<>> /\ listed' = <<>>
    BY <1>0, <1>5 DEF RunBinPackingAnalysis, PlanInv
  <2> QED
    BY <2>1 DEF PlanInv
<1> QED
  <2>1. TypeOK /\ CameInv
    BY TypeHolds DEF PlacementInv
  <2>2. \/ UNCHANGED <<pods, nodes, pass, todo, listed, plan>>
        \/ UNCHANGED <<nodes, pass, todo, listed, plan>> /\ pass # "done"
        \/ UNCHANGED <<pods, pass, todo, listed, plan>> /\ pass # "done"
        \/ ListNodes \/ ListNodePods \/ ListFails \/ PackPending \/ RunBinPackingAnalysis
    BY <2>1, Steps
  <2> QED
    BY <1>1, <1>2, <1>3, <1>4, <1>5, <2>2

\* Types and the origin of specifications are kept.
LEMMA TypesNext ==
  ASSUME PlacementInv, [Next]_vars
  PROVE  PodsTyped' /\ NodesTyped' /\ CameInv'
<1>0. /\ PodsTyped /\ NodesTyped /\ CameInv
  BY DEF PlacementInv
<1>1. CASE UNCHANGED <<pods, nodes>>
  BY <1>0, <1>1 DEF PodsTyped, NodesTyped, CameInv
<1>2. ASSUME NEW n \in Node, NEW new \in NodeRecords, NodeStep(n, new), UNCHANGED pods
      PROVE  PodsTyped' /\ NodesTyped' /\ CameInv'
  <2>1. NodesTyped'
    BY <1>0, <1>2, NodeStepKeeps
  <2> QED
    BY <1>0, <1>2, <2>1 DEF PodsTyped, CameInv
<1>3. ASSUME NEW p \in Pod, NEW new \in PodRecords, PodStep(p, new), UNCHANGED nodes
      PROVE  PodsTyped' /\ NodesTyped' /\ CameInv'
  <2>1. PodsTyped' /\ CameInv'
    BY <1>0, <1>3, PodStepKeeps
  <2> QED
    BY <1>0, <1>3, <2>1 DEF NodesTyped
<1>4. CASE ListNodes \/ ListNodePods \/ ListFails \/ PackPending \/ RunBinPackingAnalysis
  BY <1>1, <1>4 DEF ListNodes, ListNodePods, ListFails, PackPending, RunBinPackingAnalysis
<1> QED
  <2>1. TypeOK /\ CameInv
    BY TypeHolds DEF PlacementInv
  <2>2. \/ UNCHANGED <<pods, nodes, pass, todo, listed, plan>>
        \/ /\ UNCHANGED <<nodes, pass, todo, listed, plan>>
           /\ \E p \in Pod, new \in PodRecords : PodStep(p, new)
        \/ /\ UNCHANGED <<pods, pass, todo, listed, plan>>
           /\ \E n \in Node, new \in NodeRecords : NodeStep(n, new)
        \/ ListNodes \/ ListNodePods \/ ListFails \/ PackPending \/ RunBinPackingAnalysis
    BY <2>1, Steps
  <2> QED
    BY <1>1, <1>2, <1>3, <1>4, <2>2

\* The invariant holds at the start.
LEMMA PlacementInit ==
  ASSUME Init
  PROVE  PlacementInv
<1>1. PodsTyped /\ CameInv
  BY FS_EmptySet DEF Init, PodsTyped, CameInv
<1>2. NodesTyped
  <2>1. Physical \in [Node -> Nat] /\ 0 \in {0, Replicas} /\ "none" \in {"none"} \union ProfileNames
    BY PlacementAssumption
  <2>2. nodes = [n \in Node |-> [capacity |-> Physical[n], original |-> 0, mps |-> FALSE,
                                  replicas |-> 0, mig |-> "none"]]
    BY DEF Init
  <2>3. nodes \in [Node -> NodeRecords]
    BY <2>1, <2>2 DEF NodeRecords
  <2>4. \A n \in Node : nodes[n].capacity = Physical[n]
    BY <2>2
  <2> QED
    BY <2>3, <2>4 DEF NodesTyped
<1>3. CapacityInv
  <2> SUFFICES ASSUME NEW n \in Node
               PROVE  Requests(PodsOn(n, {"Pending", "Running"})) <= nodes[n].capacity
    BY DEF CapacityInv
  <2>1. PodsOn(n, {"Pending", "Running"}) = {}
    BY DEF Init, PodsOn
  <2>2. Requests(PodsOn(n, {"Pending", "Running"})) = 0
    BY <2>1, RequestsAsked, AskedNone
  <2>3. nodes[n].capacity \in Nat
    BY <1>2 DEF NodesTyped, NodeRecords
  <2> QED
    BY <2>2, <2>3
<1>4. TodoInv /\ ListedInv /\ PlanInv /\ pass \in {"idle", "listing", "done"}
  BY DEF Init, TodoInv, ListedInv, PlanInv
<1> QED
  BY <1>1, <1>2, <1>3, <1>4 DEF PlacementInv

\* Types, the origin of every specification, that what is bound to a node fits
\* on it and that what the pass holds is true of when it was listed.
THEOREM PlacementInvariance == Spec => []PlacementInv
<1>1. Init => PlacementInv
  BY PlacementInit
<1>2. PlacementInv /\ [Next]_vars => PlacementInv'
  <2> SUFFICES ASSUME PlacementInv, [Next]_vars PROVE PlacementInv'
    OBVIOUS
  <2> QED
    BY TypesNext, TodoNext, ListedNext, CapacityNext, PlanNext DEF PlacementInv
<1> QED
  BY <1>1, <1>2, PTL DEF Spec

\* Every variable has its type, capacities are those of the hardware or of its
\* replicas, and a listing counts no more than a node has.
THEOREM TypeCorrect == Spec => []TypeOK
BY PlacementInvariance, TypeHolds, PTL

-----------------------------------------------------------------------------
(* Admission.                                                              *)

\* Calling the webhook again with a pod it converted changes nothing but the time
\* it notes on the pod, at whatever times it is called.
THEOREM AdmissionIsIdempotent == Spec => []AdmittedOnce
<1>1. PlacementInv => AdmittedOnce
  <2> SUFFICES ASSUME PlacementInv, NEW p \in DOMAIN pods, NEW time \in Times,
                      "optimized" \in DOMAIN pods[p].spec.annotations
               PROVE  Handle(pods[p].spec, time)
                        \in {pods[p].spec, Annotated(pods[p].spec, [timestamp |-> time])}
    BY Zenon DEF AdmittedOnce
  <2>1. p \in Pod /\ \E pod \in Submitted[p] : pods[p].spec \in AsAdmitted(pod)
    BY DEF PlacementInv, CameInv, PodsTyped
  <2>2. PICK pod \in Submitted[p] : pods[p].spec \in AsAdmitted(pod)
    BY <2>1
  <2>3. IsSubmitted(pod)
    BY <2>1, <2>2, PlacementAssumption
  <2> QED
    BY <2>2, <2>3, HandleAgain
<1> QED
  BY <1>1, PlacementInvariance, PTL

\* A pod converted to MIG got a profile that has the compute units it asked for,
\* the memory but for less than an MB, and no more units than another of its card
\* that has what was asked for.
THEOREM ProfilesFit == Spec => []ProfileFits
<1>1. ASSUME PlacementInv, NEW p \in DOMAIN pods, Annotation(pods[p].spec, "strategy") = "mig"
      PROVE  LET spec == pods[p].spec
                 gpus == spec.annotations.original
                 memory == GetTotalMemoryRequest(spec) IN
             \E i \in DOMAIN SupportedProfiles :
               LET chosen == SupportedProfiles[i] IN
               /\ chosen.name = spec.annotations.profile
               /\ chosen.compute >= gpus /\ memory - chosen.memory * MB < MB
               /\ \A j \in DOMAIN SupportedProfiles :
                    LET other == SupportedProfiles[j] IN
                    other.compute >= gpus /\ other.memory * MB >= memory
                      /\ other.card = chosen.card
                      => other.compute >= chosen.compute
  <2> DEFINE spec == pods[p].spec
  <2>1. PICK pod \in Submitted[p] : spec \in AsAdmitted(pod)
    BY <1>1 DEF PlacementInv, CameInv
  <2>2. IsSubmitted(pod)
    BY <1>1, <2>1, PlacementAssumption DEF PlacementInv, PodsTyped
  <2> DEFINE gpus == GetTotalGPURequest(pod)
             memory == GetTotalMemoryRequest(pod)
             i == GetMIGProfile(gpus, memory)
             chosen == SupportedProfiles[i]
  <2>3. /\ i \in 1..10
        /\ spec.annotations.profile = SupportedProfiles[i].name
        /\ spec.annotations.original = gpus /\ GetTotalMemoryRequest(spec) = memory
        /\ gpus \in Nat /\ memory \in Nat
    BY <1>1, <2>1, <2>2, ProfileOfHandled
  <2>4. /\ Satisfies(chosen, gpus, memory)
        /\ \A j \in DOMAIN SupportedProfiles :
             Satisfies(SupportedProfiles[j], gpus, memory) => i <= j
    <3>1. i # 0
      BY <2>3
    <3> QED
      BY <2>3, <3>1, ProfileFound
  <2> HIDE DEF i, gpus, memory, spec
  <2>5. chosen.compute >= gpus /\ memory - chosen.memory * MB < MB
    <3>1. chosen.memory \in Nat
      BY <2>3, ProfilesOrdered
    <3>2. chosen.compute >= gpus /\ chosen.memory >= memory \div MB
      BY <2>4 DEF Satisfies
    <3> HIDE DEF chosen
    <3> QED
      BY <2>3, <3>1, <3>2, RoundedDown
  <2>6. ASSUME NEW j \in DOMAIN SupportedProfiles,
               SupportedProfiles[j].compute >= gpus, SupportedProfiles[j].memory * MB >= memory,
               SupportedProfiles[j].card = chosen.card
        PROVE  SupportedProfiles[j].compute >= chosen.compute
    <3> DEFINE other == SupportedProfiles[j]
    <3>1. j \in 1..10 /\ other.memory \in Nat
      BY ProfilesOrdered
    <3>2. other.memory >= memory \div MB
      <4> HIDE DEF other
      <4>1. other.memory * MB >= memory
        BY <2>6 DEF other
      <4> QED
        BY <2>3, <3>1, <4>1, RoundedDown
    <3>3. i <= j
      BY <2>4, <2>6, <3>2 DEF Satisfies
    <3> QED
      BY <2>3, <2>6, <3>1, <3>3, ProfilesOrdered
  <2>7. i \in DOMAIN SupportedProfiles
    BY <2>3, ProfilesOrdered
  <2> QED
    BY <2>3, <2>5, <2>6, <2>7 DEF spec
<1>2. PlacementInv => ProfileFits
  BY <1>1 DEF ProfileFits
<1> QED
  BY <1>2, PlacementInvariance, PTL

-----------------------------------------------------------------------------
(* Advice.                                                                 *)

\* A pod that asks for all GPUs of its node is alone in what the node shows.
LEMMA OnlyItsOwn ==
  ASSUME PlacementInv, NEW p \in DOMAIN pods, pods[p].phase = "Running",
         nodes[pods[p].node].capacity <= Request(p),
         NEW use \in Samples(pods[p].node)
  PROVE  use = Usage[p]
<1> DEFINE n == pods[p].node
           all == PodsOn(n, {"Pending", "Running"})
           running == GPUPodsOn(n, {"Running"})
           c == nodes[n].capacity
           mine == Request(p)
<1>0. /\ PodsTyped /\ NodesTyped /\ CameInv /\ n \in Node /\ c \in Nat
      /\ Asked(pods, all) <= c
  BY RequestsAsked DEF PlacementInv, PodsTyped, NodesTyped, NodeRecords, CapacityInv
<1>1. \A q \in DOMAIN pods : Request(q) \in Nat
  BY <1>0, SpecIsPod, TotalTyped DEF Request, GetTotalGPURequest, PodsTyped
<1>2. all \subseteq DOMAIN pods /\ p \in all /\ ArePods(pods, all)
  BY <1>0, SomePods DEF PodsOn
<1>3. ASSUME NEW q \in all, q # p PROVE Request(q) = 0
  <2> DEFINE other == Request(q)
             pair == {q} \cup {p}
  <2>1. pair \subseteq all /\ ArePods(pods, pair) /\ ArePods(pods, {q})
    BY <1>0, <1>2, <1>3, SomePods
  <2>2. Asked(pods, pair) = Asked(pods, {q}) + mine
    BY <1>3, <2>1, AskedOne DEF Request
  <2>3. Asked(pods, {q}) = other
    <3>1. ArePods(pods, {} \cup {q})
      <4>1. {} \cup {q} = {q}
        OBVIOUS
      <4> QED
        BY <2>1, <4>1
    <3>2. Asked(pods, {} \cup {q}) = Asked(pods, {}) + GetTotalGPURequest(pods[q].spec)
      BY <3>1, AskedOne
    <3>3. Asked(pods, {}) = 0
      BY AskedNone
    <3>4. {} \cup {q} = {q}
      OBVIOUS
    <3>5. Request(q) \in Nat
      BY <1>1, <1>2
    <3> QED
      BY <3>2, <3>3, <3>4, <3>5 DEF Request
  <2>4. Asked(pods, pair) <= Asked(pods, all)
    BY <1>2, <2>1, AskedSubset
  <2>5. mine \in Nat /\ other \in Nat /\ Asked(pods, all) \in Nat
    BY <1>1, <1>2, AskedNat
  <2> HIDE DEF pair, mine, other, all, c
  <2>6. other + mine <= Asked(pods, all)
    BY <2>2, <2>3, <2>4, <2>5
  <2>7. c <= mine
    BY DEF c, mine
  <2>8. other = 0
    BY <1>0, <2>5, <2>6, <2>7
  <2> QED
    BY <2>8 DEF other
<1>4. running \subseteq all
  BY DEF GPUPodsOn, PodsOn
<1>5. CASE use \in {Usage[q] : q \in {q \in running : Request(q) > 0}}
  BY <1>3, <1>4, <1>5
<1>6. CASE Requests(running) < c
  <2>1. CASE p \in running
    <3>1. ArePods(pods, running) /\ ArePods(pods, {p}) /\ {p} \subseteq running
      BY <1>0, <1>2, <1>4, <2>1, SomePods
    <3>2. Asked(pods, {p}) <= Asked(pods, running)
      BY <3>1, AskedSubset
    <3>3. ArePods(pods, {} \cup {p}) /\ {} \cup {p} = {p}
      <4>1. {} \cup {p} = {p}
        OBVIOUS
      <4> QED
        BY <3>1, <4>1
    <3>4. Asked(pods, {} \cup {p}) = Asked(pods, {}) + GetTotalGPURequest(pods[p].spec)
      BY <3>3, AskedOne
    <3>5. Asked(pods, {p}) = mine
      BY <1>1, <3>3, <3>4, AskedNone DEF Request
    <3>6. Asked(pods, running) \in Nat /\ mine \in Nat
      BY <1>1, <3>1, AskedNat
    <3>7. Asked(pods, running) < c
      BY <1>6, RequestsAsked
    <3> HIDE DEF mine, running, c
    <3>8. c <= mine
      BY DEF c, mine
    <3> QED
      BY <1>0, <3>2, <3>5, <3>6, <3>7, <3>8
  <2>2. CASE p \notin running
    <3>1. ~HasGPURequest(pods[p].spec)
      BY <2>2 DEF GPUPodsOn, PodsOn
    <3>2. mine = 0
      <4> DEFINE pod == pods[p].spec
                 F == [i \in DOMAIN pod.containers |->
                        IF "gpu" \in DOMAIN pod.containers[i] THEN pod.containers[i]["gpu"] ELSE 0]
      <4>1. \A i \in DOMAIN pod.containers : F[i] = 0
        BY <3>1 DEF HasGPURequest, RequestsGPU
      <4>2. IsPod(pod)
        BY <1>0, SpecIsPod DEF PodsTyped
      <4>3. mine = SumFunctionOnSet(F, DOMAIN F) /\ DOMAIN F = DOMAIN pod.containers
        BY DEF Request, GetTotalGPURequest, TotalRequest, SumFunction
      <4>4. IsFiniteSet(DOMAIN pod.containers)
        BY <4>2 DEF IsPod
      <4> HIDE DEF F, pod, mine
      <4> QED
        BY <4>1, <4>3, <4>4, SumZero
    <3>3. ArePods(pods, running)
      BY <1>0, <1>2, <1>4, SomePods
    <3>4. Asked(pods, running) \in Nat /\ Asked(pods, running) < c
      BY <1>6, <3>3, AskedNat, RequestsAsked
    <3> HIDE DEF mine, c, running
    <3>5. c <= mine
      BY DEF c, mine
    <3> QED
      BY <1>0, <3>2, <3>4, <3>5
  <2> QED
    BY <2>1, <2>2
<1>7. use \in {Usage[q] : q \in {q \in running : Request(q) > 0}} \/ Requests(running) < c
  BY DEF Samples
<1> QED
  BY <1>5, <1>6, <1>7

\* A score above the threshold, read from what the pod itself uses.
LEMMA OwnScore ==
  ASSUME NEW use \in [gpu : 0..100, memory : 0..100], NEW waste \in MemoryRead(use),
         CalculateWasteScore(waste) > 500
  PROVE  CalculateWasteScore(use) > 500 \/ use.gpu < 84
<1>1. waste = use \/ (waste.gpu = use.gpu /\ waste.memory = 0)
  BY DEF MemoryRead
<1>2. CASE waste = use
  BY <1>2
<1>3. CASE waste.gpu = use.gpu /\ waste.memory = 0
  <2>1. use.gpu \in 0..100
    OBVIOUS
  <2> DEFINE g == use.gpu
             m == waste.memory
  <2>2. (6 * (100 - g)) + (4 * (100 - m)) > 500 /\ m = 0 /\ g \in Int
    BY <1>3, <2>1 DEF CalculateWasteScore
  <2> HIDE DEF g, m
  <2>3. 4 * (100 - m) = 400
    BY <2>2
  <2>4. g < 84
    BY <2>2, <2>3
  <2> QED
    BY <2>4 DEF g
<1> QED
  BY <1>1, <1>2, <1>3

\* A pod that wastes nothing of its own is advised to share only where its node
\* shows GPUs it does not hold, or where its memory was not read.
THEOREM AdviceAlwaysEarned == Spec => AdviceIsEarned
<1> DEFINE Earned(p) == \/ CalculateWasteScore(Usage[p]) > 500
                        \/ Usage[p].gpu < 84
                        \/ Request(p) < nodes[pods[p].node].capacity
           A == \A advice \in advised' \ advised : Earned(advice.pod)
<1>1. ASSUME PlacementInv, NEW p \in DOMAIN pods, MayAdvise(p),
             NEW waste \in GetWasteMetrics(p), CalculateWasteScore(waste) > 500
      PROVE  Earned(p)
  <2>0. PICK n \in Node : p \in PodForGPU(n) /\ \E use \in Samples(n) : waste \in MemoryRead(use)
    BY <1>1 DEF GetWasteMetrics, WasteOn
  <2>1. PICK use \in Samples(n) : p \in PodForGPU(n) /\ waste \in MemoryRead(use)
    BY <2>0
  <2>2. pods[p].node = n /\ pods[p].phase = "Running"
    BY <1>1, <2>1 DEF PodForGPU, GPUPodsOn, PodsOn, MayAdvise
  <2>3. /\ p \in Pod /\ nodes[n].capacity \in Nat /\ Request(p) \in Nat
        /\ Usage[p] \in [gpu : 0..100, memory : 0..100]
    BY <1>1, SpecIsPod, TotalTyped, PlacementAssumption
       DEF PlacementInv, PodsTyped, NodesTyped, NodeRecords, Request, GetTotalGPURequest
  <2>4. CASE Request(p) < nodes[n].capacity
    BY <2>2, <2>4
  <2>5. CASE nodes[n].capacity <= Request(p)
    <3>1. use = Usage[p]
      BY <1>1, <2>1, <2>2, <2>5, OnlyItsOwn
    <3> QED
      BY <1>1, <2>1, <2>3, <3>1, OwnScore
  <2> QED
    BY <2>3, <2>4, <2>5
<1>2. PlacementInv /\ [Next]_vars => [A]_vars
  <2> SUFFICES ASSUME PlacementInv, [Next]_vars, NEW advice \in advised' \ advised
               PROVE  Earned(advice.pod)
    OBVIOUS
  <2> HIDE DEF Earned
  <2>1. PICK p \in DOMAIN pods : Reconcile(p)
    <3>1. advised' # advised
      OBVIOUS
    <3>2. Next
      BY <3>1 DEF vars
    <3>3. ASSUME NEW p \in DOMAIN pods, Progress(p) PROVE advised' = advised
      BY <3>3 DEF Progress, Start, Age, Finish, Bind, SetPod
    <3>4. ASSUME NEW n \in Node, Prepare(n) PROVE advised' = advised
      BY <3>4 DEF Prepare, AdvertiseReplicas, EnableMPSOnNode, EnableTimeSlicingOnNode,
                  ApplyMIGConfiguration, SetNode
    <3> QED
      BY <3>1, <3>2, <3>3, <3>4
         DEF Next, RunBinPackingAnalysis, Admit, ListNodes, ListNodePods, ListFails, PackPending
  <2>2. PICK waste \in GetWasteMetrics(p) :
          /\ CalculateWasteScore(waste) > 500
          /\ advised' = {[pod |-> p, what |-> GenerateRecommendation(waste)]}
    BY <2>1 DEF Reconcile
  <2>3. MayAdvise(p)
    BY <2>1 DEF Reconcile
  <2>4. advice.pod = p
    BY <2>2
  <2> QED
    BY <1>1, <2>2, <2>3, <2>4
<1> QED
  BY <1>2, PlacementInvariance, PTL DEF Spec, AdviceIsEarned

-----------------------------------------------------------------------------
(* Packing.                                                                *)

\* The first of some positions is one of them.
LEMMA MinIs ==
  ASSUME NEW I, NEW n \in Nat, I \subseteq 1..n, I # {}
  PROVE  Min(I) \in I
BY SmallestOf DEF Min

\* Of positions with a bounded number each, one has the least and one the most.
LEMMA LeastOf ==
  ASSUME NEW I, I # {}, NEW f, NEW b \in Nat, \A i \in I : f[i] \in Int /\ 0 <= f[i] /\ f[i] < b
  PROVE  /\ \E i \in I : \A j \in I : f[i] <= f[j]
         /\ \E i \in I : \A j \in I : f[i] >= f[j]
<1>1. \E i \in I : \A j \in I : f[i] <= f[j]
  <2> DEFINE V == {f[i] + 1 : i \in I}
  <2>1. V \subseteq 1..b /\ V # {}
    OBVIOUS
  <2>2. PICK v \in V : \A u \in V : v <= u
    <3> HIDE DEF V
    <3> QED
      BY <2>1, SmallestOf
  <2>3. PICK i \in I : v = f[i] + 1
    OBVIOUS
  <2>4. \A j \in I : f[i] + 1 <= f[j] + 1
    BY <2>2, <2>3
  <2> QED
    BY <2>4
<1>2. \E i \in I : \A j \in I : f[i] >= f[j]
  <2> DEFINE V == {b - f[i] : i \in I}
  <2>1. V \subseteq 1..b /\ V # {}
    OBVIOUS
  <2>2. PICK v \in V : \A u \in V : v <= u
    <3> HIDE DEF V
    <3> QED
      BY <2>1, SmallestOf
  <2>3. PICK i \in I : v = b - f[i]
    OBVIOUS
  <2>4. \A j \in I : b - f[i] <= b - f[j]
    BY <2>2, <2>3
  <2> QED
    BY <2>4
<1> QED
  BY <1>1, <1>2

\* A node that is chosen has room.
LEMMA SelectedFits ==
  ASSUME NEW strategy, NEW ns, NEW n \in Nat, DOMAIN ns = 1..n, NEW w,
         SelectNode(strategy, ns, w) # {}
  PROVE  \E i \in CanFit(ns, w) : SelectNode(strategy, ns, w) = {i}
<1> DEFINE C == CanFit(ns, w)
<1>1. C \subseteq 1..n /\ C # {}
  <2>1. C \subseteq 1..n
    BY DEF CanFit
  <2>2. ASSUME C = {} PROVE SelectNode(strategy, ns, w) = {}
    BY <2>2 DEF SelectNode
  <2> QED
    BY <2>1, <2>2
<1>2. CASE strategy = "firstfit"
  <2>1. SelectNode(strategy, ns, w) = {Min(C)}
    BY <1>1, <1>2 DEF SelectNode
  <2> HIDE DEF C
  <2>2. Min(C) \in C
    BY <1>1, MinIs
  <2> QED
    BY <2>1, <2>2 DEF C
<1>3. CASE strategy = "worstfit"
  <2> DEFINE W == {i \in C : ns[i].free > 0 /\ \A j \in C : ns[i].free >= ns[j].free}
  <2>1. SelectNode(strategy, ns, w) = IF W = {} THEN {} ELSE {Min(W)}
    BY SMTT(30), <1>1, <1>3 DEF SelectNode, WorstFitNode
  <2>2. W \subseteq C /\ W \subseteq 1..n
    BY <1>1
  <2> HIDE DEF C, W
  <2>3. W # {} /\ SelectNode(strategy, ns, w) = {Min(W)}
    BY <2>1
  <2>4. Min(W) \in W
    BY <2>2, <2>3, MinIs
  <2> QED
    BY <2>2, <2>3, <2>4 DEF C
<1>4. CASE strategy \notin {"firstfit", "worstfit"}
  <2> DEFINE B == {i \in C : ns[i].free - w.request < MaxWaste
                             /\ \A j \in C : ns[i].free - w.request <= ns[j].free - w.request}
  <2>1. SelectNode(strategy, ns, w) = IF B = {} THEN {} ELSE {Min(B)}
    BY SMTT(30), <1>1, <1>4 DEF SelectNode, BestFitNode
  <2>2. B \subseteq C /\ B \subseteq 1..n
    BY <1>1
  <2> HIDE DEF C, B
  <2>3. B # {} /\ SelectNode(strategy, ns, w) = {Min(B)}
    BY <2>1
  <2>4. Min(B) \in B
    BY <2>2, <2>3, MinIs
  <2> QED
    BY <2>2, <2>3, <2>4 DEF C
<1> QED
  BY <1>2, <1>3, <1>4

\* A workload that asks for something is refused only where no node has room.
LEMMA RefusedEverywhere ==
  ASSUME NEW strategy, NEW ns, NEW n \in Nat, DOMAIN ns = 1..n, NEW w,
         w.request \in Nat, w.request > 0,
         \A i \in DOMAIN ns : ns[i].free \in Int /\ ns[i].free < MaxWaste,
         SelectNode(strategy, ns, w) = {}
  PROVE  \A i \in DOMAIN ns : ns[i].free < w.request
<1> DEFINE C == CanFit(ns, w)
           r == w.request
           free == [i \in DOMAIN ns |-> ns[i].free]
           waste == [i \in DOMAIN ns |-> ns[i].free - w.request]
<1> SUFFICES ASSUME C # {} PROVE FALSE
  BY DEF CanFit
<1>1. /\ C \subseteq 1..n /\ C \subseteq DOMAIN ns /\ r \in Nat /\ r > 0
      /\ \A i \in C : free[i] \in Int /\ free[i] >= r /\ free[i] < MaxWaste
      /\ \A i \in C : waste[i] = free[i] - r
  BY DEF CanFit
<1>2. CASE strategy = "firstfit"
  BY SMTT(30), <1>2 DEF SelectNode
<1>3. CASE strategy = "worstfit"
  <2> DEFINE W == {i \in C : ns[i].free > 0 /\ \A j \in C : ns[i].free >= ns[j].free}
  <2>1. SelectNode(strategy, ns, w) = IF W = {} THEN {} ELSE {Min(W)}
    BY SMTT(30), <1>3 DEF SelectNode, WorstFitNode
  <2>2. W = {}
    BY <2>1
  <2>3. W = {i \in C : free[i] > 0 /\ \A j \in C : free[i] >= free[j]}
    BY <1>1
  <2> HIDE DEF C, W, free, waste, r
  <2>4. \A i \in C : free[i] \in Int /\ 0 <= free[i] /\ free[i] < MaxWaste
    BY <1>1
  <2>5. \E i \in C : \A j \in C : free[i] >= free[j]
    BY <2>4, LeastOf DEF MaxWaste
  <2> QED
    BY <1>1, <2>2, <2>3, <2>5
<1>4. CASE strategy \notin {"firstfit", "worstfit"}
  <2> DEFINE B == {i \in C : ns[i].free - w.request < MaxWaste
                             /\ \A j \in C : ns[i].free - w.request <= ns[j].free - w.request}
  <2>1. SelectNode(strategy, ns, w) = IF B = {} THEN {} ELSE {Min(B)}
    BY SMTT(30), <1>4 DEF SelectNode, BestFitNode
  <2>2. B = {}
    BY <2>1
  <2>3. B = {i \in C : waste[i] < MaxWaste /\ \A j \in C : waste[i] <= waste[j]}
    BY <1>1
  <2> HIDE DEF C, B, free, waste, r
  <2>4. \A i \in C : waste[i] \in Int /\ 0 <= waste[i] /\ waste[i] < MaxWaste
    BY <1>1 DEF MaxWaste
  <2>5. \E i \in C : \A j \in C : waste[i] <= waste[j]
    <3>1. C # {} /\ MaxWaste \in Nat
      BY DEF MaxWaste
    <3> HIDE DEF MaxWaste
    <3> QED
      BY <2>4, <3>1, LeastOf
  <2> QED
    BY <2>2, <2>3, <2>4, <2>5
<1> QED
  BY <1>2, <1>3, <1>4

\* What the first k workloads of an order make.
Packs(g, strategy, ns, order, D) ==
  g = [k \in D |-> IF k = 0 THEN [nodes |-> ns, placements |-> <<>>, consolidated |-> 0]
                   ELSE Placed(strategy, g[k - 1], order[k])]

\* The recursive function behind a packing exists, by induction on its length.
LEMMA PacksExist ==
  ASSUME NEW strategy, NEW ns, NEW order
  PROVE  \A n \in Nat : \E g : Packs(g, strategy, ns, order, 0..n)
<1> DEFINE start == [nodes |-> ns, placements |-> <<>>, consolidated |-> 0]
           C == {n \in Nat : \E g : Packs(g, strategy, ns, order, 0..n)}
<1>1. 0 \in C
  <2> DEFINE g == [k \in 0..0 |-> start]
  <2>1. g = [k \in 0..0 |-> IF k = 0 THEN start ELSE Placed(strategy, g[k - 1], order[k])]
    <3>1. \A k \in 0..0 : k = 0
      OBVIOUS
    <3> QED
      BY <3>1
  <2> HIDE DEF g
  <2>2. Packs(g, strategy, ns, order, 0..0)
    BY <2>1 DEF Packs
  <2> QED
    BY <2>2
<1>2. ASSUME NEW n \in Nat, n \in C PROVE n + 1 \in C
  <2>1. PICK g : Packs(g, strategy, ns, order, 0..n)
    BY <1>2
  <2> DEFINE step(f, k) == IF k = 0 THEN start ELSE Placed(strategy, f[k - 1], order[k])
             h == [k \in 0..(n + 1) |-> step(g, k)]
  <2>2. \A k \in 0..n : k \in 0..(n + 1) /\ h[k] = g[k]
    BY <2>1 DEF Packs
  <2>3. \A k \in 0..(n + 1) : k = 0 \/ k - 1 \in 0..n
    OBVIOUS
  <2>4. \A k \in 0..(n + 1) : step(g, k) = step(h, k)
    <3> HIDE DEF h, start
    <3> QED
      BY <2>2, <2>3
  <2>5. h = [k \in 0..(n + 1) |-> step(h, k)]
    BY <2>4
  <2>6. Packs(h, strategy, ns, order, 0..(n + 1))
    <3> HIDE DEF h
    <3> QED
      BY <2>5 DEF Packs
  <2> HIDE DEF h
  <2> QED
    BY <2>6
<1>3. \A n \in Nat : n \in C
  <2> HIDE DEF C
  <2> QED
    BY <1>1, <1>2, NatSetInduction
<1> QED
  BY <1>3

\* A packing is the last of the steps of one such function.
LEMMA PackingUnfolds ==
  ASSUME NEW strategy, NEW ns, NEW order, Len(order) \in Nat
  PROVE  \E g :
           /\ Packing(strategy, ns, order) = g[Len(order)]
           /\ g[0] = [nodes |-> ns, placements |-> <<>>, consolidated |-> 0]
           /\ \A k \in 1..Len(order) : g[k] = Placed(strategy, g[k - 1], order[k])
<1> DEFINE g == CHOOSE g : Packs(g, strategy, ns, order, 0..Len(order))
<1>1. Packing(strategy, ns, order) = g[Len(order)]
  BY DEF Packing, Packs
<1>2. Packs(g, strategy, ns, order, 0..Len(order))
  BY PacksExist
<1> HIDE DEF g
<1>3. g[0] = [nodes |-> ns, placements |-> <<>>, consolidated |-> 0]
  BY <1>2 DEF Packs
<1>4. \A k \in 1..Len(order) : g[k] = Placed(strategy, g[k - 1], order[k])
  BY <1>2 DEF Packs
<1> QED
  BY <1>1, <1>3, <1>4

\* An order has every pending pod once.
LEMMA OrderOf ==
  ASSUME PodsTyped, CameInv, NEW order \in SortedWorkloads(PendingGPUWorkloads)
  PROVE  /\ Len(order) \in Nat /\ DOMAIN order = 1..Len(order)
         /\ \A k \in DOMAIN order :
              /\ order[k] \in PendingGPUWorkloads
              /\ order[k].pod \in DOMAIN pods /\ pods[order[k].pod].phase = "Pending"
              /\ order[k].request = Request(order[k].pod) /\ order[k].request \in Nat
              /\ order[k].priority \in Int
         /\ \A j, k \in DOMAIN order : order[j].pod = order[k].pod => j = k
         /\ \A w \in PendingGPUWorkloads : \E k \in DOMAIN order : order[k] = w
         /\ \A j, k \in DOMAIN order : GoesBefore(order[j], order[k]) => j < k
<1> DEFINE W == PendingGPUWorkloads
           n == Cardinality(W)
           P == {p \in DOMAIN pods : pods[p].phase = "Pending" /\ HasGPURequest(pods[p].spec)}
           workload == [p \in P |-> [pod |-> p, request |-> Request(p), priority |-> pods[p].spec.priority]]
<1>1. IsFiniteSet(W) /\ n \in Nat
  <2>1. IsFiniteSet(P)
    BY FS_Subset DEF CameInv
  <2>2. workload \in Surjection(P, W)
    BY DEF Surjection, PendingGPUWorkloads
  <2> HIDE DEF W, P, workload
  <2>3. IsFiniteSet(W)
    BY <2>1, <2>2, FS_Surjection
  <2> QED
    BY <2>3, FS_CardinalityType
<1>2. order \in [1..n -> W] /\ \A i, j \in 1..n : i # j => order[i] # order[j]
  BY DEF SortedWorkloads, SetToSeqs
<1>3. order \in Injection(1..n, W)
  <2> HIDE DEF W, n
  <2> QED
    BY <1>2 DEF Injection, IsInjective
<1>4. Len(order) = n /\ DOMAIN order = 1..n
  <2> HIDE DEF W, n
  <2>1. order \in Seq(W)
    BY <1>1, <1>2, SeqDef
  <2>2. DOMAIN order = 1..Len(order) /\ Len(order) \in Nat /\ DOMAIN order = 1..n
    BY <1>2, <2>1
  <2>3. n <= Len(order)
    <3>1. n = 0 \/ n \in 1..n
      BY <1>1
    <3> QED
      BY <1>1, <2>2, <3>1
  <2>4. Len(order) <= n
    <3>1. Len(order) = 0 \/ Len(order) \in 1..Len(order)
      BY <2>2
    <3> QED
      BY <1>1, <2>2, <3>1
  <2>5. Len(order) \in Nat
    BY <2>2
  <2>6. Len(order) = n
    BY <1>1, <2>3, <2>4, <2>5
  <2> QED
    BY <2>2, <2>6, Zenon
<1>5. \A w \in W : \E k \in 1..n : order[k] = w
  <2> HIDE DEF W, n
  <2>1. IsFiniteSet(1..n) /\ Cardinality(1..n) = n
    <3>2. IsFiniteSet(1..n) /\ Cardinality(1..n) = IF 1 > n THEN 0 ELSE n - 1 + 1
      BY <1>1, FS_Interval
    <3> QED
      BY <1>1, <3>2
  <2>2. order \in Surjection(1..n, W)
    BY <1>1, <1>3, <2>1, FS_Injection DEF n
  <2> QED
    BY <2>2 DEF Surjection
<1>6. \A w \in W : /\ w.pod \in DOMAIN pods /\ pods[w.pod].phase = "Pending"
                   /\ w.request = Request(w.pod) /\ w.request \in Nat
                   /\ w.priority \in Int
                   /\ w = [pod |-> w.pod, request |-> Request(w.pod), priority |-> pods[w.pod].spec.priority]
  <2>1. \A p \in DOMAIN pods : Request(p) \in Nat /\ pods[p].spec.priority \in Int
    BY SpecIsPod, TotalTyped DEF Request, GetTotalGPURequest, PodsTyped, IsPod
  <2> QED
    BY <2>1 DEF PendingGPUWorkloads
<1>7. \A j, k \in 1..n : order[j].pod = order[k].pod => j = k
  <2> TAKE j, k \in 1..n
  <2> HIDE DEF W, n
  <2>1. order[j] \in W /\ order[k] \in W
    BY <1>2
  <2>2. order[j].pod = order[k].pod => order[j] = order[k]
    BY <1>6, <2>1
  <2> QED
    BY <1>2, <2>2
<1>8. \A j, k \in DOMAIN order : GoesBefore(order[j], order[k]) => j < k
  BY DEF SortedWorkloads
<1> QED
  BY <1>1, <1>2, <1>4, <1>5, <1>6, <1>7, <1>8

\* The pods added to the i-th node of the listing.
Added(ns, i) == ns[i].pods \ listed[i].pods

\* After the first k workloads of an order: a node has lost what the pods added
\* to it ask for, and has it.
Room(ns, order, k) ==
  /\ DOMAIN ns = DOMAIN listed
  /\ \A i \in DOMAIN listed :
       /\ ns[i] \in ListedNodes
       /\ listed[i].pods \subseteq ns[i].pods
       /\ \A p \in Added(ns, i) : \E m \in 1..k : p = order[m].pod
       /\ ns[i].free = listed[i].free - Requests(Added(ns, i))
       /\ Added(ns, i) = {} \/ ns[i].free >= 0

\* Nothing is added to the listing at first.
LEMMA RoomInit ==
  ASSUME PodsTyped, CameInv, ListedInv, NEW order
  PROVE  Room(listed, order, 0)
<1> SUFFICES ASSUME NEW i \in DOMAIN listed
             PROVE  /\ listed[i] \in ListedNodes
                    /\ Added(listed, i) = {}
                    /\ listed[i].free = listed[i].free - Requests(Added(listed, i))
  BY DEF Room
<1>1. listed \in Seq(ListedNodes)
  BY DEF ListedInv, ListedNodes
<1>2. listed[i] \in ListedNodes
  BY <1>1, ElementOf
<1>3. Added(listed, i) = {}
  BY DEF Added
<1>4. Requests(Added(listed, i)) = 0
  BY <1>3, RequestsAsked, AskedNone
<1>5. listed[i].free \in Int
  BY ListedTyped
<1> QED
  BY <1>2, <1>3, <1>4, <1>5

\* The next workload of an order finds room or is left out.
LEMMA RoomNext ==
  ASSUME PodsTyped, CameInv, ListedInv, NEW order \in SortedWorkloads(PendingGPUWorkloads),
         NEW k \in DOMAIN order, NEW strategy, NEW q, Room(q.nodes, order, k - 1)
  PROVE  LET r == Placed(strategy, q, order[k]) IN
         /\ Room(r.nodes, order, k)
         /\ \A i \in DOMAIN listed : q.nodes[i].pods \subseteq r.nodes[i].pods
         /\ SelectNode(strategy, q.nodes, order[k]) # {}
              => \E i \in DOMAIN listed : order[k].pod \in r.nodes[i].pods
<1> DEFINE w == order[k]
           ns == q.nodes
           chosen == SelectNode(strategy, ns, w)
           r == Placed(strategy, q, w)
<1>o. /\ Len(order) \in Nat /\ DOMAIN order = 1..Len(order)
      /\ \A j \in DOMAIN order :
           /\ order[j].pod \in DOMAIN pods /\ pods[order[j].pod].phase = "Pending"
           /\ order[j].request = Request(order[j].pod) /\ order[j].request \in Nat
      /\ \A j, m \in DOMAIN order : order[j].pod = order[m].pod => j = m
  BY OrderOf
<1>k. k \in 1..Len(order) /\ k - 1 \in Nat /\ 1..(k - 1) \subseteq 1..k /\ k \in 1..k
  BY <1>o
<1>1. CASE chosen = {}
  <2>1. r = q
    BY <1>1 DEF Placed
  <2> HIDE DEF r
  <2>2. Room(q.nodes, order, k)
    <3>1. \A p : (\E m \in 1..(k - 1) : p = order[m].pod) => \E m \in 1..k : p = order[m].pod
      BY <1>k
    <3> QED
      BY <3>1 DEF Room
  <2> QED
    BY <1>1, <2>1, <2>2 DEF r
<1>2. CASE chosen # {}
  <2>1. PICK c \in CanFit(ns, w) : chosen = {c}
    <3>1. listed \in Seq(ListedNodes)
      BY DEF ListedInv, ListedNodes
    <3>2. Len(listed) \in Nat /\ DOMAIN ns = 1..Len(listed)
      BY <3>1, ElementOf DEF Room
    <3> QED
      BY <1>2, <3>2, SelectedFits
  <2>2. r.nodes = [ns EXCEPT ![c].free = @ - w.request, ![c].pods = @ \union {w.pod}]
    <3>1. (CHOOSE i \in chosen : TRUE) = c
      BY <2>1
    <3> HIDE DEF chosen
    <3> QED
      BY <1>2, <3>1 DEF Placed, chosen
  <2> DEFINE old == ns[c]
             new == [name |-> old.name, total |-> old.total, free |-> old.free - w.request,
                     pods |-> old.pods \cup {w.pod}]
  <2>3. /\ c \in DOMAIN listed /\ DOMAIN ns = DOMAIN listed
        /\ old \in ListedNodes /\ old.free \in Int /\ old.free >= w.request
    BY <2>1 DEF CanFit, Room, ListedNodes
  <2>4. /\ new \in ListedNodes /\ new.free = old.free - w.request
        /\ new.pods = old.pods \cup {w.pod}
    <3>1. w.pod \in Pod /\ w.request \in Nat
      BY <1>o DEF PodsTyped
    <3> HIDE DEF w
    <3> QED
      BY <2>3, <3>1 DEF ListedNodes
  <2>5. /\ DOMAIN r.nodes = DOMAIN listed
        /\ r.nodes[c] = new
        /\ \A i \in DOMAIN listed : i # c => r.nodes[i] = ns[i]
    <3> HIDE DEF r
    <3> QED
      BY <2>2, <2>3 DEF ListedNodes
  <2> HIDE DEF r, new
  <2>6. w.pod \notin listed[c].pods /\ w.pod \notin Added(ns, c)
    <3>1. w.pod \notin listed[c].pods
      BY <1>o, <2>3 DEF ListedInv
    <3>2. ASSUME NEW m \in 1..(k - 1) PROVE order[m].pod # w.pod
      <4>1. m \in DOMAIN order /\ m # k
        BY <1>o, <1>k
      <4> QED
        BY <1>o, <4>1
    <3> QED
      BY <2>3, <3>1, <3>2 DEF Room
  <2>7. Added(r.nodes, c) = Added(ns, c) \cup {w.pod}
    BY <2>4, <2>5, <2>6 DEF Added
  <2>8. r.nodes[c].free = listed[c].free - Requests(Added(r.nodes, c))
    <3> DEFINE A == Added(ns, c)
               a == Asked(pods, A)
               free == listed[c].free
               m == w.request
    <3>1. A \subseteq DOMAIN pods /\ w.pod \in DOMAIN pods
      <4>1. \A p \in A : \E j \in 1..(k - 1) : p = order[j].pod
        BY <2>3 DEF Room
      <4>2. 1..(k - 1) \subseteq DOMAIN order
        BY <1>o, <1>k
      <4> QED
        BY <1>o, <4>1, <4>2
    <3>2. ArePods(pods, A \cup {w.pod}) /\ ArePods(pods, A)
      BY <3>1, SomePods
    <3>3. a \in Nat /\ m \in Nat /\ free \in Int
      BY <1>o, <2>3, <3>2, AskedNat, ListedTyped
    <3>4. Asked(pods, A \cup {w.pod}) = a + m
      <4>1. m = GetTotalGPURequest(pods[w.pod].spec)
        BY <1>o DEF Request
      <4>2. Asked(pods, A \cup {w.pod}) = Asked(pods, A) + GetTotalGPURequest(pods[w.pod].spec)
        BY <2>6, <3>2, AskedOne
      <4> QED
        BY <4>1, <4>2
    <3>5. ns[c].free = free - a
      BY <2>3, RequestsAsked DEF Room
    <3>6. r.nodes[c].free = ns[c].free - m
      BY <2>4, <2>5
    <3>7. Requests(Added(r.nodes, c)) = a + m
      BY <2>7, <3>4, RequestsAsked
    <3> HIDE DEF A, a, free, m
    <3>8. r.nodes[c].free = free - (a + m)
      BY <3>3, <3>5, <3>6
    <3> QED
      BY <3>7, <3>8 DEF free
  <2>9. r.nodes[c].free >= 0
    BY <1>o, <2>3, <2>4, <2>5
  <2>10. \A p \in Added(r.nodes, c) : \E m \in 1..k : p = order[m].pod
    BY <1>k, <2>3, <2>7 DEF Room
  <2>11. /\ r.nodes[c] \in ListedNodes
         /\ ns[c].pods \subseteq r.nodes[c].pods
         /\ listed[c].pods \subseteq r.nodes[c].pods
    BY <2>3, <2>4, <2>5 DEF Room
  <2>12. Room(r.nodes, order, k)
    <3> SUFFICES ASSUME NEW i \in DOMAIN listed
                 PROVE  /\ r.nodes[i] \in ListedNodes
                        /\ listed[i].pods \subseteq r.nodes[i].pods
                        /\ \A p \in Added(r.nodes, i) : \E m \in 1..k : p = order[m].pod
                        /\ r.nodes[i].free = listed[i].free - Requests(Added(r.nodes, i))
                        /\ Added(r.nodes, i) = {} \/ r.nodes[i].free >= 0
      BY <2>5 DEF Room
    <3>1. CASE i = c
      BY <2>8, <2>9, <2>10, <2>11, <3>1
    <3>2. CASE i # c
      <4>1. r.nodes[i] = ns[i] /\ Added(r.nodes, i) = Added(ns, i)
        BY <2>5, <3>2 DEF Added
      <4>2. \A p \in Added(ns, i) : \E m \in 1..k : p = order[m].pod
        BY <1>k DEF Room
      <4>3. /\ ns[i] \in ListedNodes /\ listed[i].pods \subseteq ns[i].pods
            /\ ns[i].free = listed[i].free - Requests(Added(ns, i))
            /\ Added(ns, i) = {} \/ ns[i].free >= 0
        BY DEF Room
      <4> QED
        BY <4>1, <4>2, <4>3
    <3> QED
      BY <3>1, <3>2
  <2>13. \A i \in DOMAIN listed : ns[i].pods \subseteq r.nodes[i].pods
    BY <2>5, <2>11
  <2>14. w.pod \in r.nodes[c].pods
    BY <2>4, <2>5
  <2> QED
    BY <2>3, <2>12, <2>13, <2>14 DEF r
<1> QED
  BY <1>1, <1>2

\* The plan comes about one workload after the other, and keeps what it placed.
LEMMA PackRun ==
  ASSUME PlacementInv, pass = "done"
  PROVE  \E strategy \in Strategies, order \in SortedWorkloads(PendingGPUWorkloads) : \E g :
           /\ plan = g[Len(order)]
           /\ \A k \in DOMAIN order : g[k] = Placed(strategy, g[k - 1], order[k])
           /\ \A k \in 0..Len(order) :
                /\ Room(g[k].nodes, order, k)
                /\ \A j \in 0..k, i \in DOMAIN listed : g[j].nodes[i].pods \subseteq g[k].nodes[i].pods
<1>1. PICK strategy \in Strategies, order \in SortedWorkloads(PendingGPUWorkloads) :
        plan = Packing(strategy, listed, order)
  BY DEF PlacementInv, PlanInv
<1>2. PodsTyped /\ CameInv /\ ListedInv
  BY DEF PlacementInv
<1>3. Len(order) \in Nat /\ DOMAIN order = 1..Len(order)
  BY <1>2, OrderOf
<1>4. PICK g : /\ Packing(strategy, listed, order) = g[Len(order)]
               /\ g[0] = [nodes |-> listed, placements |-> <<>>, consolidated |-> 0]
               /\ \A k \in 1..Len(order) : g[k] = Placed(strategy, g[k - 1], order[k])
  BY <1>3, PackingUnfolds
<1> DEFINE Kept(k) ==
             /\ Room(g[k].nodes, order, k)
             /\ \A j \in 0..k, i \in DOMAIN listed : g[j].nodes[i].pods \subseteq g[k].nodes[i].pods
           C == {k \in Nat : k <= Len(order) => Kept(k)}
<1>5. 0 \in C
  <2>1. Room(g[0].nodes, order, 0)
    BY <1>2, <1>4, RoomInit
  <2>2. \A j \in 0..0 : j = 0
    OBVIOUS
  <2> QED
    BY <2>1, <2>2
<1>6. ASSUME NEW k \in Nat, k \in C PROVE k + 1 \in C
  <2> SUFFICES ASSUME k + 1 <= Len(order) PROVE Kept(k + 1)
    OBVIOUS
  <2>1. Kept(k) /\ k + 1 \in DOMAIN order /\ (k + 1) - 1 = k /\ k + 1 \in 1..Len(order)
    BY <1>3, <1>6
  <2>2. Room(g[(k + 1) - 1].nodes, order, (k + 1) - 1)
    BY <2>1
  <2>3. LET r == Placed(strategy, g[(k + 1) - 1], order[k + 1]) IN
        /\ Room(r.nodes, order, k + 1)
        /\ \A i \in DOMAIN listed : g[(k + 1) - 1].nodes[i].pods \subseteq r.nodes[i].pods
    BY <1>2, <2>1, <2>2, RoomNext
  <2>4. /\ Room(g[k + 1].nodes, order, k + 1)
        /\ \A i \in DOMAIN listed : g[k].nodes[i].pods \subseteq g[k + 1].nodes[i].pods
    BY <1>4, <2>1, <2>3
  <2>5. ASSUME NEW j \in 0..(k + 1), NEW i \in DOMAIN listed
        PROVE  g[j].nodes[i].pods \subseteq g[k + 1].nodes[i].pods
    <3>1. CASE j = k + 1
      BY <3>1
    <3>2. CASE j \in 0..k
      <4>1. g[j].nodes[i].pods \subseteq g[k].nodes[i].pods
        BY <2>1, <3>2
      <4>2. g[k].nodes[i].pods \subseteq g[k + 1].nodes[i].pods
        BY <2>4
      <4> QED
        BY <4>1, <4>2
    <3>3. j = k + 1 \/ j \in 0..k
      OBVIOUS
    <3> QED
      BY <3>1, <3>2, <3>3
  <2> QED
    BY <2>4, <2>5
<1>7. \A k \in Nat : k \in C
  <2> HIDE DEF C
  <2> QED
    BY <1>5, <1>6, NatSetInduction
<1>8. \A k \in 0..Len(order) : Kept(k)
  BY <1>3, <1>7
<1>9. plan = g[Len(order)] /\ \A k \in DOMAIN order : g[k] = Placed(strategy, g[k - 1], order[k])
  BY <1>1, <1>3, <1>4
<1> HIDE DEF C
<1>10. \A k \in 0..Len(order) :
         /\ Room(g[k].nodes, order, k)
         /\ \A j \in 0..k, i \in DOMAIN listed : g[j].nodes[i].pods \subseteq g[k].nodes[i].pods
  BY <1>8
<1> QED
  BY <1>9, <1>10

-----------------------------------------------------------------------------
(* The plan.                                                               *)

\* The pods bound to the i-th node of the listing.
Bound(i) == GPUPodsOn(listed[i].name, {"Pending", "Running"})

\* What is bound to a node is what the listing counts or what it does not.
LEMMA BoundSplits ==
  ASSUME PodsTyped, CameInv, ListedInv, NEW i \in DOMAIN listed
  PROVE  /\ Requests(Bound(i)) = Requests(Bound(i) \cap listed[i].pods) + Requests(Unseen(i))
         /\ Requests(Bound(i) \cap listed[i].pods) <= Requests(listed[i].pods)
         /\ Requests(Bound(i) \cap listed[i].pods) \in Nat /\ Requests(Unseen(i)) \in Nat
         /\ Requests(listed[i].pods) \in Nat /\ Requests(Bound(i)) \in Nat
<1> DEFINE B == Bound(i)
           L == listed[i].pods
           seen == B \cap L
           U == Unseen(i)
<1>1. B \subseteq DOMAIN pods /\ L \subseteq DOMAIN pods
  BY DEF Bound, GPUPodsOn, PodsOn, ListedInv
<1>2. seen \cup U = B /\ seen \cap U = {} /\ seen \subseteq L
  BY DEF Bound, Unseen
<1> HIDE DEF B, L, seen, U
<1>3. ArePods(pods, B) /\ ArePods(pods, L)
  BY <1>1, SomePods
<1>4. ArePods(pods, seen) /\ ArePods(pods, U) /\ ArePods(pods, seen \cup U)
  <2>1. seen \subseteq DOMAIN pods /\ U \subseteq DOMAIN pods /\ seen \cup U \subseteq DOMAIN pods
    BY <1>1, <1>2
  <2> QED
    BY <2>1, SomePods
<1>5. Asked(pods, seen \cup U) = Asked(pods, seen) + Asked(pods, U)
  BY <1>2, <1>4, AskedDisjoint
<1>6. Asked(pods, seen) <= Asked(pods, L)
  BY <1>2, <1>3, AskedSubset
<1>7. /\ Requests(B) = Requests(seen) + Requests(U) /\ Requests(seen) <= Requests(L)
      /\ Requests(seen) \in Nat /\ Requests(U) \in Nat /\ Requests(L) \in Nat /\ Requests(B) \in Nat
  BY <1>2, <1>3, <1>4, <1>5, <1>6, AskedNat, RequestsAsked
<1> QED
  BY <1>7 DEF B, L, seen, U

\* What is bound and what is planned fit together.
THEOREM PlanAlwaysFits == Spec => []PlanFits
<1>1. ASSUME PlacementInv, pass = "done", NEW i \in DOMAIN listed
      PROVE  Requests(Bound(i)) + Requests(Packed(i))
               <= nodes[listed[i].name].capacity + Requests(Unseen(i))
  <2>0. PICK strategy \in Strategies, order \in SortedWorkloads(PendingGPUWorkloads) :
          \E g : plan = g[Len(order)] /\ \A k \in 0..Len(order) : Room(g[k].nodes, order, k)
    BY <1>1, PackRun
  <2>1. PICK g : plan = g[Len(order)] /\ \A k \in 0..Len(order) : Room(g[k].nodes, order, k)
    BY <2>0
  <2>2. PodsTyped /\ CameInv /\ ListedInv /\ NodesTyped
    BY <1>1 DEF PlacementInv
  <2>3. /\ Len(order) \in Nat /\ DOMAIN order = 1..Len(order)
        /\ \A k \in DOMAIN order : order[k].pod \in DOMAIN pods
    BY <2>2, OrderOf
  <2>4. Room(plan.nodes, order, Len(order))
    BY <2>1, <2>3
  <2> DEFINE A == Added(plan.nodes, i)
             P == Packed(i)
             bound == Requests(Bound(i))
             seen == Requests(Bound(i) \cap listed[i].pods)
             unseen == Requests(Unseen(i))
             held == Requests(listed[i].pods)
             free == listed[i].free
             total == listed[i].total
             capacity == nodes[listed[i].name].capacity
  <2>5. A \subseteq DOMAIN pods /\ P \subseteq A
    <3>1. \A p \in A : \E m \in 1..Len(order) : p = order[m].pod
      BY <1>1, <2>4 DEF Room
    <3> QED
      BY <2>3, <3>1 DEF Packed, Added
  <2>6. /\ Requests(P) \in Nat /\ Requests(A) \in Nat /\ Requests(P) <= Requests(A)
        /\ A = {} => Requests(P) = 0
    <3> HIDE DEF A, P
    <3>1. ArePods(pods, A) /\ ArePods(pods, P)
      BY <2>2, <2>5, SomePods
    <3>2. Asked(pods, P) <= Asked(pods, A)
      BY <2>5, <3>1, AskedSubset
    <3>3. A = {} => P = {}
      BY <2>5
    <3> QED
      BY <3>1, <3>2, <3>3, AskedNat, AskedNone, RequestsAsked
  <2>7. A = {} \/ free - Requests(A) >= 0
    BY <1>1, <2>4 DEF Room
  <2>8. /\ bound = seen + unseen /\ seen <= held
        /\ seen \in Nat /\ unseen \in Nat /\ held \in Nat /\ bound \in Nat
    BY <1>1, <2>2, BoundSplits
  <2>9. /\ free = total - held /\ held <= capacity /\ total <= capacity
        /\ free \in Int /\ total \in Nat /\ capacity \in Nat
    BY <1>1, <2>2, ListedTyped DEF ListedInv, NodesTyped, NodeRecords
  <2> DEFINE a == Requests(A)
             packed == Requests(P)
  <2>10. bound + packed <= capacity + unseen
    <3>1. packed \in Nat /\ a \in Nat /\ packed <= a
      BY <2>6
    <3>2. packed = 0 \/ free >= a
      <4>1. packed = 0 \/ free - a >= 0
        BY <2>6, <2>7
      <4> HIDE DEF packed, a, free
      <4> QED
        BY <2>9, <3>1, <4>1
    <3> HIDE DEF A, P, bound, seen, unseen, held, free, total, capacity, a, packed
    <3> QED
      BY <2>8, <2>9, <3>1, <3>2
  <2> QED
    BY <2>10
<1>2. PlacementInv => PlanFits
  BY <1>1 DEF PlanFits, Bound
<1> QED
  BY <1>2, PlacementInvariance, PTL

\* A pod that asks for a GPU was left out where those before it left no room.
THEOREM PriorityAlwaysRespected == Spec => []PriorityRespected
<1> DEFINE AheadOf(v, i) ==
             {w \in PendingGPUWorkloads :
                /\ w.pod \in plan.nodes[i].pods \ listed[i].pods
                /\ \/ w.priority > v.priority
                   \/ w.priority = v.priority /\ w.request >= v.request}
<1>1. ASSUME PlacementInv, pass = "done", NEW v \in PendingGPUWorkloads, v.request > 0,
             \A i \in DOMAIN plan.nodes : v.pod \notin plan.nodes[i].pods,
             NEW i \in DOMAIN listed
      PROVE  listed[i].free - Requests({w.pod : w \in AheadOf(v, i)}) < v.request
  <2>0. PICK strategy \in Strategies, order \in SortedWorkloads(PendingGPUWorkloads) : \E g :
          /\ plan = g[Len(order)]
          /\ \A k \in DOMAIN order : g[k] = Placed(strategy, g[k - 1], order[k])
          /\ \A k \in 0..Len(order) :
               /\ Room(g[k].nodes, order, k)
               /\ \A j \in 0..k, n \in DOMAIN listed :
                    g[j].nodes[n].pods \subseteq g[k].nodes[n].pods
    BY <1>1, PackRun
  <2>1. PICK g :
          /\ plan = g[Len(order)]
          /\ \A k \in DOMAIN order : g[k] = Placed(strategy, g[k - 1], order[k])
          /\ \A k \in 0..Len(order) :
               /\ Room(g[k].nodes, order, k)
               /\ \A j \in 0..k, n \in DOMAIN listed :
                    g[j].nodes[n].pods \subseteq g[k].nodes[n].pods
    BY <2>0
  <2>2. PodsTyped /\ CameInv /\ ListedInv /\ NodesTyped
    BY <1>1 DEF PlacementInv
  <2>3. /\ Len(order) \in Nat /\ DOMAIN order = 1..Len(order)
        /\ \A k \in DOMAIN order :
             /\ order[k] \in PendingGPUWorkloads
             /\ order[k].pod \in DOMAIN pods /\ pods[order[k].pod].phase = "Pending"
             /\ order[k].request \in Nat /\ order[k].priority \in Int
        /\ \A w \in PendingGPUWorkloads : \E k \in DOMAIN order : order[k] = w
        /\ \A j, k \in DOMAIN order : GoesBefore(order[j], order[k]) => j < k
    BY <2>2, OrderOf
  <2>4. PICK m \in DOMAIN order : order[m] = v
    BY <2>3
  <2>5. m \in 1..Len(order) /\ m - 1 \in 0..Len(order) /\ m \in 0..Len(order) /\ Len(order) \in 0..Len(order)
    BY <2>3, <2>4
  <2> DEFINE ns == g[m - 1].nodes
             A == Added(ns, i)
             ahead == AheadOf(v, i)
             P == {w.pod : w \in ahead}
  <2>6. Room(ns, order, m - 1)
    BY <2>1, <2>5
  <2>7. SelectNode(strategy, ns, v) = {}
    <3> SUFFICES ASSUME SelectNode(strategy, ns, v) # {} PROVE FALSE
      OBVIOUS
    <3>1. \E n \in DOMAIN listed : v.pod \in g[m].nodes[n].pods
      BY <2>1, <2>2, <2>4, <2>6, RoomNext
    <3>2. PICK n \in DOMAIN listed : v.pod \in g[m].nodes[n].pods
      BY <3>1
    <3>3. g[m].nodes[n].pods \subseteq plan.nodes[n].pods
      <4>1. m \in 0..Len(order)
        BY <2>5
      <4> QED
        BY <2>1, <2>5, <4>1
    <3>4. DOMAIN plan.nodes = DOMAIN listed
      BY <2>1, <2>5 DEF Room
    <3> QED
      BY <1>1, <3>2, <3>3, <3>4
  <2>8. ns[i].free < v.request
    <3>1. listed \in Seq(ListedNodes)
      BY <2>2 DEF ListedInv, ListedNodes
    <3>2. Len(listed) \in Nat /\ DOMAIN ns = 1..Len(listed) /\ DOMAIN ns = DOMAIN listed
      BY <2>6, <3>1, ElementOf DEF Room
    <3>3. \A n \in DOMAIN ns : ns[n].free \in Int /\ ns[n].free < MaxWaste
      <4> SUFFICES ASSUME NEW n \in DOMAIN listed PROVE ns[n].free \in Int /\ ns[n].free < MaxWaste
        BY <3>2
      <4> DEFINE a == Requests(Added(ns, n))
                 free == listed[n].free
                 total == listed[n].total
                 held == Requests(listed[n].pods)
                 c == nodes[listed[n].name].capacity
      <4>1. Added(ns, n) \subseteq DOMAIN pods
        <5>1. \A p \in Added(ns, n) : \E j \in 1..(m - 1) : p = order[j].pod
          BY <2>6 DEF Room
        <5>2. 1..(m - 1) \subseteq DOMAIN order
          BY <2>3, <2>5
        <5> QED
          BY <2>3, <5>1, <5>2
      <4>2. a \in Nat
        BY <2>2, <4>1, SomePods, AskedNat, RequestsAsked
      <4>3. /\ free = total - held /\ total <= c /\ free \in Int /\ total \in Nat
            /\ c \in {Physical[listed[n].name], Physical[listed[n].name] * Replicas}
            /\ listed[n].name \in Node
        BY <2>2, ListedTyped DEF ListedInv, NodesTyped
      <4>4. held \in Nat
        BY <2>2, BoundSplits
      <4>5. c \in Nat /\ c < MaxWaste
        <5>1. /\ Physical[listed[n].name] \in Nat /\ Physical[listed[n].name] * Replicas \in Nat
              /\ Physical[listed[n].name] <= Physical[listed[n].name] * Replicas
          BY <4>3, ReplicasGrow
        <5>2. Physical[listed[n].name] * Replicas < MaxWaste /\ MaxWaste \in Nat
          BY <4>3, PlacementAssumption DEF MaxWaste
        <5> QED
          BY <4>3, <5>1, <5>2
      <4>6. ns[n].free = free - a
        BY <2>6 DEF Room
      <4>7. MaxWaste \in Nat
        BY DEF MaxWaste
      <4> HIDE DEF a, free, total, held, c, ns
      <4> QED
        BY <4>2, <4>3, <4>4, <4>5, <4>6, <4>7
    <3>4. v.request \in Nat
      BY <2>3, <2>4
    <3> QED
      BY <1>1, <2>7, <3>2, <3>3, <3>4, RefusedEverywhere
  <2>9. A \subseteq P
    <3> SUFFICES ASSUME NEW p \in A PROVE p \in P
      OBVIOUS
    <3>1. PICK j \in 1..(m - 1) : p = order[j].pod
      BY <2>6 DEF Room
    <3>2. j \in DOMAIN order /\ j < m
      BY <2>3, <2>5
    <3> DEFINE w == order[j]
    <3>3. ~GoesBefore(v, w)
      <4>1. GoesBefore(order[m], order[j]) => m < j
        BY <2>3, <2>4, <3>2
      <4>2. m \in Nat /\ j \in Nat
        BY <2>5
      <4> QED
        BY <2>4, <3>2, <4>1, <4>2
    <3>4. w.priority > v.priority \/ (w.priority = v.priority /\ w.request >= v.request)
      <4>1. w.priority \in Int /\ v.priority \in Int /\ w.request \in Nat /\ v.request \in Nat
        BY <2>3, <2>4, <3>2
      <4> HIDE DEF w
      <4> QED
        BY <3>3, <4>1 DEF GoesBefore
    <3>5. p \in plan.nodes[i].pods \ listed[i].pods
      <4>1. g[m - 1].nodes[i].pods \subseteq plan.nodes[i].pods
        BY <2>1, <2>5
      <4> QED
        BY <4>1 DEF Added
    <3>6. w \in ahead
      BY <2>3, <3>1, <3>2, <3>4, <3>5
    <3> QED
      BY <3>1, <3>6
  <2>10. P \subseteq DOMAIN pods
    <3>1. \A w \in PendingGPUWorkloads : w.pod \in DOMAIN pods
      BY DEF PendingGPUWorkloads
    <3> QED
      BY <3>1
  <2>11. Requests(A) <= Requests(P) /\ Requests(A) \in Nat /\ Requests(P) \in Nat
    <3> HIDE DEF A, P
    <3>1. ArePods(pods, P) /\ ArePods(pods, A)
      BY <2>2, <2>9, <2>10, SomePods
    <3> QED
      BY <2>9, <3>1, AskedNat, AskedSubset, RequestsAsked
  <2>12. ns[i].free = listed[i].free - Requests(A)
    BY <2>6 DEF Room
  <2>13. listed[i].free \in Int /\ v.request \in Nat
    BY <2>2, <2>3, <2>4, ListedTyped
  <2> DEFINE a == Requests(A)
             b == Requests(P)
             f == listed[i].free
  <2>14. f - b < v.request
    <3>1. a <= b /\ a \in Nat /\ b \in Nat /\ f \in Int /\ f - a < v.request
      BY <2>8, <2>11, <2>12, <2>13
    <3> HIDE DEF a, b, f
    <3> QED
      BY <2>13, <3>1
  <2> QED
    BY <2>14
<1>2. PlacementInv => PriorityRespected
  BY <1>1 DEF PriorityRespected
<1> QED
  BY <1>2, PlacementInvariance, PTL

\* What is free on a node of the listing is spare, and no node lacks what its
\* counted pods hold.
LEMMA FreeIsSpare ==
  ASSUME PodsTyped, CameInv, NodesTyped, ListedInv, NEW i \in DOMAIN listed
  PROVE  /\ Spare(i) \in Nat /\ listed[i].free <= Spare(i)
         /\ listed[i].free \in Int /\ listed[i].total \in Nat
         /\ listed[i].free <= listed[i].total
<1> DEFINE bound == Requests(Bound(i))
           seen == Requests(Bound(i) \cap listed[i].pods)
           unseen == Requests(Unseen(i))
           held == Requests(listed[i].pods)
           free == listed[i].free
           total == listed[i].total
           capacity == nodes[listed[i].name].capacity
<1>1. /\ bound = seen + unseen /\ seen <= held
      /\ seen \in Nat /\ unseen \in Nat /\ held \in Nat /\ bound \in Nat
  BY BoundSplits
<1>2. /\ free = total - held /\ held <= capacity /\ total <= capacity
      /\ free \in Int /\ total \in Nat /\ capacity \in Nat
  BY ListedTyped DEF ListedInv, NodesTyped, NodeRecords
<1>3. Spare(i) = (capacity - bound) + unseen
  BY DEF Spare, Bound
<1> HIDE DEF bound, seen, unseen, held, free, total, capacity
<1>4. Spare(i) \in Nat /\ free <= Spare(i) /\ free <= total
  BY <1>1, <1>2, <1>3
<1> QED
  BY <1>2, <1>4 DEF free, total

\* A total over positions of the listing.
LEMMA TotalIs ==
  ASSUME NEW ns, NEW field, NEW I, IsFiniteSet(I), \A i \in I : ns[i][field] \in Int
  PROVE  LET F == [i \in I |-> ns[i][field]] IN
         /\ Total(ns, field, I) = SumFunctionOnSet(F, I)
         /\ \A i \in I : F[i] = ns[i][field] /\ F[i] \in Int
<1> DEFINE F == [i \in I |-> ns[i][field]]
<1>1. Total(ns, field, I) = SumFunctionOnSet(F, DOMAIN F) /\ DOMAIN F = I
  BY DEF Total, SumFunction
<1>2. \A i \in I : F[i] = ns[i][field] /\ F[i] \in Int
  OBVIOUS
<1> HIDE DEF F
<1> QED
  BY <1>1, <1>2 DEF F

\* The share of the fragmentation that its definition allows, from the number of
\* nodes, of nodes with something free, and the totals.
LEMMA ShareBounds ==
  ASSUME NEW n \in Nat, NEW w \in Nat, w <= n, NEW t \in Nat, NEW a \in Nat, a <= t, a = 0 \/ n > 0
  PROVE  IF a = 0 THEN 0 \in 0..(n * n * t) ELSE w * ((n * t) - a) \in 0..(n * n * t)
<1> DEFINE nt == n * t
           rest == nt - a
<1>1. nt \in Nat
  BY ProductGrows
<1>2. n * nt \in Nat /\ n * n * t = n * nt
  <2>1. n * nt \in Nat
    <3> HIDE DEF nt
    <3> QED
      BY <1>1, ProductGrows
  <2>2. n * n * t = n * (n * t)
    OBVIOUS
  <2> QED
    BY <2>1, <2>2
<1>3. CASE a = 0
  <2> HIDE DEF nt
  <2> QED
    BY <1>2, <1>3
<1>4. CASE a # 0
  <2>1. t <= nt
    <3>1. t * 1 <= t * n
      <4>1. 1 \in Nat /\ 1 <= n
        BY <1>4
      <4> QED
        BY <4>1, ProductGrows
    <3>2. t * 1 = t /\ t * n = n * t
      OBVIOUS
    <3> QED
      BY <3>1, <3>2
  <2> HIDE DEF nt
  <2>2. rest \in Nat /\ rest <= nt
    BY <1>1, <2>1
  <2> HIDE DEF rest
  <2>3. w * rest \in Nat /\ w * rest <= w * nt
    BY <1>1, <2>2, ProductGrows
  <2>4. w * nt <= n * nt
    <3>1. nt * w <= nt * n
      BY <1>1, ProductGrows
    <3>2. nt * w = w * nt /\ nt * n = n * nt
      BY <1>1
    <3> QED
      BY <3>1, <3>2
  <2>5. w * nt \in Nat
    BY <1>1, ProductGrows
  <2>6. w * rest \in 0..(n * n * t)
    BY <1>2, <2>3, <2>4, <2>5
  <2> QED
    BY <1>4, <2>6 DEF rest, nt
<1> QED
  BY <1>3, <1>4

\* The savings that are reported are there, and the fragmentation is a share.
THEOREM AnalysisAlwaysSound == Spec => []AnalysisIsSound
<1> DEFINE I == DOMAIN listed
           U == Underutilized(listed)
           W == {i \in I : listed[i].free > 0}
<1>1. ASSUME PlacementInv
      PROVE  /\ IsFiniteSet(I) /\ Len(listed) \in Nat /\ I = 1..Len(listed)
             /\ Cardinality(I) = Len(listed)
             /\ \A i \in I : /\ Spare(i) \in Nat /\ listed[i].free <= Spare(i)
                             /\ listed[i].free \in Int /\ listed[i].total \in Nat
                             /\ listed[i].free <= listed[i].total
  <2>1. listed \in Seq(ListedNodes)
    BY <1>1 DEF PlacementInv, ListedInv, ListedNodes
  <2>2. Len(listed) \in Nat /\ I = 1..Len(listed)
    BY <2>1, ElementOf
  <2>3. IsFiniteSet(1..Len(listed)) /\ Cardinality(1..Len(listed)) = Len(listed)
    <3> DEFINE n == Len(listed)
    <3>1. IsFiniteSet(1..n) /\ Cardinality(1..n) = IF 1 > n THEN 0 ELSE n - 1 + 1
      <4> HIDE DEF n
      <4>1. n \in Nat
        BY <2>2 DEF n
      <4> QED
        BY <4>1, FS_Interval
    <3> QED
      BY <2>2, <3>1
  <2>4. \A i \in I : /\ Spare(i) \in Nat /\ listed[i].free <= Spare(i)
                     /\ listed[i].free \in Int /\ listed[i].total \in Nat
                     /\ listed[i].free <= listed[i].total
    BY <1>1, FreeIsSpare DEF PlacementInv
  <2> QED
    BY <2>2, <2>3, <2>4
<1>2. ASSUME PlacementInv
      PROVE  AnalyzeConsolidationOpportunities(listed).savings
               <= SumFunction([i \in DOMAIN listed |-> Spare(i)])
  <2> DEFINE F == [i \in U |-> listed[i]["free"]]
             S == [i \in I |-> Spare(i)]
  <2>1. AnalyzeConsolidationOpportunities(listed).savings = Total(listed, "free", U)
    BY DEF AnalyzeConsolidationOpportunities
  <2>2. U \subseteq I /\ IsFiniteSet(U)
    <3>1. U \subseteq I
      BY DEF Underutilized
    <3> QED
      BY <1>1, <1>2, <3>1, FS_Subset
  <2>3. Total(listed, "free", U) = SumFunctionOnSet(F, U) /\ \A i \in U : F[i] = listed[i].free /\ F[i] \in Int
    <3>1. \A i \in U : listed[i]["free"] \in Int
      BY <1>1, <1>2, <2>2
    <3> HIDE DEF U
    <3> QED
      BY <2>2, <3>1, TotalIs
  <2>4. SumFunction([i \in DOMAIN listed |-> Spare(i)]) = SumFunctionOnSet(S, I)
    BY DEF SumFunction
  <2>5. \A i \in I : S[i] \in Nat
    BY <1>1, <1>2
  <2>6. \A i \in U : F[i] <= S[i]
    BY <1>1, <1>2, <2>2, <2>3
  <2> HIDE DEF F, S, U, I
  <2>7. SumFunctionOnSet(F, U) <= SumFunctionOnSet(S, U)
    <3>1. \A i \in U : F[i] \in Int /\ S[i] \in Int /\ F[i] <= S[i]
      BY <2>2, <2>3, <2>5, <2>6
    <3> QED
      BY <2>2, <3>1, SumLeq
  <2>8. SumFunctionOnSet(S, U) <= SumFunctionOnSet(S, I)
    BY <1>1, <1>2, <2>2, <2>5, SumSubset
  <2>9. /\ SumFunctionOnSet(F, U) \in Int /\ SumFunctionOnSet(S, U) \in Int
        /\ SumFunctionOnSet(S, I) \in Int
    <3>1. (\A i \in U : F[i] \in Int) /\ (\A i \in U : S[i] \in Int) /\ (\A i \in I : S[i] \in Int)
      BY <2>2, <2>3, <2>5
    <3> QED
      BY <1>1, <1>2, <2>2, <3>1, SumInt
  <2> QED
    BY <2>1, <2>3, <2>4, <2>7, <2>8, <2>9
<1>3. ASSUME PlacementInv, \A i \in I : ~(listed[i].free < 0)
      PROVE  CalculateFragmentation(listed)
               \in 0..(Len(listed) * Len(listed) * Total(listed, "total", DOMAIN listed))
  <2> DEFINE n == Len(listed)
             t == Total(listed, "total", DOMAIN listed)
             a == Total(listed, "free", DOMAIN listed)
             w == Cardinality(W)
             F == [i \in I |-> listed[i]["free"]]
             T == [i \in I |-> listed[i]["total"]]
  <2>1. IsFiniteSet(I) /\ n \in Nat /\ I = 1..n /\ Cardinality(I) = n
    BY <1>1, <1>3
  <2>2. /\ \A i \in I : F[i] \in Nat /\ T[i] \in Nat /\ F[i] <= T[i]
        /\ a = SumFunctionOnSet(F, I) /\ t = SumFunctionOnSet(T, I)
    <3>1. \A i \in I : /\ listed[i].free \in Int /\ listed[i].total \in Nat
                       /\ listed[i].free <= listed[i].total /\ listed[i].free >= 0
      BY <1>1, <1>3
    <3>2. \A i \in I : /\ listed[i]["free"] \in Int /\ listed[i]["total"] \in Int
      BY <3>1
    <3>3. a = SumFunctionOnSet(F, I) /\ t = SumFunctionOnSet(T, I)
      <4>1. IsFiniteSet(DOMAIN listed)
        BY <1>1, <1>3
      <4>2. a = SumFunctionOnSet(F, I)
        BY <3>2, <4>1, TotalIs
      <4>3. t = SumFunctionOnSet(T, I)
        BY <3>2, <4>1, TotalIs
      <4> QED
        BY <4>2, <4>3
    <3>4. \A i \in I : F[i] \in Nat /\ T[i] \in Nat /\ F[i] <= T[i]
      BY <3>1
    <3> QED
      BY <3>3, <3>4
  <2>3. w \in Nat /\ w <= n
    <3>1. W \subseteq I
      OBVIOUS
    <3> HIDE DEF W, I, n
    <3> QED
      BY <2>1, <3>1, FS_Subset, FS_CardinalityType
  <2> HIDE DEF F, T
  <2>4. a \in Nat /\ t \in Nat /\ a <= t
    <3> HIDE DEF a, t, I
    <3>1. \A i \in I : F[i] \in Int /\ T[i] \in Int /\ F[i] <= T[i]
      BY <2>2
    <3> QED
      BY <2>1, <2>2, <3>1, SumNat, SumLeq
  <2>5. a = 0 \/ n > 0
    <3> SUFFICES ASSUME n = 0 PROVE a = 0
      BY <2>1
    <3>1. I = {}
      BY <2>1
    <3> HIDE DEF a, I
    <3> QED
      BY <2>2, <3>1, SumEmpty
  <2>6. CalculateFragmentation(listed) = IF a = 0 THEN 0 ELSE w * ((n * t) - a)
    BY DEF CalculateFragmentation
  <2> HIDE DEF a, t, w, n
  <2>7. CalculateFragmentation(listed) \in 0..(n * n * t)
    BY <2>1, <2>3, <2>4, <2>5, <2>6, ShareBounds
  <2> QED
    BY <2>7 DEF n, t
<1>4. PlacementInv => AnalysisIsSound
  BY <1>2, <1>3 DEF AnalysisIsSound
<1> QED
  BY <1>4, PlacementInvariance, PTL

-----------------------------------------------------------------------------
(* What the cost tracker counts of a pod.                                  *)

\* What the tracker takes a request for.
LEMMA TrackerNames ==
  /\ "1g.5gb" \in ProfileNames /\ {"gpu", "memory", "gpu-shared", "gpu.shared"} \cap ProfileNames = {}
  /\ \A r : r \notin ProfileNames => TrackerName(r) = r
  /\ TrackerName("1g.5gb") = "mig-1g.5gb"
  /\ \A r \in ProfileNames : r # "1g.5gb" => TrackerName(r) = "mig"
<1>1. DOMAIN SupportedProfiles = 1..10 /\ SupportedProfiles[1].name = "1g.5gb"
  BY ProfilesOrdered DEF SupportedProfiles, Profile
<1>2. "1g.5gb" \in ProfileNames
  BY <1>1 DEF ProfileNames
<1>3. {"gpu", "memory", "gpu-shared", "gpu.shared"} \cap ProfileNames = {}
  BY ProfilesOrdered DEF ProfileNames
<1>4. \A r : r \notin ProfileNames => TrackerName(r) = r
  BY <1>2, Zenon DEF TrackerName
<1>5. TrackerName("1g.5gb") = "mig-1g.5gb"
  BY DEF TrackerName
<1>6. \A r \in ProfileNames : r # "1g.5gb" => TrackerName(r) = "mig"
  BY Zenon DEF TrackerName
<1> QED
  BY <1>2, <1>3, <1>4, <1>5, <1>6

\* A container with requests the program knows.
Known(c) == IsContainer(c) /\ DOMAIN c \subseteq ResourceNames

\* No two of the requests that count are taken for one another.
LEMMA NamesApart ==
  ASSUME NEW c, Known(c), NEW r \in {"gpu", "1g.5gb", "gpu-shared"}
  PROVE  \A q \in DOMAIN c : TrackerName(q) = TrackerName(r) => q = r
<1> TAKE q \in DOMAIN c
<1>1. q \in {"gpu", "memory", "gpu-shared", "gpu.shared"} \/ q = "1g.5gb"
        \/ (q \in ProfileNames /\ q # "1g.5gb")
  BY DEF Known, ResourceNames
<1>2. q \in {"gpu", "memory", "gpu-shared", "gpu.shared"} => TrackerName(q) = q
  BY TrackerNames
<1>3. r # "1g.5gb" => TrackerName(r) = r
  BY TrackerNames
<1> QED
  BY <1>1, <1>2, <1>3, TrackerNames

\* A request no other of the container is taken for is seen as it is, one that is
\* not made is not.
LEMMA SeenAs ==
  ASSUME NEW c, NEW r, r # "memory",
         \A q \in DOMAIN c : TrackerName(q) = TrackerName(r) => q = r
  PROVE  Lookup(Seen(c).requests, TrackerName(r), 0) = Lookup(c, r, 0)
<1> DEFINE kept == DOMAIN c \ {"memory"}
           found == CHOOSE q \in kept : TrackerName(q) = TrackerName(r)
           names == {TrackerName(q) : q \in kept}
<1>0. Seen(c).requests = [s \in names |-> c[CHOOSE q \in kept : TrackerName(q) = s]]
  BY DEF Seen
<1>1. CASE r \in DOMAIN c
  <2>1. r \in kept /\ TrackerName(r) \in names
    BY <1>1
  <2>2. found \in kept /\ TrackerName(found) = TrackerName(r)
    BY <2>1
  <2>3. found = r
    BY <2>2
  <2>4. Seen(c).requests[TrackerName(r)] = c[found] /\ DOMAIN Seen(c).requests = names
    BY <1>0, <2>1
  <2> HIDE DEF found, kept, names
  <2> QED
    BY <1>1, <2>1, <2>3, <2>4 DEF Lookup
<1>2. CASE r \notin DOMAIN c
  <2>1. TrackerName(r) \notin DOMAIN Seen(c).requests
    BY <1>0, <1>2
  <2> QED
    BY <1>2, <2>1 DEF Lookup
<1> QED
  BY <1>1, <1>2

\* The GPUs and the shares of one in a container that the tracker charges for.
Devices(c) == Lookup(c, "gpu", 0) + Lookup(c, "1g.5gb", 0) + Lookup(c, "gpu-shared", 0)

LEMMA CountOf ==
  ASSUME NEW c, Known(c)
  PROVE  GetGPUCount(Seen(c)) = Devices(c)
<1> DEFINE count(s) == Lookup(Seen(c).requests, s, 0)
<1>1. /\ TrackerName("gpu") = "gpu" /\ TrackerName("1g.5gb") = "mig-1g.5gb"
      /\ TrackerName("gpu-shared") = "gpu-shared"
  BY TrackerNames
<1>2. \A r \in {"gpu", "1g.5gb", "gpu-shared"} : count(TrackerName(r)) = Lookup(c, r, 0)
  BY NamesApart, SeenAs
<1>3. GetGPUCount(Seen(c)) = count("gpu") + count("mig-1g.5gb") + count("gpu-shared")
  BY Zenon DEF GetGPUCount
<1> HIDE DEF count
<1> QED
  BY <1>1, <1>2, <1>3 DEF Devices

\* The requests for a resource are natural numbers.
LEMMA LookupNat ==
  ASSUME NEW c, IsContainer(c), NEW r
  PROVE  Lookup(c, r, 0) \in Nat
BY DEF IsContainer, Lookup

LEMMA DevicesNat ==
  ASSUME NEW c, IsContainer(c)
  PROVE  Devices(c) \in Nat
BY LookupNat DEF Devices

\* A pod with containers of which the tracker counts every request it knows.
IsCounted(pod) ==
  IsFiniteSet(DOMAIN pod.containers) /\ \A i \in DOMAIN pod.containers : Known(pod.containers[i])

DevicesOf(pod) == [i \in DOMAIN pod.containers |-> Devices(pod.containers[i])]

\* What is counted of a pod is the sum over its containers.
LEMMA CountIs ==
  ASSUME NEW pod, IsCounted(pod)
  PROVE  /\ CountedGPUs(pod) = SumFunctionOnSet(DevicesOf(pod), DOMAIN pod.containers)
         /\ \A i \in DOMAIN pod.containers : DevicesOf(pod)[i] \in Nat
<1> DEFINE I == DOMAIN pod.containers
           N == DevicesOf(pod)
<1>1. \A i \in I : GetGPUCount(Seen(pod.containers[i])) = Devices(pod.containers[i])
  BY CountOf DEF IsCounted
<1>2. [i \in I |-> GetGPUCount(Seen(pod.containers[i]))] = N
  BY <1>1 DEF DevicesOf
<1>3. CountedGPUs(pod) = SumFunction(N)
  <2>1. CountedGPUs(pod) = SumFunction([i \in I |-> GetGPUCount(Seen(pod.containers[i]))])
    BY DEF CountedGPUs
  <2> HIDE DEF I, N
  <2> QED
    BY <1>2, <2>1, Zenon
<1>4. \A i \in I : N[i] \in Nat
  BY DevicesNat DEF IsCounted, Known, DevicesOf
<1>5. DOMAIN N = I
  BY DEF DevicesOf
<1>6. SumFunction(N) = SumFunctionOnSet(N, DOMAIN N)
  BY DEF SumFunction
<1> HIDE DEF I, N
<1>7. CountedGPUs(pod) = SumFunctionOnSet(N, I)
  BY <1>3, <1>5, <1>6, Zenon
<1> QED
  BY <1>4, <1>7 DEF I, N

\* There are finitely many profiles.
LEMMA ProfilesFinite == IsFiniteSet(ProfileNames)
<1> DEFINE f == [i \in 1..10 |-> SupportedProfiles[i].name]
<1>1. ProfileNames = {SupportedProfiles[i].name : i \in 1..10}
  BY ProfilesOrdered DEF ProfileNames
<1>2. f \in Surjection(1..10, ProfileNames)
  BY <1>1 DEF Surjection
<1>3. IsFiniteSet(1..10)
  <2>1. 1 \in Int /\ 10 \in Int
    OBVIOUS
  <2> QED
    BY <2>1, FS_Interval
<1> HIDE DEF f
<1> QED
  BY <1>2, <1>3, FS_Surjection

\* What a pod requests of a resource is the sum over its containers.
LEMMA TotalLookup ==
  ASSUME NEW pod, IsPod(pod), NEW r
  PROVE  LET F == [i \in DOMAIN pod.containers |-> Lookup(pod.containers[i], r, 0)] IN
         /\ TotalRequest(pod, r) = SumFunctionOnSet(F, DOMAIN pod.containers)
         /\ \A i \in DOMAIN pod.containers : F[i] = Lookup(pod.containers[i], r, 0) /\ F[i] \in Nat
<1> DEFINE F == [i \in DOMAIN pod.containers |-> Lookup(pod.containers[i], r, 0)]
<1>1. TotalRequest(pod, r) = SumFunctionOnSet(F, DOMAIN F)
  BY DEF TotalRequest, SumFunction, Lookup
<1>2. DOMAIN F = DOMAIN pod.containers
  OBVIOUS
<1>3. \A i \in DOMAIN pod.containers : F[i] = Lookup(pod.containers[i], r, 0) /\ F[i] \in Nat
  BY LookupNat DEF IsPod
<1> HIDE DEF F
<1>4. TotalRequest(pod, r) = SumFunctionOnSet(F, DOMAIN pod.containers)
  BY <1>1, <1>2, Zenon
<1> QED
  BY <1>3, <1>4 DEF F

\* The tracker can charge for no more of a pod than the devices it asks for, and
\* charges for all of them if no other profile than the smallest is among them.
LEMMA DevicesAsked ==
  ASSUME NEW pod, IsPod(pod)
  PROVE  LET charged == SumFunctionOnSet(DevicesOf(pod), DOMAIN pod.containers) IN
         /\ charged \in Nat /\ AskedDevices(pod) \in Nat /\ charged <= AskedDevices(pod)
         /\ RequestedProfiles(pod) \subseteq {"1g.5gb"} => charged = AskedDevices(pod)
<1> DEFINE I == DOMAIN pod.containers
           F(r) == [i \in I |-> Lookup(pod.containers[i], r, 0)]
           A == F("gpu")
           B == F("1g.5gb")
           C == F("gpu-shared")
           AB == [i \in I |-> A[i] + B[i]]
           D == DevicesOf(pod)
           T == [profile \in ProfileNames |-> TotalRequest(pod, profile)]
           Rest == ProfileNames \ {"1g.5gb"}
<1>1. IsFiniteSet(I)
  BY DEF IsPod
<1>2. \A i \in I : A[i] \in Nat /\ B[i] \in Nat /\ C[i] \in Nat
  <2> TAKE i \in I
  <2>1. IsContainer(pod.containers[i])
    BY DEF IsPod
  <2> QED
    BY <2>1, LookupNat
<1>3. \A i \in I : AB[i] = A[i] + B[i] /\ AB[i] \in Nat
  <2> TAKE i \in I
  <2>1. AB[i] = A[i] + B[i]
    OBVIOUS
  <2>2. A[i] \in Nat /\ B[i] \in Nat
    BY <1>2
  <2> HIDE DEF A, B, AB
  <2> QED
    BY <2>1, <2>2
<1>4. \A i \in I : D[i] = AB[i] + C[i]
  BY DEF DevicesOf, Devices
<1>5. /\ TotalRequest(pod, "gpu") = SumFunctionOnSet(A, I)
      /\ TotalRequest(pod, "1g.5gb") = SumFunctionOnSet(B, I)
      /\ TotalRequest(pod, "gpu-shared") = SumFunctionOnSet(C, I)
  BY TotalLookup
<1>6. "1g.5gb" \in ProfileNames
  BY TrackerNames
<1>7. IsFiniteSet(ProfileNames)
  BY ProfilesFinite
<1>8. \A profile \in ProfileNames : T[profile] \in Nat
  BY TotalTyped
<1>9. T["1g.5gb"] = TotalRequest(pod, "1g.5gb")
  BY <1>6
<1>10. SumFunction(T) = SumFunctionOnSet(T, ProfileNames)
  <2>1. SumFunction(T) = SumFunctionOnSet(T, DOMAIN T) /\ DOMAIN T = ProfileNames
    BY DEF SumFunction
  <2> HIDE DEF T
  <2> QED
    BY <2>1, Zenon
<1>11. AskedDevices(pod)
         = TotalRequest(pod, "gpu") + TotalRequest(pod, "gpu-shared") + SumFunction(T)
  BY Zenon DEF AskedDevices
<1>12. ASSUME RequestedProfiles(pod) \subseteq {"1g.5gb"}
       PROVE  \A profile \in Rest : T[profile] = 0
  <2> SUFFICES ASSUME NEW profile \in Rest PROVE T[profile] = 0
    OBVIOUS
  <2>1. \A i \in I : profile \notin DOMAIN pod.containers[i]
    BY <1>12 DEF RequestedProfiles
  <2>2. /\ TotalRequest(pod, profile) = SumFunctionOnSet(F(profile), I)
        /\ \A i \in I : F(profile)[i] = Lookup(pod.containers[i], profile, 0)
    BY TotalLookup
  <2>3. \A i \in I : F(profile)[i] = 0
    BY <2>1, <2>2 DEF Lookup
  <2>4. T[profile] = TotalRequest(pod, profile)
    OBVIOUS
  <2> HIDE DEF F, I, T
  <2> QED
    BY <1>1, <2>2, <2>3, <2>4, SumZero
<1> HIDE DEF A, B, C, AB, D, T, I
<1>13. SumFunctionOnSet(AB, I) = SumFunctionOnSet(A, I) + SumFunctionOnSet(B, I)
  BY <1>1, <1>2, <1>3, SumPlus
<1>14. SumFunctionOnSet(D, I) = SumFunctionOnSet(AB, I) + SumFunctionOnSet(C, I)
  BY <1>1, <1>2, <1>3, <1>4, SumPlus
<1>15. /\ SumFunctionOnSet(A, I) \in Nat /\ SumFunctionOnSet(B, I) \in Nat
       /\ SumFunctionOnSet(C, I) \in Nat
  BY <1>1, <1>2, SumNat
<1>16. SumFunctionOnSet(T, ProfileNames) = T["1g.5gb"] + SumFunctionOnSet(T, Rest)
  BY <1>6, <1>7, <1>8, SumRemove
<1>17. IsFiniteSet(Rest)
  BY <1>7, FS_Subset
<1>18. SumFunctionOnSet(T, Rest) \in Nat
  BY <1>8, <1>17, SumNat
<1>19. ASSUME RequestedProfiles(pod) \subseteq {"1g.5gb"}
       PROVE  SumFunctionOnSet(T, Rest) = 0
  BY <1>12, <1>17, <1>19, SumZero
<1> HIDE DEF Rest
<1>20. /\ SumFunctionOnSet(D, I) \in Nat /\ AskedDevices(pod) \in Nat
       /\ AskedDevices(pod) = SumFunctionOnSet(D, I) + SumFunctionOnSet(T, Rest)
  BY <1>5, <1>9, <1>10, <1>11, <1>13, <1>14, <1>15, <1>16, <1>18
<1>21. SumFunctionOnSet(D, I) <= AskedDevices(pod)
  BY <1>18, <1>20
<1>22. RequestedProfiles(pod) \subseteq {"1g.5gb"} => SumFunctionOnSet(D, I) = AskedDevices(pod)
  BY <1>19, <1>20
<1> QED
  BY <1>20, <1>21, <1>22 DEF D, I

\* A pod as the rest of this section takes it: submitted, and no container of it
\* asks for 0 GPUs.
IsAsked(pod) ==
  /\ IsPod(pod) /\ \A i \in DOMAIN pod.containers : DOMAIN pod.containers[i] \subseteq ResourceNames
  /\ \A i \in DOMAIN pod.containers :
       RequestsGPU(pod.containers[i]) => pod.containers[i].gpu > 0

\* What is charged for a pod that was let in, of what was asked for.
IsBilled(spec, asked) ==
  /\ CountedGPUs(spec) <= AskedDevices(asked)
  /\ AskedDevices(asked) > 0 /\ RequestedProfiles(spec) \subseteq {"1g.5gb"} => CountedGPUs(spec) > 0

\* A pod with the containers it was submitted with.
LEMMA KeptCount ==
  ASSUME NEW pod, IsAsked(pod), NEW new,
         DOMAIN new.containers = DOMAIN pod.containers,
         \A i \in DOMAIN pod.containers : new.containers[i] = pod.containers[i]
  PROVE  IsBilled(new, pod)
<1>1. IsCounted(new)
  BY DEF IsAsked, IsPod, IsCounted, Known
<1>2. DevicesOf(new) = DevicesOf(pod)
  BY DEF DevicesOf
<1>3. CountedGPUs(new) = SumFunctionOnSet(DevicesOf(new), DOMAIN new.containers)
  BY <1>1, CountIs
<1>4. CountedGPUs(new) = SumFunctionOnSet(DevicesOf(pod), DOMAIN pod.containers)
  BY <1>2, <1>3
<1>5. RequestedProfiles(new) = RequestedProfiles(pod)
  BY DEF RequestedProfiles
<1>6. IsPod(pod)
  BY DEF IsAsked
<1> QED
  BY <1>4, <1>5, <1>6, DevicesAsked DEF IsBilled

\* A container that was given a device of a profile instead of its GPUs.
LEMMA DeviceCount ==
  ASSUME NEW c, Known(c), "gpu" \in DOMAIN c, c.gpu > 0, NEW name \in ProfileNames
  PROVE  LET new == OneOf(name, c, DOMAIN c \ {"gpu"}) IN
         /\ Known(new) /\ Devices(new) <= Devices(c)
         /\ name = "1g.5gb" => Devices(new) > 0
<1> DEFINE new == OneOf(name, c, DOMAIN c \ {"gpu"})
<1>1. /\ DOMAIN new = (DOMAIN c \ {"gpu"}) \cup {name} /\ new[name] = 1
      /\ \A r \in DOMAIN new : r # name => new[r] = c[r]
  BY DEF OneOf
<1>2. Known(new)
  <2>1. IsContainer(new)
    BY OneOfTyped DEF Known
  <2> HIDE DEF new
  <2> QED
    BY <1>1, <2>1 DEF Known, ResourceNames
<1>3. name \notin {"gpu", "memory", "gpu-shared"}
  BY TrackerNames
<1> HIDE DEF new
<1>4. Lookup(new, "gpu", 0) = 0 /\ Lookup(c, "gpu", 0) = c.gpu
  BY <1>1, <1>3 DEF Lookup
<1>5. Lookup(new, "gpu-shared", 0) = Lookup(c, "gpu-shared", 0)
  BY <1>1, <1>3 DEF Lookup
<1>6. Lookup(new, "1g.5gb", 0) = IF name = "1g.5gb" THEN 1 ELSE Lookup(c, "1g.5gb", 0)
  BY <1>1 DEF Lookup
<1>7. c.gpu \in Nat /\ Lookup(c, "1g.5gb", 0) \in Nat /\ Lookup(c, "gpu-shared", 0) \in Nat
  BY LookupNat DEF Known, IsContainer
<1>8. Devices(new) <= Devices(c) /\ (name = "1g.5gb" => Devices(new) > 0)
  BY <1>4, <1>5, <1>6, <1>7 DEF Devices
<1> QED
  BY <1>2, <1>8 DEF new

\* A pod that was converted to MIG.
LEMMA ConvertedCount ==
  ASSUME NEW pod, IsAsked(pod), HasGPURequest(pod), NEW time,
         NEW profile, profile.name \in ProfileNames, NEW new, IsMIGOf(new, pod, profile, time)
  PROVE  IsBilled(new, pod)
<1> DEFINE I == DOMAIN pod.containers
           M == DevicesOf(pod)
           N == DevicesOf(new)
<1>1. DOMAIN new.containers = I /\ IsFiniteSet(I) /\ IsPod(pod)
  BY DEF IsMIGOf, IsAsked, IsPod
<1>2. ASSUME NEW i \in I
      PROVE  /\ Known(new.containers[i]) /\ M[i] \in Nat /\ N[i] \in Nat /\ N[i] <= M[i]
             /\ RequestsGPU(pod.containers[i]) /\ profile.name = "1g.5gb" => N[i] > 0
  <2> DEFINE c == pod.containers[i]
             d == new.containers[i]
  <2>1. Known(c)
    BY DEF IsAsked, IsPod, Known
  <2>2. d = IF RequestsGPU(c) THEN OneOf(profile.name, c, DOMAIN c \ {"gpu"}) ELSE c
    BY DEF IsMIGOf
  <2>3. RequestsGPU(c) => "gpu" \in DOMAIN c /\ c.gpu > 0
    BY DEF IsAsked, RequestsGPU
  <2>4. M[i] = Devices(c) /\ N[i] = Devices(d)
    BY <1>1 DEF DevicesOf
  <2> HIDE DEF c, d
  <2>5. CASE RequestsGPU(c)
    <3>1. /\ Known(d) /\ Devices(d) <= Devices(c)
          /\ profile.name = "1g.5gb" => Devices(d) > 0
      BY <2>1, <2>2, <2>3, <2>5, DeviceCount
    <3>2. Devices(c) \in Nat /\ Devices(d) \in Nat
      BY <2>1, <3>1, DevicesNat DEF Known
    <3> QED
      BY <2>4, <3>1, <3>2 DEF c, d
  <2>6. CASE ~RequestsGPU(c)
    <3>1. d = c /\ Devices(c) \in Nat
      BY <2>1, <2>2, <2>6, DevicesNat DEF Known
    <3> QED
      BY <2>1, <2>4, <2>6, <3>1 DEF c, d
  <2> QED
    BY <2>5, <2>6
<1>3. IsCounted(new)
  BY <1>1, <1>2 DEF IsCounted
<1>4. PICK i \in I : RequestsGPU(pod.containers[i])
  BY DEF HasGPURequest
<1>5. profile.name \in RequestedProfiles(new)
  <2>1. new.containers[i] = OneOf(profile.name, pod.containers[i], DOMAIN pod.containers[i] \ {"gpu"})
    BY <1>4 DEF IsMIGOf
  <2>2. profile.name \in DOMAIN new.containers[i]
    BY <2>1 DEF OneOf
  <2> QED
    BY <1>1, <2>2 DEF RequestedProfiles
<1>6. CountedGPUs(new) = SumFunctionOnSet(N, DOMAIN new.containers)
  BY <1>3, CountIs
<1>7. SumFunctionOnSet(M, I) <= AskedDevices(pod) /\ AskedDevices(pod) \in Nat
        /\ SumFunctionOnSet(M, I) \in Nat
  BY <1>1, DevicesAsked
<1> HIDE DEF M, N, I
<1>8. SumFunctionOnSet(N, I) <= SumFunctionOnSet(M, I) /\ SumFunctionOnSet(N, I) \in Nat
  <2>1. \A j \in I : N[j] \in Int /\ M[j] \in Int /\ N[j] <= M[j] /\ N[j] \in Nat
    BY <1>2
  <2> QED
    BY <1>1, <2>1, SumLeq, SumNat
<1>9. ASSUME profile.name = "1g.5gb" PROVE SumFunctionOnSet(N, I) > 0
  <2>1. \A j \in I : N[j] \in Nat
    BY <1>2
  <2>2. N[i] > 0 /\ N[i] \in Nat
    BY <1>2, <1>4, <1>9
  <2>3. SumFunctionOnSet(N, I) = N[i] + SumFunctionOnSet(N, I \ {i})
    BY <1>1, <2>1, SumRemove
  <2>4. SumFunctionOnSet(N, I \ {i}) \in Nat
    <3>1. IsFiniteSet(I \ {i}) /\ \A j \in I \ {i} : N[j] \in Nat
      BY <1>1, <2>1, FS_Subset
    <3> QED
      BY <3>1, SumNat
  <2> QED
    BY <2>2, <2>3, <2>4
<1>10. CountedGPUs(new) = SumFunctionOnSet(N, I)
  BY <1>1, <1>6, Zenon
<1> QED
  BY <1>5, <1>7, <1>8, <1>9, <1>10 DEF IsBilled

\* A pod however it was let in.
LEMMA BilledAs ==
  ASSUME NEW pod, IsSubmitted(pod), IsAsked(pod), NEW spec \in AsAdmitted(pod)
  PROVE  IsBilled(spec, pod)
<1> DEFINE k == GetMIGProfile(GetTotalGPURequest(pod), GetTotalMemoryRequest(pod))
<1>0. IsPod(pod)
  BY DEF IsAsked
<1>1. CASE spec = pod
  BY <1>1, KeptCount
<1>2. ASSUME NEW time, spec = ApplyMPSOptimization(pod, time) PROVE IsBilled(spec, pod)
  <2>1. /\ DOMAIN spec.containers = DOMAIN pod.containers
        /\ \A i \in DOMAIN pod.containers :
             spec.containers[i] = IF RequestsGPU(pod.containers[i]) /\ pod.containers[i].gpu < 1
                                  THEN OneOf("gpu.shared", pod.containers[i],
                                             DOMAIN pod.containers[i])
                                  ELSE pod.containers[i]
    <3>1. IsMPSOf(spec, pod, time)
      BY <1>0, <1>2, MPSIsPod
    <3> QED
      BY <3>1, Zenon DEF IsMPSOf
  <2>2. \A i \in DOMAIN pod.containers : spec.containers[i] = pod.containers[i]
    <3> TAKE i \in DOMAIN pod.containers
    <3>1. RequestsGPU(pod.containers[i]) => pod.containers[i].gpu \in Nat /\ pod.containers[i].gpu > 0
      BY DEF IsAsked, IsPod, IsContainer, RequestsGPU
    <3>2. ~(RequestsGPU(pod.containers[i]) /\ pod.containers[i].gpu < 1)
      BY <3>1
    <3> QED
      BY <2>1, <3>2
  <2> QED
    BY <2>1, <2>2, KeptCount
<1>3. ASSUME NEW time, spec = ApplyTimeSlicingOptimization(pod, time) PROVE IsBilled(spec, pod)
  <2>1. spec.containers = pod.containers
    BY <1>0, <1>3, TimeSlicingIsPod
  <2> QED
    BY <2>1, KeptCount
<1>4. ASSUME NEW time, HasGPURequest(pod), k # 0, spec = ConvertedMIG(pod, SupportedProfiles[k], time)
      PROVE  IsBilled(spec, pod)
  <2>1. k \in 1..10
    BY <1>0, <1>4, TotalTyped, ProfileFound, ProfilesOrdered
       DEF GetTotalGPURequest, GetTotalMemoryRequest
  <2>2. SupportedProfiles[k].name \in ProfileNames
    BY <2>1, ProfilesOrdered
  <2>3. IsMIGOf(spec, pod, SupportedProfiles[k], time)
    BY <1>0, <1>4, MIGIsPod
  <2> HIDE DEF k
  <2> QED
    BY <1>4, <2>2, <2>3, ConvertedCount
<1> HIDE DEF k
<1>5. \/ spec = pod
      \/ \E time : /\ HasGPURequest(pod)
                   /\ \/ k # 0 /\ spec = ConvertedMIG(pod, SupportedProfiles[k], time)
                      \/ spec = ApplyMPSOptimization(pod, time)
                      \/ spec = ApplyTimeSlicingOptimization(pod, time)
  BY AdmittedCases, Zenon DEF k
<1> QED
  BY <1>1, <1>2, <1>3, <1>4, <1>5, Zenon

\* Of what a pod was submitted with, the cost tracker charges it for no more while
\* it runs, and for some unless a MIG device it does not know is among what the
\* webhook gave it, provided no container asks for 0 GPUs: such a container gets a
\* device that nobody asked for (ConvertPodToMIG, getGPUCount).
THEOREM RunningPodsBilled ==
  ASSUME NoneAsksForZero
  PROVE  Spec => []RunningPodIsBilled
<1>1. PlacementInv => RunningPodIsBilled
  <2> SUFFICES ASSUME PlacementInv, NEW p \in DOMAIN pods, NEW asked \in SubmittedAs(p)
               PROVE  IsBilled(pods[p].spec, asked)
    BY DEF RunningPodIsBilled, IsBilled
  <2>1. p \in Pod /\ asked \in Submitted[p] /\ pods[p].spec \in AsAdmitted(asked)
    BY DEF PlacementInv, PodsTyped, SubmittedAs
  <2>2. IsSubmitted(asked)
    BY <2>1, PlacementAssumption
  <2>3. IsAsked(asked)
    <3>1. IsPod(asked)
      BY <2>2, SubmittedIsPod
    <3>2. \A i \in DOMAIN asked.containers : DOMAIN asked.containers[i] \subseteq ResourceNames
      BY <2>2 DEF IsSubmitted
    <3>3. \A i \in DOMAIN asked.containers :
            RequestsGPU(asked.containers[i]) => asked.containers[i].gpu > 0
      BY <2>1 DEF NoneAsksForZero
    <3> QED
      BY <3>1, <3>2, <3>3 DEF IsAsked
  <2> QED
    BY <2>1, <2>2, <2>3, BilledAs
<1> QED
  BY <1>1, PlacementInvariance, PTL

=============================================================================
