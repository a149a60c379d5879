------------------------------ MODULE GPUSharing ------------------------------
(***************************************************************************)
(* Sharing a GPU between pods: the managers of pkg/sharing and the         *)
(* mutating webhook that decides which of them converts a pod              *)
(* (pkg/webhook/mutating_webhook.go).                                      *)
(*                                                                         *)
(* A pod has containers, each a function from the resources it requests to *)
(* quantities ("gpu", "memory" in KB, a MIG profile by its name,           *)
(* "gpu-shared"); the type of its workload; its annotations, a function    *)
(* with those that are there ("profile" is mig-profile, "mps" mps-enabled, *)
(* "timeslicing" time-slicing-enabled); a node selector, tolerations and a *)
(* priority.  The API server has made the limits of an extended resource   *)
(* equal to its requests, so only the requests are kept.                   *)
(***************************************************************************)
EXTENDS Integers, SequencesExt

CONSTANTS
  EnableMIG, EnableMPS, EnableTS,
  Times        \* the times at which the webhook is called

ASSUME EnabledAssumption == {EnableMIG, EnableMPS, EnableTS} \subseteq BOOLEAN

Annotation(pod, name) == IF name \in DOMAIN pod.annotations THEN pod.annotations[name] ELSE ""

RequestsGPU(container) == "gpu" \in DOMAIN container

HasGPURequest(pod) == \E i \in DOMAIN pod.containers : RequestsGPU(pod.containers[i])

TotalRequest(pod, resource) ==
  SumFunction([i \in DOMAIN pod.containers |->
                 IF resource \in DOMAIN pod.containers[i] THEN pod.containers[i][resource] ELSE 0])

GetTotalGPURequest(pod) == TotalRequest(pod, "gpu")
GetTotalMemoryRequest(pod) == TotalRequest(pod, "memory")

\* f changed to new where new is defined.
Updated(f, new) ==
  [x \in DOMAIN f \union DOMAIN new |-> IF x \in DOMAIN new THEN new[x] ELSE f[x]]

Annotated(pod, new) == [pod EXCEPT !.annotations = Updated(@, new)]

\* The container with one of the resource, and of what it requests with what is kept.
OneOf(resource, container, kept) ==
  [r \in kept \union {resource} |-> IF r = resource THEN 1 ELSE container[r]]

-----------------------------------------------------------------------------
(* The managers.                                                           *)

\* KB.
MB == 1024
GB == 1024 * MB

\* A profile with the compute units, and the memory in MB.
Profile(name, compute, gigabytes, card) ==
  [name |-> name, compute |-> compute, memory |-> 1024 * gigabytes, card |-> card]

\* The profiles in the order they are searched: those of the 40 GB card first.
SupportedProfiles ==
  << Profile("1g.5gb", 1, 5, 40), Profile("2g.10gb", 2, 10, 40), Profile("3g.20gb", 3, 20, 40),
     Profile("4g.20gb", 4, 20, 40), Profile("7g.40gb", 7, 40, 40),
     Profile("1g.10gb", 1, 10, 80), Profile("2g.20gb", 2, 20, 80), Profile("3g.40gb", 3, 40, 80),
     Profile("4g.40gb", 4, 40, 80), Profile("7g.80gb", 7, 80, 80) >>

ProfileNames == {SupportedProfiles[i].name : i \in DOMAIN SupportedProfiles}

\* The request is rounded down to whole MB.
Satisfies(profile, gpus, memory) ==
  profile.compute >= gpus /\ profile.memory >= memory \div MB

\* Mutant: a profile is chosen for its compute units alone.
GetMIGProfileByCompute(gpus, memory) ==
  SelectInSeq(SupportedProfiles, LAMBDA profile : profile.compute >= gpus)

\* The position of the profile for a request, 0 when there is none.
GetMIGProfile(gpus, memory) ==
  SelectInSeq(SupportedProfiles, LAMBDA profile : Satisfies(profile, gpus, memory))

\* Mutant: containers without a GPU get a device too.
ConvertPodToMIGEverywhere(pod, profile) ==
  [ Annotated(pod, [original |-> GetTotalGPURequest(pod), profile |-> profile.name])
    EXCEPT !.containers =
      [i \in DOMAIN @ |-> OneOf(profile.name, @[i], DOMAIN @[i] \ {"gpu"})] ]

\* Every container with a GPU gets one device of the profile instead.
ConvertPodToMIG(pod, profile) ==
  [ Annotated(pod, [original |-> GetTotalGPURequest(pod), profile |-> profile.name])
    EXCEPT !.containers =
      [i \in DOMAIN @ |->
         IF RequestsGPU(@[i]) THEN OneOf(profile.name, @[i], DOMAIN @[i] \ {"gpu"}) ELSE @[i]] ]

\* A request for a GPU is a whole number, so the part for a fraction of one
\* ("gpu.shared") is reached by a request for none.
ConvertPodToMPS(pod) ==
  [ Annotated(pod, [original |-> GetTotalGPURequest(pod), mps |-> "true"])
    EXCEPT !.selector = @ \union {"mps"},
           !.containers = [i \in DOMAIN @ |->
             IF RequestsGPU(@[i]) /\ @[i].gpu < 1 THEN OneOf("gpu.shared", @[i], DOMAIN @[i])
             ELSE @[i]] ]

\* Mutant: the toleration is added without looking whether it is there.
ConvertPodToTimeSlicingBlindly(pod) ==
  [ Annotated(pod, [original |-> GetTotalGPURequest(pod), timeslicing |-> "true"])
    EXCEPT !.selector = @ \union {"timeslicing"}, !.tolerations = Append(@, "timeslicing") ]

ConvertPodToTimeSlicing(pod) ==
  [ Annotated(pod, [original |-> GetTotalGPURequest(pod), timeslicing |-> "true"])
    EXCEPT !.selector = @ \union {"timeslicing"},
           !.tolerations = IF Contains(@, "timeslicing") THEN @ ELSE Append(@, "timeslicing") ]

-----------------------------------------------------------------------------
(* The webhook.                                                            *)

\* Whether the request is small enough for a slice of a GPU.
IsSmall(pod) == GetTotalGPURequest(pod) = 1 /\ GetTotalMemoryRequest(pod) < 20 * GB

SharingModes == {"mig", "mps", "timeslicing", "exclusive"}

\* An annotation with a sharing mode decides, whether or not it is enabled.
SelectOptimizationStrategy(pod) ==
  CASE "mode" \in DOMAIN pod.annotations -> pod.annotations.mode
    [] "mode" \notin DOMAIN pod.annotations /\ pod.type = "training" -> "exclusive"
    [] OTHER ->
         IF EnableMIG /\ IsSmall(pod) THEN "mig"
         ELSE IF EnableMPS /\ pod.type = "inference" THEN "mps"
         ELSE IF EnableTS /\ pod.type \in {"development", "batch"} THEN "timeslicing"
         ELSE IF Annotation(pod, "sharing") # "enabled" THEN "exclusive"
         ELSE IF EnableMPS THEN "mps"
         ELSE IF EnableTS THEN "timeslicing" ELSE "exclusive"

\* The time is that of the call.
Optimized(pod, strategy, time) ==
  Annotated(pod, [optimized |-> "true", strategy |-> strategy, timestamp |-> time])

\* No profile for the request: the error is logged and the pod left alone.
ApplyMIGOptimization(pod, time) ==
  LET i == GetMIGProfile(GetTotalGPURequest(pod), GetTotalMemoryRequest(pod)) IN
  IF i = 0 THEN pod ELSE Optimized(ConvertPodToMIG(pod, SupportedProfiles[i]), "mig", time)

ApplyMPSOptimization(pod, time) == Optimized(ConvertPodToMPS(pod), "mps", time)

ApplyTimeSlicingOptimization(pod, time) ==
  Optimized(ConvertPodToTimeSlicing(pod), "timeslicing", time)

\* The pod as the webhook lets it in.
Handle(pod, time) ==
  LET strategy == SelectOptimizationStrategy(pod) IN
  CASE ~HasGPURequest(pod) \/ Annotation(pod, "optimize") = "false" -> pod
    [] OTHER -> CASE strategy = "mig" /\ EnableMIG -> ApplyMIGOptimization(pod, time)
                  [] strategy = "mps" /\ EnableMPS -> ApplyMPSOptimization(pod, time)
                  [] strategy = "timeslicing" /\ EnableTS -> ApplyTimeSlicingOptimization(pod, time)
                  [] OTHER -> pod

\* The webhook answers, or does not (it times out, panics for want of a decoder
\* or of a time): its failure policy is Ignore, and the pod is as submitted.
AsAdmitted(spec) == {spec} \union {Handle(spec, time) : time \in Times}

-----------------------------------------------------------------------------
(* What a user submits: any resource the program knows and any annotation  *)
(* the docs tell of, but not those the webhook alone leaves.               *)

IsContainer(c) == c \in [DOMAIN c -> Nat]

ResourceNames == {"gpu", "memory", "gpu-shared", "gpu.shared"} \union ProfileNames

IsSubmitted(pod) ==
  /\ pod \in [containers : Seq(Range(pod.containers)), type : STRING,
             annotations : [DOMAIN pod.annotations -> STRING],
             selector : SUBSET STRING, tolerations : Seq(STRING), priority : Int]
  /\ \A i \in DOMAIN pod.containers :
       IsContainer(pod.containers[i]) /\ DOMAIN pod.containers[i] \subseteq ResourceNames
  /\ DOMAIN pod.annotations
       \subseteq {"mode", "optimize", "sharing", "profile", "mps", "timeslicing"}
=============================================================================
