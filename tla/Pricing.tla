-------------------------------- MODULE Pricing --------------------------------
(***************************************************************************)
(* The price of a GPU hour, pkg/cost/pricing.go, and what the cost tracker *)
(* reads off a pod and its node to bill it (the helpers at the end of      *)
(* pkg/cost/tracker.go).                                                   *)
(*                                                                         *)
(* Prices are whole numbers of eighths of a thousandth of a dollar, which  *)
(* keeps the price of an eighth of a machine, and 35 percent of an         *)
(* estimate, exact.  GPU types, machines and regions have short names; a   *)
(* table lists the machines some GPU type is mapped to, since no request   *)
(* asks for another.  The tables are part of the program, so what the      *)
(* price cache holds for an hour is what a new lookup would find.          *)
(***************************************************************************)
EXTENDS Integers, FiniteSets

Lookup(table, key, default) == IF key \in DOMAIN table THEN table[key] ELSE default

GPUTypes == {"a100", "a100-80", "h100", "v100", "t4", "a10", "l4", "unknown"}

AWSInstance ==
  [gpuType \in {"a100", "a100-80", "v100", "t4", "a10"} |->
     CASE gpuType = "a100" -> "p4d" [] gpuType = "a100-80" -> "p4de" [] gpuType = "v100" -> "p3"
       [] gpuType = "t4" -> "g4dn" [] gpuType = "a10" -> "g5"]
GCPMachine == [a100 |-> "a2", v100 |-> "n1-v100", t4 |-> "n1-t4"]
AzureVM == [a100 |-> "ND96", v100 |-> "NC6", t4 |-> "NC4"]

Machine(provider, gpuType) ==
  CASE provider = "aws" -> Lookup(AWSInstance, gpuType, "p3")
    [] provider = "gcp" -> Lookup(GCPMachine, gpuType, "a2")
    [] provider = "azure" -> Lookup(AzureVM, gpuType, "ND96")
    [] OTHER -> "none"

\* Thousandths of a dollar for a machine and hour.
AWSOnDemandPrices ==
  [region \in {"us-east-1", "us-west-2"} |->
     IF region = "us-east-1"
     THEN [p4d |-> 32770, p4de |-> 40960, p3 |-> 3060, g5 |-> 1006, g4dn |-> 526]
     ELSE [p4d |-> 32770, p3 |-> 3060, g5 |-> 1006, g4dn |-> 526]]

AWSSpotPrices ==
  [region \in {"us-east-1"} |->
     [p4d |-> 11470, p4de |-> 14340, p3 |-> 1070, g5 |-> 350, g4dn |-> 180]]

\* What is asked on demand or for a spot machine.
Price(onDemand, spot, capacity) == IF capacity = "spot" THEN spot ELSE onDemand

GCPPrices(capacity) ==
  [region \in {"us-central1", "europe-west4"} |->
     IF region = "europe-west4" THEN [a2 |-> Price(4030, 1210, capacity)]
     ELSE [machine \in {"a2", "n1-t4"} |->
             IF machine = "a2" THEN Price(3670, 1100, capacity) ELSE Price(950, 290, capacity)]]

AzurePrices(capacity) ==
  [region \in {"eastus", "westus2"} |->
     [machine \in {"ND96", "NC6"} \union (IF region = "eastus" THEN {"NC4"} ELSE {}) |->
        CASE machine = "ND96" -> Price(32400, 11340, capacity)
          [] machine = "NC6" -> Price(3060, 1070, capacity)
          [] machine = "NC4" -> Price(526, 184, capacity)]]

PriceTable(provider, capacity) ==
  CASE provider = "aws" -> Price(AWSOnDemandPrices, AWSSpotPrices, capacity)
    [] provider = "gcp" -> GCPPrices(capacity)
    [] provider = "azure" -> AzurePrices(capacity)
    [] OTHER -> <<>>

GPUsOf(machine) == IF machine \in {"p4d", "p4de", "ND96"} THEN 8 ELSE 1

Estimates ==
  [gpuType \in GPUTypes \ {"unknown"} |->
     CASE gpuType = "a100" -> 3000 [] gpuType = "a100-80" -> 4000 [] gpuType = "h100" -> 5000
       [] gpuType = "v100" -> 2500 [] gpuType = "t4" -> 950 [] gpuType = "a10" -> 1200
       [] gpuType = "l4" -> 850]

\* What is not known at all is estimated at two dollars.
EstimatedPrice(gpuType, capacity) ==
  (8 * Lookup(Estimates, gpuType, 2000) * Price(100, 35, capacity)) \div 100

\* Mutant: the price of a spot machine is not divided among its GPUs.
GetGPUPricingUndivided(provider, gpuType, capacity, region) ==
  LET machine == Machine(provider, gpuType)
      prices == Lookup(PriceTable(provider, capacity), region, <<>>) IN
  IF machine \in DOMAIN prices
  THEN (8 * prices[machine]) \div Price(GPUsOf(machine), 1, capacity)
  ELSE EstimatedPrice(IF provider = "aws" /\ capacity = "spot" THEN machine ELSE gpuType, capacity)

\* A price listed for the machine of a GPU type, divided among its GPUs, or an
\* estimate.  The estimate for an AWS spot machine is asked for with the
\* machine's type in the place of the GPU's, which no estimate is listed for.
GetGPUPricing(provider, gpuType, capacity, region) ==
  LET machine == Machine(provider, gpuType)
      prices == Lookup(PriceTable(provider, capacity), region, <<>>) IN
  IF machine \in DOMAIN prices THEN (8 * prices[machine]) \div GPUsOf(machine)
  ELSE EstimatedPrice(IF provider = "aws" /\ capacity = "spot" THEN machine ELSE gpuType, capacity)

-----------------------------------------------------------------------------
(* What the tracker bills.                                                 *)

\* A pod requests resources (a function to quantities; "mig-1g.5gb" is the
\* one profile the tracker counts, "mig" stands for every other) and may be
\* annotated with a sharing mode and for time-slicing.  A node has the labels
\* it has: a function to values.
Resources == {"gpu", "mig-1g.5gb", "mig", "gpu-shared"}

IsGPUPod(pod) == DOMAIN pod.requests \cap Resources # {}

GetGPUCount(pod) ==
  LET count(r) == Lookup(pod.requests, r, 0) IN
  count("gpu") + count("mig-1g.5gb") + count("gpu-shared")

FirstLabel(node, a, b, default) == Lookup(node, a, Lookup(node, b, default))

GetGPUType(node) ==
  FirstLabel(node, "gpu.product", "accelerator", Lookup(node, "instance-type", "unknown"))

GetCapacityType(node) ==
  CASE "capacity-type" \in DOMAIN node -> node["capacity-type"]
    [] "capacity-type" \notin DOMAIN node
       /\ \/ Lookup(node, "gke-preemptible", "") = "true"
          \/ Lookup(node, "scalesetpriority", "") = "spot"
          \/ Lookup(node, "node-lifecycle", "") = "spot" -> "spot"
    [] OTHER -> "on-demand"

GetRegion(node) == FirstLabel(node, "region", "region-beta", "us-east-1")

GetSharingMode(pod) ==
  CASE pod.mode # "" -> pod.mode
    [] pod.mode = "" /\ "mig-1g.5gb" \in DOMAIN pod.requests -> "mig"
    [] pod.mode = "" /\ DOMAIN pod.requests \cap {"mig-1g.5gb", "gpu-shared"} = {"gpu-shared"}
         -> "mps"
    [] OTHER -> IF pod.timeslicing THEN "timeslicing" ELSE "exclusive"

\* Quarters of the price.
SharingFactor(mode) == IF mode \in {"mps", "timeslicing"} THEN 1 ELSE 4

\* The rate calculatePodCost bills a pod at, in quarters of a price.
HourlyRate(provider, pod, node) ==
  GetGPUPricing(provider, GetGPUType(node), GetCapacityType(node), GetRegion(node))
  * GetGPUCount(pod) * SharingFactor(GetSharingMode(pod))

=============================================================================
