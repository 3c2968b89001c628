-------------------------- MODULE HardwareInventory --------------------------
(***************************************************************************)
(* Collection of the hardware inventory (agent/inventory_linux.go,         *)
(* agent/inventory_darwin.go) and the server's check of its contents       *)
(* (server/inventory_auth.go).  A detector whose command fails leaves its  *)
(* field empty and the collection goes on; only at the end are a few       *)
(* fields required.  Files are read without a command, so they are read    *)
(* under a canceled context as well.                                       *)
(*                                                                         *)
(* Versions, drivers and sizes are left out.  So are the acceleration      *)
(* runtimes and the entry of Ollama (five at most; the server allows 64)   *)
(* and the operating system's name, which is never empty.                  *)
(***************************************************************************)
EXTENDS Collection, Integers, FiniteSets, Sequences

CONSTANTS
  Gpus,            \* models of graphics cards, as told apart by sameGPU
  Slots,           \* bound on the cards of one model
  GpuLimit,        \* the server's bound on GPUs, 32 in the code
  OllamaModels,    \* names that "ollama list" can print
  Models,          \* GGUF models (name and size) that a directory can hold
  ModelLimit,      \* maxDiscoveredModels, darwinModelLimit, and the server's bound: 200
  Roots,           \* number of directories that are searched, 3 in the code
  Builds           \* number of places a llama-server is looked for

ASSUME InventoryAssumption ==
  /\ IsFiniteSet(Gpus) /\ IsFiniteSet(OllamaModels) /\ IsFiniteSet(Models)
  /\ Slots \in Nat /\ GpuLimit \in Nat
  /\ ModelLimit \in Nat \ {0} /\ Roots \in Nat \ {0} /\ Builds \in Nat \ {0}
  /\ OllamaModels \cap Models = {}

VARIABLES
  section,   \* the detector that runs next
  root,      \* the next directory to search
  cpu,       \* whether CPU.Model is known
  memory,    \* whether Memory.TotalBytes is known
  gpus,      \* the number of GPUs listed, len(GPUs)
  builds,    \* what is in each place: no llama-server, a broken one, one that answers
  llama,     \* the status listed for llama.cpp
  ollama,    \* what "ollama list" printed
  models     \* the models found so far

inventoryVars ==
  <<platform, canceled, section, root, cpu, memory, gpus, builds, llama, ollama, models>>

Size(s) == Cardinality(s)
Status == {"absent", "installed_unavailable", "available"}
Build == {"none", "broken", "answers"}

InventoryInit ==
  /\ platform \in Platforms
  /\ canceled = FALSE
  /\ section = "cpu"
  /\ root = 1
  /\ cpu = FALSE
  /\ memory = FALSE
  /\ gpus = 0
  /\ builds = [i \in 1..Builds |-> "none"]
  /\ llama = "absent"
  /\ ollama = {}
  /\ models = {}

-------------------------------------------------------------------------------
(* The detectors in the order of collectHardwareInventoryLinux and Darwin. *)

\* lscpu, or sysctl; a name that is missing from the output is no error.  The number of
\* cores comes from the Go runtime if the command fails.
DetectCPU ==
  /\ section = "cpu" /\ section' = "memory"
  /\ cpu' \in CommandOutcomes
  /\ UNCHANGED <<platform, canceled, root, memory, gpus, builds, llama, ollama, models>>

\* /proc/meminfo on Linux, sysctl on Darwin.
DetectMemory ==
  /\ section = "memory" /\ section' = "gpus"
  /\ memory' \in IF platform = "linux" THEN BOOLEAN ELSE CommandOutcomes
  /\ UNCHANGED <<platform, canceled, root, cpu, gpus, builds, llama, ollama, models>>

\* Two cards of one model are two cards.
Card == Gpus \X (1..Slots)
ModelsOf(cards) == {c[1] : c \in cards}

\* What a command can list; one that fails lists nothing.
Listings == IF canceled THEN {{}} ELSE SUBSET Card

\* The models that vulkaninfo adds an entry for.  Every card of lspci has an entry; a
\* Vulkan device joins the first entry of its model, which may be another device's, or the
\* only entry if it is the only device.
VulkanAdds(pci, vulkan) ==
  IF Size(pci) = 1 /\ Size(vulkan) = 1 THEN {} ELSE ModelsOf(vulkan) \ ModelsOf(pci)

\* The models listed after that: the lone entry takes the name Vulkan has for it.
Merged(pci, vulkan) ==
  IF Size(pci) = 1 /\ Size(vulkan) = 1 THEN ModelsOf(vulkan) ELSE ModelsOf(pci \cup vulkan)

\* mergeNvidiaSMI: a line joins an entry of its model only if the vendor of that entry was
\* recognised as NVIDIA, which depends on how the other two tools spell it.
NvidiaAdds(listed, recognised, nvidia) == ModelsOf(nvidia) \ (listed \cap recognised)

\* lspci, vulkaninfo and nvidia-smi on Linux, system_profiler on Darwin.
LinuxGPUs ==
  {Size(pci) + Size(VulkanAdds(pci, vulkan))
     + Size(NvidiaAdds(Merged(pci, vulkan), recognised, nvidia)) :
     pci, vulkan, nvidia \in Listings, recognised \in SUBSET Gpus}
DarwinGPUs == {Size(cards) : cards \in Listings}

DetectGPUs ==
  /\ section = "gpus" /\ section' = "runtimes"
  /\ gpus' \in IF platform = "linux" THEN LinuxGPUs ELSE DarwinGPUs
  /\ UNCHANGED <<platform, canceled, root, cpu, memory, builds, llama, ollama, models>>

\* Seeded fault: every build that is there replaces the entry of the one before.
LastBuild(b) ==
  LET there == {i \in 1..Builds : b[i] # "none"}
  IN IF there = {} THEN "absent"
     ELSE IF b[CHOOSE i \in there : \A j \in there : j <= i] = "answers" THEN "available"
     ELSE "installed_unavailable"

\* One round of the loop of detectLinuxAIRuntimes: the first build is listed, a later one
\* replaces it only if it answers.
Listed(before, found) ==
  CASE found = "none" -> before
    [] found = "answers" -> "available"
    [] found = "broken" -> IF before = "absent" THEN "installed_unavailable" ELSE before

\* The loop.
LinuxLlama(b) ==
  LET entry[n \in 0..Builds] == IF n = 0 THEN "absent" ELSE Listed(entry[n - 1], b[n])
  IN entry[Builds]

\* detectDarwinAIRuntimes asks the first executable it trusts and no other.
DarwinLlama(b) ==
  LET there == {i \in 1..Builds : b[i] # "none"}
  IN IF there = {} THEN "absent"
     ELSE IF b[CHOOSE i \in there : \A j \in there : i <= j] = "answers" THEN "available"
     ELSE "installed_unavailable"

\* Under a canceled context no llama-server answers.
DetectRuntimes ==
  /\ section = "runtimes" /\ section' = "ollama"
  /\ builds' \in [1..Builds -> IF canceled THEN Build \ {"answers"} ELSE Build]
  /\ llama' = IF platform = "linux" THEN LinuxLlama(builds') ELSE DarwinLlama(builds')
  /\ UNCHANGED <<platform, canceled, root, cpu, memory, gpus, ollama, models>>

(***************************************************************************)
(* A loop that adds what was found, in the order of a Go map, and breaks   *)
(* once the collection has reached the limit.  The test comes after the    *)
(* insertion, so that a full collection still takes one more.              *)
(***************************************************************************)
AddUntilFull(have, found) ==
  IF found = {} THEN {have}
  ELSE IF Size(have) >= ModelLimit THEN {have \cup {m} : m \in found}
  ELSE IF Size(have \cup found) <= ModelLimit THEN {have \cup found}
  ELSE {have \cup new : new \in {s \in SUBSET (found \ have) : Size(have \cup s) = ModelLimit}}

\* What is kept of "ollama list" on Darwin.
DarwinOllama(listed) == AddUntilFull({}, listed)

\* "ollama list": all of it on Linux, up to the limit on Darwin.
ListOllama ==
  /\ section = "ollama" /\ section' = "roots"
  /\ \E listed \in IF canceled THEN {{}} ELSE SUBSET OllamaModels :
       /\ ollama' = listed
       /\ models' \in IF platform = "linux" THEN {listed} ELSE DarwinOllama(listed)
  /\ UNCHANGED <<platform, canceled, root, cpu, memory, gpus, builds, llama>>

\* What a directory can yield: discoverGGUFModels takes everything, discoverDarwinGGUF
\* stops at the limit.
LinuxDiscoverable == SUBSET Models
DarwinDiscoverable == {s \in SUBSET Models : Size(s) <= ModelLimit}
Discoverable == IF platform = "linux" THEN LinuxDiscoverable ELSE DarwinDiscoverable

\* Seeded fault: darwinModelLimit is not enforced on the result.
ResultUncut(found) == {found}

\* Darwin's last step: result[:darwinModelLimit].
Result(found) ==
  IF platform = "linux" \/ Size(found) <= ModelLimit THEN {found}
  ELSE {s \in SUBSET found : Size(s) = ModelLimit}

\* One directory.  On Linux "break" leaves the inner loop only, and the next directory is
\* searched all the same; on Darwin "break rootLoop" ends the search.
SearchRoot ==
  /\ section = "roots"
  /\ \E found \in Discoverable : \E have \in AddUntilFull(models, found) :
       IF root = Roots \/ (platform = "darwin" /\ Size(have) >= ModelLimit /\ found # {})
       THEN models' \in Result(have) /\ section' = "check" /\ UNCHANGED root
       ELSE models' = have /\ root' = root + 1 /\ UNCHANGED section
  /\ UNCHANGED <<platform, canceled, cpu, memory, gpus, builds, llama, ollama>>

\* The fields that are required; the model of the CPU is not among them.
CheckRequired ==
  /\ section = "check"
  /\ section' = IF memory THEN "done" ELSE "error"
  /\ UNCHANGED <<platform, canceled, root, cpu, memory, gpus, builds, llama, ollama, models>>

CancelInventory ==
  /\ section \notin {"done", "error"}
  /\ Cancel
  /\ UNCHANGED <<section, root, cpu, memory, gpus, builds, llama, ollama, models>>

InventoryNext ==
  \/ DetectCPU \/ DetectMemory \/ DetectGPUs \/ DetectRuntimes
  \/ ListOllama \/ SearchRoot \/ CheckRequired
  \/ CancelInventory

InventorySpec == InventoryInit /\ [][InventoryNext]_inventoryVars

-------------------------------------------------------------------------------
(* The server: what validateInventorySubmission asks of the contents.      *)

ValidInventory == cpu /\ memory /\ gpus <= GpuLimit /\ Size(models) <= ModelLimit

-------------------------------------------------------------------------------
(* Properties.                                                             *)

Collected == section = "done"

\* An inventory that was collected without an error is refused by the server for one of
\* three reasons: a CPU without a name, because its command failed; more GPUs than the
\* server takes; and on Linux models past the limit, one for each directory searched when
\* the collection was full and as many as ollama listed.  On Darwin models always fit.
RefusalIsExplained ==
  Collected /\ ~ValidInventory =>
    \/ ~cpu
    \/ gpus > GpuLimit
    \/ /\ platform = "linux"
       /\ IF Size(ollama) >= ModelLimit THEN Size(models) <= Size(ollama) + Roots
          ELSE Size(models) <= ModelLimit + Roots - 1

\* llama.cpp is listed if and only if some build of it is there, and as available only if
\* one of them answered; on Linux a build that answers is never hidden by a broken one.
LlamaStatusIsRight ==
  Collected =>
    /\ llama = "absent" <=> \A i \in 1..Builds : builds[i] = "none"
    /\ llama = "available" => \E i \in 1..Builds : builds[i] = "answers"
    /\ platform = "linux" =>
         ((\E i \in 1..Builds : builds[i] = "answers") => llama = "available")

\* The collectors stop at maxDiscoveredModels (inventory_linux.go:28), which is also the
\* most the server accepts (inventory_auth.go:100).
ModelsFit == Collected => Size(models) <= ModelLimit

===============================================================================
