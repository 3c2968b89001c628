-------------------------------- MODULE MCNode --------------------------------
(***************************************************************************)
(* The parts of a node and of its rating that share no state, checked in   *)
(* one run: each behaviour is one of one part, the others stay where they  *)
(* start, so that the state spaces add up instead of multiplying.          *)
(***************************************************************************)
EXTENDS NodeRating, NetworkBenchmark, HardwareInventory, ProviderControls, ComputeScore,
        EnrollmentLimiter

VARIABLES
  part  \* the part that moves

FewScores == {39, 49, 50, 70, 90}

Parts == {"rating", "network", "inventory", "controls", "compute", "limiter"}

collection == <<platform, canceled>>
networkVars == <<step, reach, samples, speed, probes, payload, result>>
hardwareVars == <<section, root, cpu, memory, gpus, builds, llama, ollama, models>>

NodeInit ==
  /\ part \in Parts
  /\ BenchmarkInit /\ InventoryInit /\ ControlsInit /\ ComputeInit /\ LimiterInit
  /\ part \in {"network", "inventory"} \/ platform = "linux"
  /\ IF part = "rating" THEN Init
     ELSE known = [d \in Dimensions |-> FALSE] /\ score = [d \in Dimensions |-> 50]

RatingStep ==
  /\ part = "rating" /\ Next
  /\ UNCHANGED <<part, collection, networkVars, hardwareVars, controlVars, runs, limiterVars>>

NetworkStep ==
  /\ part = "network" /\ BenchmarkNext
  /\ UNCHANGED <<part, vars, hardwareVars, controlVars, runs, limiterVars>>

InventoryStep ==
  /\ part = "inventory" /\ InventoryNext
  /\ UNCHANGED <<part, vars, networkVars, controlVars, runs, limiterVars>>

ControlsStep ==
  /\ part = "controls" /\ ControlsNext
  /\ UNCHANGED <<part, vars, collection, networkVars, hardwareVars, runs, limiterVars>>

ComputeStep ==
  /\ part = "compute" /\ ComputeNext
  /\ UNCHANGED <<part, vars, collection, networkVars, hardwareVars, controlVars, limiterVars>>

LimiterStep ==
  /\ part = "limiter" /\ LimiterNext
  /\ UNCHANGED <<part, vars, collection, networkVars, hardwareVars, controlVars, runs>>

NodeNext ==
  \/ RatingStep \/ NetworkStep \/ InventoryStep
  \/ ControlsStep \/ ComputeStep \/ LimiterStep

NodeVars ==
  <<part, vars, collection, networkVars, hardwareVars, controlVars, runs, limiterVars>>

NodeSpec == NodeInit /\ [][NodeNext]_NodeVars

===============================================================================
