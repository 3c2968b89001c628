SPECIFICATION InventorySpec
CONSTANTS
  Gpus = {"g1"}
  Slots = 1
  GpuLimit = 1
  OllamaModels = {"o1"}
  Models = {"a", "b", "c"}
  ModelLimit = 2
  Roots = 3
  Builds = 1
INVARIANT
  ModelsFit
CHECK_DEADLOCK FALSE
