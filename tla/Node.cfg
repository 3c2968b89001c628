SPECIFICATION NodeSpec
CONSTANTS
  Scores <- FewScores
  Grain = 12
  ProbeCount = 5
  SampleCount = 3
  Speeds = {10, 1000}
  ConnectTimes = {10, 61}
  Latencies = {0, 24, 120, 132, 600, 2400}
  Losses = {0, 2, 3, 4, 5, 50}
  Gpus = {"g1", "g2"}
  Slots = 2
  GpuLimit = 2
  OllamaModels = {"o1", "o2", "o3"}
  Models = {"a", "b", "c"}
  ModelLimit = 2
  Roots = 3
  Builds = 2
  Percentages = {"gpu"}
  Sizes = {"ram"}
  Percents = {0, 100, 101}
  Bytes = {0, 1, 2}
  Hours = {0, 9, 22, 24}
  RunLimit = 3
  PromptRates = {333, 1000}
  GenerationRates = {25, 200}
  FirstTokenTimes = {250, 6000}
  Stabilities = {0, 15}
  RequestLimit = 5
  AttemptLimit = 1
  WindowLength = 2
  TimeLimit = 2
INVARIANTS
  TierAgreesWithEligibility
  LostProbeCapsScore
  CancelShowsAsLoss
  BetterNetworkScoresHigher
  RefusalIsExplained
  PayloadRemoved
  LlamaStatusIsRight
  WindowIsAnArc
  ComputeScoreIsEarned
  RefusalIsJustified
  BurstIsBounded
PROPERTIES
  BetterIsNeverWorse
  LooserNeverRefuses
CHECK_DEADLOCK FALSE
