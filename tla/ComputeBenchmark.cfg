SPECIFICATION FairBenchSpec
CONSTANTS
  s1 = s1
  s2 = s2
  b1 = b1
  b2 = b2
  None = None
  OtherModel = OtherModel
  Sessions <- OneSession
  Builds <- TwoBuilds
  Runs = 3
INVARIANTS
  NoAbandonedServer
  NoServerBesideBench
  PayloadIsComplete
PROPERTIES
  CanceledReturnsNothing
  SessionReturns
CHECK_DEADLOCK FALSE
