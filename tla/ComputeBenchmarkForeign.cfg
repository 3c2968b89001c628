SPECIFICATION Spec
CONSTANTS
  s1 = s1
  s2 = s2
  b1 = b1
  b2 = b2
  None = None
  OtherModel = OtherModel
  Sessions <- TwoSessions
  Builds <- OneBuild
  Runs = 1
INVARIANT
  MeasuresOwnServer
CHECK_DEADLOCK FALSE
