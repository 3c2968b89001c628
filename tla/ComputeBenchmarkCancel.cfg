SPECIFICATION FairSpec
CONSTANTS
  s1 = s1
  s2 = s2
  b1 = b1
  b2 = b2
  None = None
  OtherModel = OtherModel
  Sessions <- OneSession
  Builds <- OneBuild
  Runs = 1
PROPERTY
  CancelReturns
CHECK_DEADLOCK FALSE
