SPECIFICATION Spec
CONSTANTS
  n1 = n1
  n2 = n2
  k1 = k1
  k2 = k2
  m1 = m1
  m2 = m2
  p1 = p1
  p2 = p2
  p3 = p3
  None = None
  Nodes <- OneNode
  Keys <- TwoKeys
  Measurements <- TwoMeasurements
  Reports <- TwoReports
  Posts <- TwoPosts
  MaxSkew = 1
  MaxDrift = 1
  MaxTime = 3
SYMMETRY Interchangeable
INVARIANTS
  AcceptedOnce
  StoredIsFresh
  ConfirmedIsStored
  LatestIsRecent
PROPERTIES
  ImplementsStore
CHECK_DEADLOCK FALSE
