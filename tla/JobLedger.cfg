SPECIFICATION Spec
CONSTANTS
  t1 = t1
  t2 = t2
  u1 = u1
  u2 = u2
  n1 = n1
  n2 = n2
  j1 = j1
  j2 = j2
  k1 = k1
  k2 = k2
  k3 = k3
  None = None
  Kept = Kept
  Txns <- TwoTxns
  Users <- TwoUsers
  Nodes <- TwoNodes
  NodeUser <- OwnOne
  Jobs <- TwoJobs
  Keys <- ThreeKeys
SYMMETRY Interchangeable
INVARIANTS
  EntriesAreJustified
  PaidOnce
  HistoryIsComplete
PROPERTIES
  HistoryIsFinal
CHECK_DEADLOCK FALSE
