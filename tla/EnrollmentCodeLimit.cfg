SPECIFICATION Spec
CONSTANTS
  u1 = u1
  u2 = u2
  c1 = c1
  c2 = c2
  n1 = n1
  n2 = n2
  k1 = k1
  k2 = k2
  r1 = r1
  r2 = r2
  r3 = r3
  r4 = r4
  None = None
  Owner = u1
  Users <- OneUser
  Codes <- TwoCodes
  Nodes <- OneNode
  Keys <- TwoKeys
  Reqs <- TwoReqs
  Times <- SmallTimes
  CodeLifetime = 1
  MaxActiveCodes = 1
  MaxTime = 1
INVARIANT
  ActiveCodesBounded
CHECK_DEADLOCK FALSE
