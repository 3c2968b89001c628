SPECIFICATION EnrollmentSpec
CONSTANTS
  p1 = p1
  p2 = p2
  p3 = p3
  c1 = c1
  c2 = c2
  None = None
  Procs <- ThreeProcs
  Codes <- TwoCodes
  Users = {"u1", "u2"}
  Lifetime = 1
  TimeLimit = 1
SYMMETRY Interchangeable
INVARIANTS
  CreatedIdentityPersists
  OneIdentity
  AcceptanceIsTrue
  RetryIsAdmitted
PROPERTIES
  NeverOverwritten
CHECK_DEADLOCK FALSE
