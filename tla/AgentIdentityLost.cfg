SPECIFICATION Spec
CONSTANTS
  p1 = p1
  p2 = p2
  p3 = p3
  None = None
  Procs <- ThreeProcs
SYMMETRY Interchangeable
INVARIANT
  EnrolledIdentityPersists
CHECK_DEADLOCK FALSE
