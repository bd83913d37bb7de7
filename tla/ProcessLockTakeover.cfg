SPECIFICATION Spec
CONSTANTS
  Procs = {p1, p2, p3}
  Takeovers = TRUE
  MaxInodes = 7
INVARIANT
  InheritedLockHolds
