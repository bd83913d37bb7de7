SPECIFICATION DSpec
CONSTANTS
  Procs = {p1, p2, p3}
  Takeovers = TRUE
  MaxInodes = 7
  Kids = {k1}
  WSProcs = {p1, p2}
CONSTRAINT
  LockOnceCrossed
INVARIANTS
  OwnerHolds
  OneOwnerWhileLive
  LoneStartSucceeds
  ServingReachable

  
