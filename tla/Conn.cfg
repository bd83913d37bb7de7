SPECIFICATION Spec
CONSTANTS
  Conns = {c1, c2}
  WSConns = {c2}
  Sessions = {s1}
  Linger = {}
  None = None
  Room = 1
  MaxFrames = 2
INVARIANTS
  GoneHoldsNothing
  SizeTrue
PROPERTIES
  LingerHonoured
  CleanupEnds
