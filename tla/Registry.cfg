SPECIFICATION Spec
CONSTANTS
  Ids = {i1, i2, i3}
  Names = {i2}
  NoName = NoName
  Callers = {c1, c2}
  Sizes = {1, 2}
  MaxSessions = 2
  RingTotalCap = 3
  Absent = Absent
  Nil = Nil
INVARIANTS
  IndexExact
  ReservedIsSum
PROPERTIES
  NameNeverStolen
  ExitedReaped
