SPECIFICATION Spec
CONSTANTS
  Attachers = {k1}
  Listeners = {k2}
  None = None
  MaxReq = 3
  MaxPush = 1
INVARIANTS
  OwnOutput
PROPERTIES
  RequestReturns
  HandedOutEnds
