SPECIFICATION Spec
CONSTANTS
  Cap = 2
  Chunk = 2
  SinceSet = {0}
  MaxOut = 4
  MaxNet = 2
  MaxBreaks = 2
INVARIANTS
  InOrder
  NoNeedlessGap
  CompleteAtEOF

  
