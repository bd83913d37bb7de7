SPECIFICATION WatchSpec
CONSTANTS
  Byte = {0, 1}
  Zero = 0
  Cap = 3
  Chunks <- MCChunks
  MaxSeq = 7
  Watches = {w1}
  MaxWatches = 1
  Pattern <- MCPattern
  Overlap = 1
  MatchCap = 1
INVARIANTS
  ReplayExact
  MatchesReported
PROPERTY
  RefinesWindow
