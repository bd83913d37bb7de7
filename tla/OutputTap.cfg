SPECIFICATION TapSpec
CONSTANTS
  SilenceAfter = 1
  BufSize = 4
  Conns = {c1}
  Filters = {session, all}
  Session = session
  Daemon = daemon
  All = all
  Depth = 2
  Scenarios <- MCScenarios
  RingCap = 5
INVARIANTS
  MarksTrue
  CommandReplayed
  LogTrue
  TailSeamless
  EventsAccounted
