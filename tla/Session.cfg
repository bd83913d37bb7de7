SPECIFICATION Spec
CONSTANTS
  Subs = {s1}
  Adopted = {TRUE, FALSE}
  Rollback = TRUE
  MaxOut = 2
  MaxPumps = 3
INVARIANTS
  DrainedBeforeExit
PROPERTIES
  SubscriberWakes
  QuiescentWhileHeld
  ExitReported
