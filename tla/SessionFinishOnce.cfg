SPECIFICATION Spec
CONSTANTS
  Subs = {s1}
  Adopted = {TRUE, FALSE}
  Rollback = TRUE
  MaxOut = 2
  MaxPumps = 3
INVARIANT
  FinishOnce
