SPECIFICATION Spec
CONSTANTS
  n1 = n1
  n2 = n2
  s1 = s1
  s2 = s2
  Sessions = {s1, s2}
  Late = {s2}
  Clients = {s1}
  Linger = {s2}
  News = {n1, n2}
  MaxOut = 1
CONSTRAINT SecondProcess
INVARIANTS
  StreamContiguous
  
  

  
