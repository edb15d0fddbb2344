SPECIFICATION Spec

CONSTANTS
  None = None
  p1 = p1
  p2 = p2
  b1 = b1
  b2 = b2
  s1 = s1
  s2 = s2
  port = port
  Processes = {p1, p2}
  Bridges = {b1, b2}
  Sidecars = {s1, s2}
  Direct <- SecondGoesToFirst
  Ports = {port}
  Makers <- FirstOrEither
  Fallible = {b1}
  Mortal = {p1}

INVARIANTS
  TypeOK
  
  
  
  EveryServingIsFound
  

PROPERTIES
  DiscoveryEnds

CHECK_DEADLOCK FALSE
