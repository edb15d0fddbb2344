SPECIFICATION Spec
CONSTANTS
  a = a
  b = b
  None = None
  Clients = {a, b}
  MaxRequests <- TwoAndOne
  SentKinds = {"authenticate", "forged", "operation", "stale", "garbled"}
INVARIANTS
  TypeOK
  ResponsesMatch
  OnlyPairedAct
  ExecutedInOrder
PROPERTIES
  EveryWaitEnds
  StopReturns
CHECK_DEADLOCK FALSE
