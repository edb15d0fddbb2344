SPECIFICATION Spec
CONSTANTS
  a = a
  b = b
  None = None
  Clients = {a}
  MaxRequests <- Two
  SentKinds = {"authenticate", "operation"}
INVARIANTS
  BusyMeansNotExecuted
CHECK_DEADLOCK FALSE
