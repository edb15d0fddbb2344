SPECIFICATION Spec
CONSTANTS
  Values = {0, 1}
  InitialValue = 0
  InitialRevision <- Origin
  MaxRevisions = 2
  MaxCounter = 2
  MaxUndo = 3
INVARIANTS
  ShowsLive
  
CHECK_DEADLOCK FALSE
