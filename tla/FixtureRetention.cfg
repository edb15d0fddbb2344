SPECIFICATION Spec
CONSTANTS
  Values = {0, 1}
  InitialValue = 0
  InitialRevision <- AtFifty
  MaxRevisions = 50
  Changes <- EditsOnly
  MaxGeometry = 101
  MaxUndo = 1
  MaxReviews = 1
INVARIANTS
  CurrentRetained
CHECK_DEADLOCK FALSE
