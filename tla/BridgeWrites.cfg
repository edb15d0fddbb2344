SPECIFICATION Spec
CONSTANTS
  Values = {0, 1}
  InitialValue = 0
  Changes <- WithCamera
  Forms = {"geometry"}
  EditClasses = {"metadata"}
  Populated = FALSE
  MaxGeometry = 5
  MaxOthers = 1
  MaxServed = 2
  MaxTold = 2
INVARIANTS
  TypeOK
  NoChangeUnnoticed
  ServedOnce
  
PROPERTIES
  CommitMakesReviewed
  
CHECK_DEADLOCK FALSE
