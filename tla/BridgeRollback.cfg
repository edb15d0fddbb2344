SPECIFICATION Spec
CONSTANTS
  Values = {0, 1}
  InitialValue = 0
  Changes <- ModelOnly
  Forms = {"full"}
  EditClasses = {"parametric"}
  Populated = TRUE
  MaxGeometry = 6
  MaxOthers = 1
  MaxServed = 2
  MaxTold = 1
PROPERTIES
  RollbackFailureBlocks
CHECK_DEADLOCK FALSE
