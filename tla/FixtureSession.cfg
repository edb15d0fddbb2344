SPECIFICATION Spec
CONSTANTS
  Values = {0, 1}
  InitialValue = 0
  InitialRevision <- AtEight
  MaxRevisions = 2
  Changes <- MCChanges
  MaxGeometry = 11
  MaxUndo = 3
  MaxReviews = 2
INVARIANTS
  TypeOK
  RevisionNamesOneModel
  NewestRetained
PROPERTIES
  CommitPublishesReviewed
  ImplementsTimeline
CHECK_DEADLOCK FALSE
