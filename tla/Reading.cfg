SPECIFICATION Spec

CONSTANTS
  None = None
  Graphs <- StartGraphs
  Labels <- OneLabel
  Queries <- SomeQueries
  Contexts <- SomeContexts
  Searches <- SomeSearches
  MaxRevision = 1
  Fixed = 2
  Summary <- SummarySizes

INVARIANTS
  
  LinksAreFollowed
  ContextIsHonest

PROPERTIES
  PagingEnds

CHECK_DEADLOCK FALSE
