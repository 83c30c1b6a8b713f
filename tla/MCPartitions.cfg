SPECIFICATION FairSpec
CONSTANTS
  InitVertices = 9
  NumDomains = 2
  PartitionsPerDomain = 2
  NumThreads = 3
  MaxVertices = 10
  Tasks <- SomeTasks
INVARIANTS
  TypeOK
  EveryVertexPlaced
  TasksInDomain
  WritersExclude
PROPERTIES
  ImplementsGraph
  Terminates
CHECK_DEADLOCK FALSE
