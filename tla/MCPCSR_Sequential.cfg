SPECIFICATION FairSpec
CONSTANTS
  t1 = t1
  t2 = t2
  Threads = {t1}
  SearchModes = {TRUE, FALSE}
  TornSearch = TRUE
  InitVertices = 2
  MaxVertices = 3
  MinCapacity = 4
  MaxU32 = 99
  RoundsLow <- RoundsLow32
  Adds <- TwoByThree
  Removes <- TwoByThree
  Values = {1}
INVARIANTS
  TypeOK
  BlocksIntact
  Sorted
  FirstSlotTaken
  
  KeepsHeight
  SlidesInside
  EdgeExistsExact
PROPERTIES
  VertexAtFreeEnd
  ImplementsGraph
  CallsReturn
