SPECIFICATION Spec
CONSTANTS
  t1 = t1
  t2 = t2
  Threads = {t1, t2}
  SearchModes = {TRUE}
  TornSearch = TRUE
  InitVertices = 6
  MaxVertices = 6
  MinCapacity = 4
  MaxU32 = 99
  RoundsLow <- RoundsLow32
  Adds <- DenseAdds
  Removes <- DenseRemoves
  Values = {1}
INVARIANTS
  BlocksIntact
  Sorted
  FirstSlotTaken
  LeafLocksInside
  LeavesAscend
PROPERTIES
  WritesAreLocked
  ImplementsGraph
