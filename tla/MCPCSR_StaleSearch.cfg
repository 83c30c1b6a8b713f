SPECIFICATION Spec
CONSTANTS
  t1 = t1
  t2 = t2
  Threads = {t1, t2}
  SearchModes = {TRUE}
  TornSearch = TRUE
  InitVertices = 3
  MaxVertices = 3
  MinCapacity = 8
  MaxU32 = 99
  RoundsLow <- RoundsLow32
  Adds <- OwnEdges
  Removes <- OwnEdges
  Values = {1}
INVARIANT
  EdgeExistsExact
