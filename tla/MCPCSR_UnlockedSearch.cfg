SPECIFICATION Spec
CONSTANTS
  t1 = t1
  t2 = t2
  Threads = {t1, t2}
  SearchModes = {FALSE}
  TornSearch = FALSE
  InitVertices = 3
  MaxVertices = 3
  MinCapacity = 8
  MaxU32 = 99
  RoundsLow <- RoundsLow32
  Adds <- OwnVertex
  Removes <- OwnVertex
  Values = {1}
INVARIANT
  NoEdgeTwice
