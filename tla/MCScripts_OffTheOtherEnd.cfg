SPECIFICATION ScriptSpec
CONSTANTS
  t1 = t1
  t2 = t2
  Threads = {t1}
  SearchModes = {TRUE}
  TornSearch = TRUE
  InitVertices = 7
  MaxVertices = 7
  MinCapacity = 4
  MaxU32 = 99
  RoundsLow <- RoundsLow32
  Script <- OffTheOtherEnd
  Adds <- ScriptedAdds
  Removes <- ScriptedRemoves
  Values = {1}
INVARIANT
  EdgeExistsExact
