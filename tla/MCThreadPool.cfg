SPECIFICATION FairSpec
CONSTANTS
  NoThread = NoThread
  NumThreads = 3
  Batches <- TwoBatches
  Width = 4
  Retries = 1
INVARIANTS
  TypeOK
  RunsRegistered
  QuietBetweenBatches
  
PROPERTIES
  Terminates
CHECK_DEADLOCK FALSE
