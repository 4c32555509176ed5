SPECIFICATION FairSpec
CONSTANTS
  QueueLen = 2
  BytesPerTask = 2
  Wrap = 7
  MaxKeyLen = 2
  MaxKeys = 1
  CdcLen = 6
  Serial = TRUE
  Vga = TRUE
INVARIANTS
  TypeOK
  OutputInOrder
  ReadingHostMissesNothing
  SeenIsThere
PROPERTIES
  PutReturns
  EveryTaskRuns
