SPECIFICATION FairSpec
CONSTANTS
  Chunks = 2
  Loaded = {1}
  MaxStamp = 2
  SdFaults = TRUE
  PowerCuts <- AnyPoint
INVARIANTS
  TypeOK
  GuestWritesItsDisk
  ResumedIsFrozen
  CutIsReported
PROPERTIES
  HibernationStops
  BootEnds
