SPECIFICATION Spec
CONSTANTS
  Chunks = 2
  Loaded = {1}
  MaxStamp = 2
  SdFaults = FALSE
  PowerCuts <- AnyPoint
INVARIANTS
  OnlyWholeSnapshots
