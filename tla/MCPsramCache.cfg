SPECIFICATION Spec
CONSTANTS
  LineSize = 2
  SetCount = 2
  ChipLines = 3
  TwoChips = TRUE
  Zero = 0
  Byte <- MCByte
  PowerOn <- MCBlank
  Accesses <- MCAccesses
  Transfers <- MCTransfers
INVARIANTS
  TypeOK
  UniqueLine
  CleanIsCoherent
  FlushReachesRam
PROPERTIES
  MostRecentStays
  ImplementsFlatMemory
