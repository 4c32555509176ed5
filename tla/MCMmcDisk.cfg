SPECIFICATION FairSpec
CONSTANTS
  Kinds = {"MMC", "SD1", "SD2", "HC"}
  LastSector = 1
  Size = 2
  Cell = {"00", "FE"}
  Answers = 2
  Polls = 2
  Tries = 2
INVARIANTS
  TypeFits
  OkMeansDone
  BlockIsAwaited
PROPERTIES
  CallsReturn
