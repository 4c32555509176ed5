SPECIFICATION FairSpec
CONSTANTS
  RamTop = 2
  Batch = 3
  Base = 3
  MaxTime = 5
INVARIANTS
  TimerExact
  NoStaleInterrupt
  TakenWithinABatch
PROPERTIES
  ReturnIsExact
  SleepEnds
