SPECIFICATION Spec
CONSTANTS
  Base = 3
  Batch = 2
  MaxCycles = 5
INVARIANTS
  CarriesExact
  RetryCatchesCarry
  SleepComesOut
