SPECIFICATION Spec
CONSTANTS
  blk = blk
  stat = stat
  File = {blk, stat}
  BLK = blk
  STAT = stat
  Data = {d0, d1}
  csize = 2
  n_fatent = 5
  database = 1
  fat <- MCfat
  chain <- MCchain
  fsize <- MCfsize
  Faults = TRUE
  Capacity = 4
  Cells = 2
  MaxLen = 2
SYMMETRY MCsymmetry
INVARIANTS
  TypeOK
  PositionKnown
PROPERTIES
  ImplementsBlockDisk
