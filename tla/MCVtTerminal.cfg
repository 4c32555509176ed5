SPECIFICATION Spec
CONSTANTS
  W = 2
  H = 4
  MaxParam = 3
INVARIANTS
  TypeOK
  CursorColours
  OutsideStays
PROPERTIES
  OriginHolds
