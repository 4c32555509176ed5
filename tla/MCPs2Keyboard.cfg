SPECIFICATION Ps2Spec
CONSTANTS
  Keys = {"LShift", "LCtrl", "RCtrl", "a", "up"}
  BUFFER_SIZE = 4
  Garbled = {"F0", "12"}
  MaxLosses = 2
INVARIANTS
  NothingSwallowed
  ModifiersRecover
PROPERTIES
  TypedAsPressed
