SPECIFICATION Ps2Spec
CONSTANTS
  Keys = {"RCtrl", "a"}
  BUFFER_SIZE = 5
  Garbled = {}
  MaxLosses = 0
PROPERTIES
  CtrlLettersArrive
