CONSTANTS
  Type = {"COIL", "HREG"}
  Space = 2
  On = 65280
  Val <- MCVal
  Most = 2
  Callbacks = {"own"}
  Data <- MCData
  Cb <- MCCb
  MaxCallbacks = 1
  Absent = Absent
  None = None
SPECIFICATION RegistersSpec
INVARIANTS TableOK WritesShow
PROPERTY ExceptionWritesNothing
