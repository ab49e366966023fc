CONSTANTS
  ModbusAddr = {a1, a2}
  Caller = {c1, c2}
  Thread = {t1, t2}
  NoThread = NoThread
  NoCaller = NoCaller
CHECK_DEADLOCK FALSE
SPECIFICATION RecordingFairSpec
INVARIANTS RecordingTypeOK RecorderIsOwned StartLeavesOrder
PROPERTIES StopLeavesNoRecorder StopReturns
