SPECIFICATION Spec
CONSTANTS
  Kind = {"socket", "events"}
  SndBuf = 12
  ShortLen = 3
  MaxQueued = 2
  MaxEvents = 2
  SizeT = 64
  Gone = Gone
  MaxClients = 2
  MaxCalls = 3
  MaxWork = 5
  Length = {0, 2, 5}
  Printed = {0}
  CloseLen = {0}
  MaxFrames = 2
  FrameLen = 2
  MaxAcks = 1
  AckLen = {2}
  HeadLeft = {0, 1}
INVARIANTS TypeOK SentInOrder HeardInOrder NeverStuck
CHECK_DEADLOCK FALSE
