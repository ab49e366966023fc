CONSTANTS
  Addr = {a1, a2}
  Slots = 2
  QueueLen = 3
  Free = Free
  NoSlot = NoSlot
  NoEvent = NoEvent
  MaxConns = 3
  MaxPosted = 6
CHECK_DEADLOCK FALSE
SPECIFICATION Spec
INVARIANTS TypeOK OnlyFinIsStale SlotOfOne
