CONSTANTS
  Client = {c1}
  Kinds = {"read", "write", "multiple", "broadcast", "other", "task", "invalid"}
  Request <- MCRequest
  MaxCalls = 2
CHECK_DEADLOCK FALSE
SPECIFICATION FairSpec
INVARIANTS TypeOK ResultIsOwn
PROPERTY CallReturns
