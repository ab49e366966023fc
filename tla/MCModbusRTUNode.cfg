CONSTANTS
  Slave = {1}
  Request <- MCRequest
  MaxSends = 2
  MaxFaults = 1
CHECK_DEADLOCK FALSE
SPECIFICATION FairSpec
INVARIANTS NodesOK CallbackTrue
PROPERTY EveryRequestEnds
