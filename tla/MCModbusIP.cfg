CONSTANTS
  Peer = {p1}
  Slots = 2
  MaxTrans = 2
  AutoConnect = TRUE
  Unanswered = Unanswered
  MaxConns = 2
  MaxSends = 2
  MaxFrames = 1
CHECK_DEADLOCK FALSE
SPECIFICATION FairSpec
INVARIANTS SlotsOK AnswersOwn
PROPERTY TransactionEnds
