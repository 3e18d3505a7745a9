SPECIFICATION FairSpec
CONSTANTS
  SQs = {0}
  NumCIDs = 4
  NoCE = NoCE
  SQSize = 3
  CQSize = 3
  MaxAsync = 2
INVARIANTS PeekIsReaped OwnCompletion ReapedOutstanding RoomForCall
PROPERTY CallEnds
CHECK_DEADLOCK FALSE
