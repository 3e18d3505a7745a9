SPECIFICATION FairSpec
CONSTANTS
  SQs = {0, 1}
  NumCIDs = 3
  NoCE = NoCE
  SQSize = 3
  CQSize = 2
  MaxAsync = 0
PROPERTY IsCall
CHECK_DEADLOCK FALSE
