SPECIFICATION FairSpec
CONSTANTS
  SQs = {1, 2, 3}
  NumIOQs = 3
  NumCIDs = 8
  NoCE = NoCE
  MaxEntries = 6
  Tests = {"Full", "RollDiff", "RollSame", "ManyCmdSubmit", "SizeMismatch", "ManySQtoCQ"}
INVARIANTS NoFalseFailure FullFillsBoth RollsOver
PROPERTY TestEnds
CHECK_DEADLOCK FALSE
