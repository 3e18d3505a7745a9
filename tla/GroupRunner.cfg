SPECIFICATION FairSpec
CONSTANTS
  mTests <- MCTests
  ALL <- MCAll
  Saves <- MCSaves
  CmdLines <- MCLines
INVARIANTS TypeOK TestSetSound GroupListed TotalsAddUp FailureNotLost RestoredAfterTarget
PROPERTIES RunsOnPreparedDevice SkipsOnlyDependents Terminates
CHECK_DEADLOCK FALSE
