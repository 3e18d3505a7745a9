SPECIFICATION Spec
CONSTANTS
  mTests <- MCTests
  ALL <- MCAll
  Saves <- MCSaves
  CmdLines <- MCLines
INVARIANT FailureNeverLost
CHECK_DEADLOCK FALSE
