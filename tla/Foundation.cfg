SPECIFICATION Spec
CONSTANTS
  Procs = {p, q, r}
  NumGroups = 3
  NoProc = NoProc
INVARIANT OneLockedUser
CHECK_DEADLOCK FALSE
