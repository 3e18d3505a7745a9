SPECIFICATION Spec
CONSTANTS
  IOQs = {}
  PostFail = {FALSE}
  ThrowNew = TRUE
  MaxDepth = 4
INVARIANT DisabledOnException
CHECK_DEADLOCK FALSE
