SPECIFICATION Spec
CONSTANTS
  IOQs = {IOSQ, IOCQ}
  PostFail = {TRUE, FALSE}
  ThrowNew = TRUE
  MaxDepth = 3
SYMMETRY Symmetry
INVARIANTS TypeOK DisabledOnThrow MarkIsReset GroupObjectsBacked NestingBounded
CHECK_DEADLOCK FALSE
