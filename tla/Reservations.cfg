SPECIFICATION Spec
CONSTANT MaxRuns = 3
INVARIANTS HostAPasses ReservedBlockKept
PROPERTY HostBFailsEarly
CHECK_DEADLOCK FALSE
