SPECIFICATION MCSpec
CONSTANTS
  Past = 2
  Lead = 1
  Deadline = 1
  Lag = 1
  MaxAhead = 1
  MaxMints = 3
  MaxTime = 3
  MaxFaults = 2
INVARIANTS RollbackIsReal
CONSTRAINTS FewFaults FewAlarms
CHECK_DEADLOCK FALSE
