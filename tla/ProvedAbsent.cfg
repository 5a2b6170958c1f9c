CONSTANTS
  Lead = 1
  Grace = 1
  Ahead = 1
  RevealDeadline = 1
  After = 1
  MaxPulses = 3
  MaxTime = 3
  MaxEntries = 2
  MaxFaults = 1
  TokensInCopy = TRUE
SPECIFICATION MCSpec
INVARIANTS
  ProvedAbsent
ACTION_CONSTRAINT MCStep
CHECK_DEADLOCK FALSE
