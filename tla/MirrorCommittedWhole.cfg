SPECIFICATION Spec
CONSTANTS
  a = a
  b = b
  Torn = Torn
  Leaves = {a, b}
  Trees <- MCHistory
  Page = 2
  MaxFaults = 2
INVARIANT CommittedWhole
CHECK_DEADLOCK FALSE
