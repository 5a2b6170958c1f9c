SPECIFICATION FairSpec
CONSTANTS
  a = a
  b = b
  Torn = Torn
  Leaves = {a, b}
  Trees <- MCTrees
  Page = 2
  MaxFaults = 3
INVARIANTS
  MirrorTypeOK
  MirrorSound
PROPERTIES
  MirrorAppendOnly
  CatchesUp
CHECK_DEADLOCK FALSE
