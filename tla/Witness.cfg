SPECIFICATION Spec
CONSTANTS
  a = a
  b = b
  Leaves = {a, b}
  Trees <- MCTrees
  Clients = {c1, c2}
  Threads = {t1, t2}
  MaxAttempts = 4
INVARIANTS
  WitnessTypeOK
  HeadCoversCosigned
PROPERTY KeepsVouching
SYMMETRY Symmetry
