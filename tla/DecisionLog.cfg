SPECIFICATION Spec
CONSTANTS
  Namespaces = {ns1, ns2}
  Contracts = {c1, c2}
  Workers = {w1, w2}
  MaxAttempts = 2
  MaxRows = 3
INVARIANTS
  DecisionTypeOK
  LogSound
  AnswersSound
  RetriesMeanProgress
PROPERTY KeepsPromise
SYMMETRY Symmetry
