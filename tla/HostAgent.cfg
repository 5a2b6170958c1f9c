SPECIFICATION Spec
CONSTANTS
  Procs = {p1, p2}
  Phases = {commit}
  Unordered = finalize
  Seqs = {1, 2}
  NonceCap = 1
  MaxCalls = 3
  MaxConns = 3
  MaxKills = 1
SYMMETRY Symmetry
INVARIANTS AgentTypeOK AnswerIsOwn RecordCoversAdmitted RunsBounded
CHECK_DEADLOCK FALSE
