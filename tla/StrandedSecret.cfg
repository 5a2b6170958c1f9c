SPECIFICATION Spec
CONSTANTS
  MaxPulses = 3
  MaxFaults = 2
  Seqs = {1, 2, 3}
  Hashes = {1, 2, 3}
  ZeroHash = 0
  NoRecord = None
  MaxDraws = 3
INVARIANT NoStrandedSecret
