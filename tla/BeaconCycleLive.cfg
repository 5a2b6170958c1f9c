SPECIFICATION FairSpec
CONSTANTS
  MaxPulses = 4
  MaxFaults = 1
  Seqs = {1, 2, 3, 4}
  Hashes = {1, 2, 3, 4}
  ZeroHash = 0
  NoRecord = None
  MaxDraws = 3
PROPERTIES
  CommitResolved
  KeepsCommitting
