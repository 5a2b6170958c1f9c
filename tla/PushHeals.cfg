SPECIFICATION FairSpec
CONSTANTS
  MaxPulses = 3
  MaxFaults = 1
  Seqs = {1, 2, 3}
  Hashes = {1, 2, 3}
  ZeroHash = 0
  NoRecord = None
  MaxDraws = 3
PROPERTY PushHeals
