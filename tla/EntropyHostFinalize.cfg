SPECIFICATION HostSpec
CONSTANTS
  Seqs = {1, 2}
  Hashes = {h1}
  ZeroHash = Zero
  NoRecord = None
  MaxDraws = 2
INVARIANT FinalizeRetryable
