SPECIFICATION HostSpec
CONSTANTS
  Seqs = {1, 2}
  Hashes = {h1}
  ZeroHash = Zero
  NoRecord = None
  MaxDraws = 3
INVARIANTS
  HostTypeOK
  HostCustody
PROPERTY NoRevealAfterAbandon
