SPECIFICATION Spec
CONSTANTS
  MaxPulses = 4
  MaxFaults = 2
  Seqs = {1, 2, 3, 4}
  Hashes = {1, 2, 3, 4}
  ZeroHash = 0
  NoRecord = None
  MaxDraws = 3
INVARIANTS
  BeaconTypeOK
  ChainStateMachine
  Custody
PROPERTY KeepsContract
