------------------------------- MODULE MCMinting -------------------------------
EXTENDS Minting
\* keys/KEYS.json in small: the time host's key was replaced between two pulses,
\* the entropy host's between a commit and what resolves it, if that is the
\* first pulse; the aggregator's windows overlap.
K(role, key, from, to) == [role |-> role, key |-> key, from |-> from, to |-> to]
KeyHistory ==
  <<K("time", "t1", 1, 1), K("time", "t2", 2, 9), K("aggregator", "a1", 1, 2), K("aggregator", "a2", 2, 9),
    K("gnss", "g", 1, 9), K("witness", "w", 1, 9), K("entropy", "e1", 1, 1), K("entropy", "e2", 2, 9)>>
\* RECOVERY.md 2f carried out: the retired aggregator key gets a second window.
FailedBack == Append(KeyHistory, K("aggregator", "a1", 4, 9))
=============================================================================
