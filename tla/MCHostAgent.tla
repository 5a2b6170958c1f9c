------------------------------ MODULE MCHostAgent ------------------------------
EXTENDS HostAgent, TLC
Symmetry == Permutations(Procs)
=============================================================================
