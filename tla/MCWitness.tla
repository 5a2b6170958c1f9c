------------------------------ MODULE MCWitness ------------------------------
(* Witness for TLC: a history, one that parts from it after its first leaf  *)
(* and one that parts from it at once.                                      *)
EXTENDS Witness, TLC
CONSTANTS a, b
Histories == {<<a, a, a>>, <<a, b, a>>, <<b>>}
MCTrees == UNION {{SubSeq(h, 1, n) : n \in 1..Len(h)} : h \in Histories}
Symmetry == Permutations(Clients) \cup Permutations(Threads)
=============================================================================
