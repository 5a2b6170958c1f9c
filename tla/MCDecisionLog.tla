---------------------------- MODULE MCDecisionLog ----------------------------
(* DecisionLog for TLC: Workers, namespaces and contracts are interchangeable. *)
EXTENDS DecisionLog, TLC
Symmetry == Permutations(Workers) \cup Permutations(Namespaces) \cup Permutations(Contracts)
=============================================================================
