--------------------------- MODULE MCDecisionMirror ---------------------------
(* DecisionMirror for TLC: a history of three leaves, and a log that parts   *)
(* from it after the first one.                                              *)
EXTENDS DecisionMirror
CONSTANTS a, b
Histories == {<<a, a, a>>, <<a, b, a>>}
MCTrees == UNION {{SubSeq(h, 1, n) : n \in 0..Len(h)} : h \in Histories}
MCHistory == {SubSeq(<<a, b, a>>, 1, n) : n \in 0..3}
=============================================================================
