---------------------------- MODULE WitnessPromise ----------------------------
(***************************************************************************)
(* What a witness of a log promises (nbwitness.py, first lines; TLOG.md 7) *)
(* to somebody who only ever sees its cosignatures: they are all of one    *)
(* tree that grows, and the newest tree it vouched for is never given up.  *)
(***************************************************************************)
EXTENDS Naturals, Sequences

VARIABLES
  newest,   \* the largest tree cosigned
  cosigned  \* every tree cosigned

promised == <<newest, cosigned>>

IsPrefixOf(l, m) == Len(l) <= Len(m) /\ SubSeq(m, 1, Len(l)) = l

Init == newest = <<>> /\ cosigned = {}
Vouch ==
  /\ IsPrefixOf(newest, newest')
  /\ cosigned' = cosigned \cup {newest'}
Spec == Init /\ [][Vouch]_promised
=============================================================================
