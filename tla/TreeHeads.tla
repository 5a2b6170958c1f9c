------------------------------- MODULE TreeHeads -------------------------------
(***************************************************************************)
(* The Merkle tree of RFC 6962 as tlog.py and worker/decisions.js compute  *)
(* it, over a hash that is a free constructor: two hashes are equal only   *)
(* when they were made from the same things in the same way, which is what *)
(* is assumed of SHA-256 with its leaf and node prefixes.                  *)
(* The provers recurse over a range of leaves, named by the number i of    *)
(* leaves before it and its length n.  The verifiers are RFC 9162's loops  *)
(* over two shifting indices; nothing in them is recursive, so they cannot *)
(* be read off the tree.                                                   *)
(***************************************************************************)
EXTENDS Integers, Sequences

Leaf(data) == <<0, data>>
Node(left, right) == <<1, left, right>>

Positive == Nat \ {0}
Pow2[k \in Nat] == IF k = 0 THEN 1 ELSE 2 * Pow2[k - 1]
\* The largest power of two strictly below n (n >= 2).
PowerBelow(n) == CHOOSE p \in {Pow2[k] : k \in 0 .. n} : p < n /\ 2 * p >= n

\* The roots of the ranges of D.
Subtree(D) ==
  LET h[n \in Positive] == [i \in Nat |->
        IF n = 1 THEN Leaf(D[i + 1])
        ELSE LET k == PowerBelow(n) IN Node(h[k][i], h[n - k][i + k])]
  IN h
MTH(D) == Subtree(D)[Len(D)][0]

\* PATH(m, D): the audit path of leaf m, counted from 0.
Paths(m, D) ==
  LET h == Subtree(D)
      path[n \in Positive] == [i \in Nat |->
        IF n = 1 THEN <<>>
        ELSE LET k == PowerBelow(n) IN
             IF m < i + k THEN Append(path[k][i], h[n - k][i + k])
                          ELSE Append(path[n - k][i + k], h[k][i])]
  IN path
InclusionPath(m, D) == Paths(m, D)[Len(D)][0]

\* PROOF(m, D) for 0 < m <= Len(D).  The range that ends with leaf m is the
\* verifier's own old tree when nothing is before it (_subproof's b).
Proofs(m, D) ==
  LET h == Subtree(D)
      sub[n \in Positive] == [i \in Nat |->
        IF n = 1 \/ m = i + n THEN (IF i = 0 THEN <<>> ELSE <<h[n][i]>>)
        ELSE LET k == PowerBelow(n) IN
             IF m <= i + k THEN Append(sub[k][i], h[n - k][i + k])
                           ELSE Append(sub[n - k][i + k], h[k][i])]
  IN sub
ConsistencyProof(m, D) == Proofs(m, D)[Len(D)][0]

-----------------------------------------------------------------------------
(* The verifiers shift two indices together, fn and sn: of the last leaves *)
(* of the older and the newer tree, or of the leaf asked for and the last  *)
(* one.  up is by how much; fr and sr are the hashes rebuilt so far.       *)
Up(x, k) == x \div Pow2[k]
Odd(x) == x % 2 = 1
TrailingZeros(x) == IF x = 0 THEN 0 ELSE CHOOSE k \in 0 .. x : Pow2[k] * Up(x, k) = x /\ Odd(Up(x, k))

\* The hash comes from the left: the node is a right child, or the last of its level.
FromLeft(fn, sn) == Odd(fn) \/ fn = sn
\* Mutant: an even last node is not followed up to where it has a sibling.
ClimbOne(fn, sn) == 1
\* On to the level of the next hash of the path.
Climb(fn, sn) == 1 + (IF FromLeft(fn, sn) THEN TrailingZeros(fn) ELSE 0)

Step(first, last, s, c) ==
  LET fn == Up(first, s.up)
      sn == Up(last, s.up) IN
  [up |-> s.up + Climb(fn, sn), ok |-> s.ok /\ sn # 0,
   fr |-> IF FromLeft(fn, sn) THEN Node(c, s.fr) ELSE s.fr,
   sr |-> IF FromLeft(fn, sn) THEN Node(c, s.sr) ELSE Node(s.sr, c)]
\* The states of the loop over path, from `up` levels above the leaves.
Walk(first, last, up, seed, path) ==
  LET s[j \in Nat] == IF j = 0 THEN [up |-> up, ok |-> TRUE, fr |-> seed, sr |-> seed]
                      ELSE Step(first, last, s[j - 1], path[j])
  IN s
Walked(first, last, up, seed, path) == Walk(first, last, up, seed, path)[Len(path)]
AtTop(last, s) == s.ok /\ Up(last, s.up) = 0

VerifyInclusion(leaf, index, size, path, root) ==
  LET s == Walked(index, size - 1, 0, leaf, path) IN AtTop(size - 1, s) /\ s.sr = root

VerifyConsistency(m, n, proof, old, new) ==
  IF m = n THEN proof = <<>> /\ old = new
  ELSE IF m = 0 THEN proof = <<>>          \* any tree extends the empty one
  ELSE /\ m < n /\ proof # <<>>
       /\ LET ones == TrailingZeros(m)      \* at the end of the index m - 1
              \* the root of a tree whose size is a power of two is implied
              path == IF m = Pow2[ones] THEN <<old>> \o proof ELSE proof
              s == Walked(m - 1, n - 1, ones, path[1], Tail(path))
          IN AtTop(n - 1, s) /\ s.fr = old /\ s.sr = new

(* What the proofs are for. *)
Extends(old, new) == Len(old) <= Len(new) /\ SubSeq(new, 1, Len(old)) = old
Comparable(D, E) == Extends(D, E) \/ Extends(E, D)

\* What a signer, a witness or an auditor asks of two heads, given the leaves of
\* the newer one: the proof made from these leaves takes the old root to the new.
Consistent(old, new) ==
  VerifyConsistency(Len(old), Len(new), ConsistencyProof(Len(old), new), MTH(old), MTH(new))

=============================================================================
