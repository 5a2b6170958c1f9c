---------------------------- MODULE ObserversProofs ----------------------------
(***************************************************************************)
(* Proofs about the tree heads and about Observers.                        *)
(* The first part is about RFC 6962's tree, for logs of any length: the    *)
(* verifiers of tlog.py accept a proof exactly when what it claims is so.  *)
(* They are loops over two shifting indices; what they rebuild is compared *)
(* with the nodes of the tree, level by level.  Up(x, k) is the node over  *)
(* leaf x at level k, and a proof climbs from one level where it turns to  *)
(* the next.  Soundness runs that loop backwards from the root (Back),     *)
(* completeness forwards from the seed (Reached).                          *)
(* The second part is the inductive invariant of Observers; it uses only   *)
(* ConsistentIsExtends, RootBinds and PathsAreRight of the first.          *)
(***************************************************************************)
EXTENDS Observers, FiniteSetTheorems, WellFoundedInduction, TLAPS

-----------------------------------------------------------------------------
(* Natural numbers and recursive functions.                                *)
\* A set of natural numbers has a least element, or is empty.
LEMMA Least ==
  ASSUME NEW S \in SUBSET Nat, S # {}
  PROVE  \E x \in S : \A y \in S : x <= y
<1> DEFINE R == {ss \in Nat \X Nat : ss[1] < ss[2]}
<1>1. IsWellFoundedOn(R, Nat)
  BY NatLessThanWellFounded, Zenon DEF OpToRel
<1>2. PICK x \in S : \A y \in S : ~(<<y, x>> \in R)
  <2> HIDE DEF R
  <2> QED
    BY <1>1, WFMin, Zenon
<1>3. \A y \in S : x <= y
  <2> SUFFICES ASSUME NEW y \in S PROVE x <= y
    OBVIOUS
  <2>1. x \in Nat /\ y \in Nat
    OBVIOUS
  <2>2. ~(y < x)
    BY <1>2, <2>1
  <2> QED
    BY <2>1, <2>2
<1> QED
  BY <1>3

\* Induction, over sets.
LEMMA Induction ==
  ASSUME NEW S \in SUBSET Nat, 0 \in S, \A n \in S : n + 1 \in S
  PROVE  S = Nat
<1> SUFFICES ASSUME Nat \ S # {} PROVE FALSE
  OBVIOUS
<1>1. PICK k \in Nat \ S : \A y \in Nat \ S : k <= y
  <2>1. Nat \ S \in SUBSET Nat
    OBVIOUS
  <2> QED
    BY <2>1, Least, Zenon
<1>2. k - 1 \in Nat /\ k - 1 \in S
  BY <1>1
<1>3. (k - 1) + 1 \in S
  BY <1>2
<1> QED
  BY <1>1, <1>3

LEMMA StrongInduction ==
  ASSUME NEW S \in SUBSET Nat, \A n \in Nat : (\A k \in 0 .. n - 1 : k \in S) => n \in S
  PROVE  S = Nat
<1> SUFFICES ASSUME Nat \ S # {} PROVE FALSE
  OBVIOUS
<1>1. PICK k \in Nat \ S : \A y \in Nat \ S : k <= y
  <2>1. Nat \ S \in SUBSET Nat
    OBVIOUS
  <2> QED
    BY <2>1, Least, Zenon
<1>2. \A j \in 0 .. k - 1 : j \in S
  BY <1>1
<1> QED
  BY <1>1, <1>2

PowerRow(f, k) == IF k = 0 THEN 1 ELSE 2 * f[k - 1]
LEMMA PowersDefined == Pow2 = [k \in Nat |-> PowerRow(Pow2, k)]
<1> DEFINE Row(f, k) == PowerRow(f, k)
<1>1. ASSUME NEW e, NEW f, NEW n \in Nat, \A k \in Nat : k < n => e[k] = f[k]
      PROVE  Row(e, n) = Row(f, n)
  BY <1>1 DEF PowerRow
<1>2. Pow2 = CHOOSE f : f = [n \in Nat |-> Row(f, n)]
  BY Zenon DEF Pow2, PowerRow
<1> HIDE DEF Row
<1> DEFINE Good(n, f) == f = [k \in 0 .. n |-> Row(f, k)]
           G(n) == CHOOSE f : Good(n, f)
           g == [n \in Nat |-> G(n)[n]]
<1>3. \A n \in Nat : Good(n, G(n))
  <2> DEFINE S == {n \in Nat : \E f : Good(n, f)}
  <2>1. 0 \in S
    <3> DEFINE e == [k \in 0 .. 0 |-> Row(<<>>, k)]
    <3>1. Row(<<>>, 0) = Row(e, 0)
      BY <1>1
    <3>2. Good(0, e)
      BY <3>1
    <3> QED
      BY <3>2
  <2>2. ASSUME NEW n \in S PROVE n + 1 \in S
    <3>1. PICK f : Good(n, f)
      OBVIOUS
    <3> DEFINE e == [k \in 0 .. n + 1 |-> Row(f, k)]
    <3>2. \A k \in 0 .. n + 1 : Row(f, k) = Row(e, k)
      BY <1>1, <3>1
    <3>3. Good(n + 1, e)
      BY <3>2
    <3>4. n + 1 \in Nat
      OBVIOUS
    <3> HIDE DEF Good, e
    <3> QED
      BY <3>3, <3>4
  <2>3. S = Nat
    <3> HIDE DEF S
    <3> QED
      BY <2>1, <2>2, Induction DEF S
  <2> QED
    BY <2>3
<1>4. ASSUME NEW n \in Nat, NEW m \in Nat, NEW k \in Nat, k <= n, k <= m
      PROVE  G(n)[k] = G(m)[k]
  <2> DEFINE S == {x \in Nat : x <= n /\ x <= m => G(n)[x] = G(m)[x]}
  <2> HIDE DEF G
  <2>1. ASSUME NEW x \in Nat, \A y \in 0 .. x - 1 : y \in S
        PROVE  x \in S
    <3> SUFFICES ASSUME x <= n, x <= m PROVE G(n)[x] = G(m)[x]
      OBVIOUS
    <3>1. G(n)[x] = Row(G(n), x) /\ G(m)[x] = Row(G(m), x)
      BY <1>3
    <3>2. \A j \in Nat : j < x => G(n)[j] = G(m)[j]
      BY <2>1
    <3> HIDE DEF S
    <3> QED
      BY <1>1, <3>1, <3>2
  <2>2. S = Nat
    <3> HIDE DEF S
    <3> QED
      BY <2>1, StrongInduction DEF S
  <2> QED
    BY <1>4, <2>2
<1>5. ASSUME NEW n \in Nat PROVE g[n] = Row(g, n)
  <2>1. n \in 0 .. n
    OBVIOUS
  <2>2. G(n)[n] = Row(G(n), n)
    BY <1>3, <2>1
  <2>3. \A k \in Nat : k < n => G(n)[k] = g[k]
    <3> HIDE DEF G
    <3> QED
      BY <1>4
  <2>4. Row(G(n), n) = Row(g, n)
    <3> HIDE DEF g, G
    <3> QED
      BY <1>1, <2>3
  <2> HIDE DEF G
  <2> QED
    BY <2>2, <2>4
<1>6. g = [n \in Nat |-> Row(g, n)]
  <2> HIDE DEF G
  <2> QED
    BY <1>5
<1>7. Pow2 = [n \in Nat |-> Row(Pow2, n)]
  <2> HIDE DEF g
  <2> QED
    BY <1>2, <1>6
<1> QED
  BY <1>7 DEF Row

LEMMA Powers ==
  /\ Pow2[0] = 1
  /\ \A k \in Nat : /\ Pow2[k] \in Nat /\ Pow2[k] > k
                    /\ Pow2[k + 1] = 2 * Pow2[k]
<1>1. Pow2[0] = 1 /\ \A k \in Nat : Pow2[k + 1] = 2 * Pow2[k]
  <2>1. \A k \in Nat : Pow2[k] = PowerRow(Pow2, k)
    BY PowersDefined
  <2> QED
    BY <2>1 DEF PowerRow
<1>2. \A k \in Nat : Pow2[k] \in Nat /\ Pow2[k] > k
  <2> DEFINE Bad == {k \in Nat : ~(Pow2[k] \in Nat /\ Pow2[k] > k)}
  <2> SUFFICES ASSUME Bad # {} PROVE FALSE
    OBVIOUS
  <2>1. PICK k \in Bad : \A y \in Bad : k <= y
    BY Least, Zenon
  <2>2. k # 0
    BY <1>1
  <2>3. k - 1 \in Nat /\ k - 1 \notin Bad
    BY <2>1, <2>2
  <2>4. Pow2[k] = 2 * Pow2[k - 1]
    <3>1. Pow2[(k - 1) + 1] = 2 * Pow2[k - 1]
      BY <1>1, <2>3
    <3> QED
      BY <2>3, <3>1
  <2> QED
    BY <2>3, <2>4
<1> QED
  BY <1>1, <1>2

LEMMA PowersGrow ==
  ASSUME NEW a \in Nat, NEW b \in Nat, a < b
  PROVE  2 * Pow2[a] <= Pow2[b]
<1> DEFINE Bad == {c \in Nat : a < c /\ ~(2 * Pow2[a] <= Pow2[c])}
<1> SUFFICES ASSUME Bad # {} PROVE FALSE
  OBVIOUS
<1>1. PICK c \in Bad : \A y \in Bad : c <= y
  BY Least, Zenon
<1>2. c # a + 1
  BY Powers
<1>3. c - 1 \in Nat /\ a < c - 1 /\ c - 1 \notin Bad
  BY <1>1, <1>2
<1>4. Pow2[c] = 2 * Pow2[c - 1]
  <2>1. Pow2[(c - 1) + 1] = 2 * Pow2[c - 1]
    BY <1>3, Powers
  <2> QED
    BY <1>3, <2>1
<1>5. 2 * Pow2[a] <= Pow2[c - 1] /\ Pow2[c - 1] \in Nat
  BY <1>3, Powers
<1> QED
  BY <1>4, <1>5, Powers

LEMMA PowerBelowIs ==
  ASSUME NEW k \in Nat, NEW n \in Nat, Pow2[k] < n, n <= 2 * Pow2[k]
  PROVE  PowerBelow(n) = Pow2[k]
<1> DEFINE S == {Pow2[j] : j \in 0 .. n}
           Fits(p) == p < n /\ 2 * p >= n
<1>1. Pow2[k] \in S /\ Fits(Pow2[k])
  BY Powers
<1>2. ASSUME NEW p \in S, Fits(p) PROVE p = Pow2[k]
  <2>1. PICK j \in 0 .. n : p = Pow2[j]
    OBVIOUS
  <2>2. ~(j < k) /\ ~(k < j)
    BY <1>2, <2>1, PowersGrow, Powers
  <2> QED
    BY <2>1, <2>2
<1>3. PowerBelow(n) = CHOOSE p \in S : Fits(p)
  BY Zenon DEF PowerBelow
<1> HIDE DEF S, Fits
<1> QED
  BY <1>1, <1>2, <1>3

LEMMA PowerBelowSplits ==
  ASSUME NEW n \in Nat, n >= 2
  PROVE  \E k \in Nat : Pow2[k] < n /\ n <= 2 * Pow2[k] /\ PowerBelow(n) = Pow2[k]
<1> DEFINE S == {k \in Nat : n <= 2 * Pow2[k]}
<1>1. n \in S
  BY Powers
<1>2. PICK k \in S : \A y \in S : k <= y
  BY <1>1, Least, Zenon
<1>3. Pow2[k] < n
  <2>1. CASE k = 0
    BY <2>1, Powers
  <2>2. CASE k # 0
    <3>1. k - 1 \in Nat /\ k - 1 \notin S
      BY <1>2, <2>2
    <3>2. Pow2[(k - 1) + 1] = 2 * Pow2[k - 1] /\ Pow2[k - 1] \in Nat
      BY <3>1, Powers
    <3> QED
      BY <3>1, <3>2
  <2> QED
    BY <2>1, <2>2
<1> QED
  BY <1>2, <1>3, PowerBelowIs

LEMMA PowerBelowType ==
  ASSUME NEW n \in Nat, n >= 2
  PROVE  PowerBelow(n) \in Nat /\ 1 <= PowerBelow(n) /\ PowerBelow(n) < n
BY PowerBelowSplits, Powers

LEMMA UpIs ==
  ASSUME NEW x \in Nat, NEW k \in Nat
  PROVE  /\ Up(x, k) \in Nat /\ Up(x, 0) = x
         /\ Up(x, k) * Pow2[k] <= x /\ x < Up(x, k) * Pow2[k] + Pow2[k]
         /\ Up(x, k + 1) = Up(x, k) \div 2
         /\ Up(x, k) <= x
<1>1. Pow2[k] \in Nat /\ Pow2[k] > 0 /\ Pow2[0] = 1 /\ Pow2[k + 1] = 2 * Pow2[k]
  BY Powers
<1> DEFINE p == Pow2[k]
<1>2. p \in Nat /\ p > 0
  BY <1>1
<1> HIDE DEF p
<1>3. (x \div p) * p <= x /\ x < (x \div p) * p + p /\ x \div p \in Nat
  BY <1>2
<1>4. x \div (2 * p) = (x \div p) \div 2
  BY <1>2
<1>5. x \div p <= x
  <2> DEFINE q == x \div p
  <2>1. q \in Nat /\ q * p <= x
    BY <1>3
  <2> HIDE DEF q
  <2>2. q <= q * p
    BY <1>2, <2>1
  <2>3. q <= x
    <3> DEFINE r == q * p
    <3>1. r \in Int /\ q <= r /\ r <= x
      BY <1>2, <2>1, <2>2
    <3> HIDE DEF r
    <3> QED
      BY <2>1, <3>1
  <2> QED
    BY <2>3 DEF q
<1>6. Up(x, k) = x \div p /\ Up(x, k + 1) = x \div (2 * p) /\ Up(x, 0) = x \div 1
  BY <1>1 DEF Up, p
<1>7. x \div 1 = x
  OBVIOUS
<1> QED
  BY <1>3, <1>4, <1>5, <1>6, <1>7 DEF p

LEMMA UpIsOnly ==
  ASSUME NEW x \in Nat, NEW k \in Nat, NEW q \in Nat, q * Pow2[k] <= x, x < q * Pow2[k] + Pow2[k]
  PROVE  Up(x, k) = q
<1> DEFINE p == Pow2[k]
<1>1. p \in Nat /\ p > 0 /\ q * p <= x /\ x < q * p + p
  BY Powers
<1>2. x \div p = q
  <2> HIDE DEF p
  <2> QED
    BY <1>1
<1> QED
  BY <1>2 DEF Up

LEMMA UpGrows ==
  ASSUME NEW x \in Nat, NEW y \in Nat, NEW k \in Nat, x <= y
  PROVE  Up(x, k) <= Up(y, k)
<1> DEFINE p == Pow2[k]
<1>1. p \in Nat /\ p > 0
  BY Powers
<1>2. x \div p <= y \div p
  <2> HIDE DEF p
  <2> QED
    BY <1>1
<1> QED
  BY <1>2 DEF Up

LEMMA UpUp ==
  ASSUME NEW x \in Nat, NEW a \in Nat, NEW b \in Nat
  PROVE  Up(Up(x, a), b) = Up(x, a + b)
<1> DEFINE Bad == {c \in Nat : Up(Up(x, a), c) # Up(x, a + c)}
<1> SUFFICES ASSUME Bad # {} PROVE FALSE
  OBVIOUS
<1>1. PICK c \in Bad : \A y \in Bad : c <= y
  BY Least, Zenon
<1>2. c # 0
  BY UpIs
<1>3. c - 1 \in Nat /\ c - 1 \notin Bad
  BY <1>1, <1>2
<1>4. Up(Up(x, a), c) = Up(Up(x, a), c - 1) \div 2
  <2>1. Up(x, a) \in Nat /\ (c - 1) + 1 = c
    BY <1>3, UpIs
  <2>2. Up(Up(x, a), (c - 1) + 1) = Up(Up(x, a), c - 1) \div 2
    BY <1>3, <2>1, UpIs
  <2> QED
    BY <2>1, <2>2
<1>5. Up(x, a + c) = Up(x, a + (c - 1)) \div 2
  <2>1. a + (c - 1) \in Nat /\ (a + (c - 1)) + 1 = a + c
    BY <1>3
  <2>2. Up(x, (a + (c - 1)) + 1) = Up(x, a + (c - 1)) \div 2
    BY <2>1, UpIs
  <2> QED
    BY <2>1, <2>2
<1> QED
  BY <1>3, <1>4, <1>5

\* The last k bits of x are zero.
LowZeros(x, k) == \A t \in 0 .. k - 1 : ~Odd(Up(x, t))

LEMMA LowZerosIs ==
  ASSUME NEW x \in Nat, NEW k \in Nat
  PROVE  LowZeros(x, k) <=> Pow2[k] * Up(x, k) = x
<1> DEFINE Bad == {c \in Nat : ~(LowZeros(x, c) <=> Pow2[c] * Up(x, c) = x)}
<1> SUFFICES ASSUME Bad # {} PROVE FALSE
  OBVIOUS
<1>1. PICK c \in Bad : \A y \in Bad : c <= y
  BY Least, Zenon
<1>2. c # 0
  <2>1. LowZeros(x, 0)
    BY DEF LowZeros
  <2>2. Pow2[0] * Up(x, 0) = x
    BY UpIs, Powers
  <2> QED
    BY <2>1, <2>2
<1>3. c - 1 \in Nat /\ c - 1 \notin Bad
  BY <1>1, <1>2
<1> DEFINE p == Pow2[c - 1]
           u == Up(x, c - 1)
<1>4. Pow2[c] = 2 * p /\ Up(x, c) = u \div 2 /\ p \in Nat /\ p > 0 /\ u \in Nat /\ u * p <= x
  <2>1. (c - 1) + 1 = c
    BY <1>3
  <2>2. Pow2[(c - 1) + 1] = 2 * p /\ p \in Nat /\ p > 0
    BY <1>3, Powers
  <2>3. Up(x, (c - 1) + 1) = u \div 2 /\ u \in Nat /\ u * p <= x
    <3> HIDE DEF Bad
    <3> QED
      BY <1>3, UpIs
  <2> QED
    BY <2>1, <2>2, <2>3
<1>5. LowZeros(x, c) <=> LowZeros(x, c - 1) /\ ~Odd(u)
  BY <1>3 DEF LowZeros
<1>6. LowZeros(x, c - 1) <=> p * u = x
  BY <1>3
<1>7. ((2 * p) * (u \div 2) = x) <=> (p * u = x /\ ~(u % 2 = 1))
  <2> HIDE DEF p, u
  <2> DEFINE h == u \div 2
  <2>1. h \in Nat /\ (u = 2 * h \/ u = 2 * h + 1) /\ (u % 2 = 1 <=> u = 2 * h + 1)
    BY <1>4
  <2>2. (2 * p) * h = p * (2 * h) /\ p * (2 * h + 1) = p * (2 * h) + p
    <3> HIDE DEF h
    <3> QED
      BY <1>4, <2>1
  <2> HIDE DEF h
  <2>3. CASE u = 2 * h
    BY <2>1, <2>2, <2>3, <1>4 DEF h
  <2>4. CASE u = 2 * h + 1
    <3>1. p * (2 * h) < p * u /\ p * u <= x
      BY <1>4, <2>1, <2>2, <2>4
    <3> QED
      BY <1>4, <2>1, <2>2, <2>4, <3>1 DEF h
  <2> QED
    BY <2>1, <2>3, <2>4
<1> QED
  BY <1>1, <1>4, <1>5, <1>6, <1>7 DEF Odd

LEMMA TrailingZerosIs ==
  ASSUME NEW x \in Nat, x > 0
  PROVE  /\ TrailingZeros(x) \in Nat /\ LowZeros(x, TrailingZeros(x))
         /\ Odd(Up(x, TrailingZeros(x)))
<1> DEFINE S == {k \in Nat : Odd(Up(x, k))}
<1>1. S # {}
  <2> SUFFICES ASSUME S = {} PROVE FALSE
    OBVIOUS
  <2>1. LowZeros(x, x)
    BY DEF LowZeros
  <2>2. Pow2[x] * Up(x, x) = x /\ Pow2[x] \in Nat /\ Pow2[x] > x /\ Up(x, x) \in Nat
    BY <2>1, LowZerosIs, Powers, UpIs
  <2>3. Up(x, x) = 0
    <3> DEFINE p == Pow2[x]
               u == Up(x, x)
    <3>1. p * u = x /\ p \in Nat /\ p > x /\ u \in Nat
      BY <2>2
    <3> HIDE DEF p, u
    <3>2. u >= 1 => p * u >= p
      BY <3>1
    <3>3. u = 0
      BY <3>1, <3>2
    <3> QED
      BY <3>3 DEF u
  <2> QED
    BY <2>2, <2>3
<1>2. PICK k \in S : \A y \in S : k <= y
  BY <1>1, Least, Zenon
<1>3. LowZeros(x, k)
  BY <1>2 DEF LowZeros
<1>4. Pow2[k] * Up(x, k) = x /\ Pow2[k] > k /\ Pow2[k] \in Nat /\ Up(x, k) \in Nat
  BY <1>3, LowZerosIs, Powers, UpIs
<1>5. k \in 0 .. x
  <2> DEFINE p == Pow2[k]
             u == Up(x, k)
  <2>1. p * u = x /\ p \in Nat /\ p > k /\ u \in Nat
    BY <1>4
  <2> HIDE DEF p, u
  <2>2. u >= 1 => p * u >= p
    BY <2>1
  <2>3. u # 0
    BY <2>1
  <2> QED
    BY <2>1, <2>2, <2>3
<1> DEFINE Fits(j) == Pow2[j] * Up(x, j) = x /\ Odd(Up(x, j))
<1>6. Fits(k)
  BY <1>4
<1>7. TrailingZeros(x) = CHOOSE j \in 0 .. x : Fits(j)
  BY DEF TrailingZeros
<1>8. TrailingZeros(x) \in 0 .. x /\ Fits(TrailingZeros(x))
  <2> HIDE DEF Fits
  <2> QED
    BY <1>5, <1>6, <1>7
<1> QED
  BY <1>8, LowZerosIs

LEMMA TrailingZerosIsOnly ==
  ASSUME NEW x \in Nat, NEW k \in Nat, LowZeros(x, k), Odd(Up(x, k))
  PROVE  TrailingZeros(x) = k
<1>1. x > 0
  <2>1. Up(x, k) # 0 /\ Up(x, k) <= x /\ Up(x, k) \in Nat
    BY UpIs DEF Odd
  <2> QED
    BY <2>1
<1> DEFINE z == TrailingZeros(x)
<1>2. z \in Nat /\ LowZeros(x, z) /\ Odd(Up(x, z))
  BY <1>1, TrailingZerosIs
<1> HIDE DEF z
<1>3. ~(z < k) /\ ~(k < z)
  BY <1>2 DEF LowZeros
<1> QED
  BY <1>2, <1>3 DEF z

SubtreeRow(D, f, n) ==
  [i \in Nat |-> IF n = 1 THEN Leaf(D[i + 1])
                 ELSE LET k == PowerBelow(n) IN Node(f[k][i], f[n - k][i + k])]

LEMMA SubtreeDefined ==
  ASSUME NEW D
  PROVE  Subtree(D) = [n \in Positive |-> SubtreeRow(D, Subtree(D), n)]
<1> DEFINE Row(f, n) == SubtreeRow(D, f, n)
<1>1. ASSUME NEW e, NEW f, NEW n \in Positive, \A k \in Positive : k < n => e[k] = f[k]
      PROVE  Row(e, n) = Row(f, n)
  <2>1. n # 1 => n \in Nat /\ n >= 2
    BY DEF Positive
  <2>2. n # 1 => PowerBelow(n) \in Positive /\ n - PowerBelow(n) \in Positive /\ PowerBelow(n) < n /\ n - PowerBelow(n) < n
    BY <2>1, PowerBelowType DEF Positive
  <2> QED
    BY <1>1, <2>2 DEF SubtreeRow
<1>2. Subtree(D) = CHOOSE f : f = [n \in Positive |-> Row(f, n)]
  BY Zenon DEF Subtree, SubtreeRow
<1> HIDE DEF Row
<1> DEFINE Good(n, f) == f = [k \in 1 .. n |-> Row(f, k)]
           G(n) == CHOOSE f : Good(n, f)
           g == [n \in Positive |-> G(n)[n]]
<1>3. \A n \in Nat : Good(n, G(n))
  <2> DEFINE S == {n \in Nat : \E f : Good(n, f)}
  <2>1. 0 \in S
    <3>1. Good(0, [k \in 1 .. 0 |-> 0])
      OBVIOUS
    <3> QED
      BY <3>1
  <2>2. ASSUME NEW n \in S PROVE n + 1 \in S
    <3>1. PICK f : Good(n, f)
      OBVIOUS
    <3> DEFINE e == [k \in 1 .. n + 1 |-> Row(f, k)]
    <3>2. \A k \in 1 .. n + 1 : Row(f, k) = Row(e, k)
      BY <1>1, <3>1 DEF Positive
    <3>3. Good(n + 1, e)
      BY <3>2
    <3>4. n + 1 \in Nat
      OBVIOUS
    <3> HIDE DEF Good, e
    <3> QED
      BY <3>3, <3>4
  <2>3. S = Nat
    <3> HIDE DEF S
    <3> QED
      BY <2>1, <2>2, Induction DEF S
  <2> QED
    BY <2>3
<1>4. ASSUME NEW n \in Nat, NEW m \in Nat, NEW k \in Positive, k <= n, k <= m
      PROVE  G(n)[k] = G(m)[k]
  <2> DEFINE S == {x \in Nat : x + 1 <= n /\ x + 1 <= m => G(n)[x + 1] = G(m)[x + 1]}
  <2> HIDE DEF G
  <2>1. ASSUME NEW x \in Nat, \A y \in 0 .. x - 1 : y \in S
        PROVE  x \in S
    <3> SUFFICES ASSUME x + 1 <= n, x + 1 <= m PROVE G(n)[x + 1] = G(m)[x + 1]
      OBVIOUS
    <3>1. G(n)[x + 1] = Row(G(n), x + 1) /\ G(m)[x + 1] = Row(G(m), x + 1)
      BY <1>3
    <3>2. ASSUME NEW j \in Positive, j < x + 1 PROVE G(n)[j] = G(m)[j]
      <4>1. j - 1 \in 0 .. x - 1
        BY <3>2 DEF Positive
      <4>2. j - 1 \in S
        BY <2>1, <4>1
      <4> QED
        BY <3>2, <4>2 DEF Positive
    <3>3. x + 1 \in Positive
      BY DEF Positive
    <3> HIDE DEF S
    <3> QED
      BY <1>1, <3>1, <3>2, <3>3
  <2>2. S = Nat
    <3> HIDE DEF S
    <3> QED
      BY <2>1, StrongInduction DEF S
  <2>3. k - 1 \in Nat /\ (k - 1) + 1 = k
    BY DEF Positive
  <2>4. k - 1 \in S
    <3> HIDE DEF S
    <3> QED
      BY <2>2, <2>3
  <2> QED
    BY <1>4, <2>3, <2>4
<1>5. ASSUME NEW n \in Positive PROVE g[n] = Row(g, n)
  <2>1. n \in Nat /\ n \in 1 .. n
    BY DEF Positive
  <2>2. G(n)[n] = Row(G(n), n)
    BY <1>3, <2>1
  <2>3. ASSUME NEW k \in Positive, k < n PROVE G(n)[k] = g[k]
    <3>1. k \in Nat /\ k <= k /\ k <= n
      BY <2>1, <2>3 DEF Positive
    <3>2. G(n)[k] = G(k)[k]
      BY <1>4, <2>1, <3>1
    <3> QED
      BY <3>2
  <2>4. Row(G(n), n) = Row(g, n)
    <3> HIDE DEF g, G
    <3> QED
      BY <1>1, <2>3
  <2> HIDE DEF G
  <2> QED
    BY <2>2, <2>4
<1>6. g = [n \in Positive |-> Row(g, n)]
  <2> HIDE DEF G
  <2> QED
    BY <1>5
<1>7. Subtree(D) = [n \in Positive |-> Row(Subtree(D), n)]
  <2> HIDE DEF g
  <2> QED
    BY <1>2, <1>6
<1> QED
  BY <1>7 DEF Row

ProofRow(m, D, f, n) ==
  [i \in Nat |->
     IF n = 1 \/ m = i + n THEN (IF i = 0 THEN <<>> ELSE <<Subtree(D)[n][i]>>)
     ELSE LET k == PowerBelow(n) IN
          IF m <= i + k THEN Append(f[k][i], Subtree(D)[n - k][i + k])
                        ELSE Append(f[n - k][i + k], Subtree(D)[k][i])]
PathRow(m, D, f, n) ==
  [i \in Nat |->
     IF n = 1 THEN <<>>
     ELSE LET k == PowerBelow(n) IN
          IF m < i + k THEN Append(f[k][i], Subtree(D)[n - k][i + k])
                       ELSE Append(f[n - k][i + k], Subtree(D)[k][i])]

LEMMA ProofsDefined ==
  ASSUME NEW m \in Nat, NEW D
  PROVE  Proofs(m, D) = [n \in Positive |-> ProofRow(m, D, Proofs(m, D), n)]
<1> DEFINE Row(f, n) == ProofRow(m, D, f, n)
<1>1. ASSUME NEW e, NEW f, NEW n \in Positive, \A k \in Positive : k < n => e[k] = f[k]
      PROVE  Row(e, n) = Row(f, n)
  <2>1. n # 1 => n \in Nat /\ n >= 2
    BY DEF Positive
  <2>2. n # 1 => PowerBelow(n) \in Positive /\ n - PowerBelow(n) \in Positive /\ PowerBelow(n) < n /\ n - PowerBelow(n) < n
    BY <2>1, PowerBelowType DEF Positive
  <2> QED
    BY <1>1, <2>2 DEF ProofRow
<1>2. Proofs(m, D) = CHOOSE f : f = [n \in Positive |-> Row(f, n)]
  BY Zenon DEF Proofs, ProofRow
<1> HIDE DEF Row
<1> DEFINE Good(n, f) == f = [k \in 1 .. n |-> Row(f, k)]
           G(n) == CHOOSE f : Good(n, f)
           g == [n \in Positive |-> G(n)[n]]
<1>3. \A n \in Nat : Good(n, G(n))
  <2> DEFINE S == {n \in Nat : \E f : Good(n, f)}
  <2>1. 0 \in S
    <3>1. Good(0, [k \in 1 .. 0 |-> 0])
      OBVIOUS
    <3> QED
      BY <3>1
  <2>2. ASSUME NEW n \in S PROVE n + 1 \in S
    <3>1. PICK f : Good(n, f)
      OBVIOUS
    <3> DEFINE e == [k \in 1 .. n + 1 |-> Row(f, k)]
    <3>2. \A k \in 1 .. n + 1 : Row(f, k) = Row(e, k)
      BY <1>1, <3>1 DEF Positive
    <3>3. Good(n + 1, e)
      BY <3>2
    <3>4. n + 1 \in Nat
      OBVIOUS
    <3> HIDE DEF Good, e
    <3> QED
      BY <3>3, <3>4
  <2>3. S = Nat
    <3> HIDE DEF S
    <3> QED
      BY <2>1, <2>2, Induction DEF S
  <2> QED
    BY <2>3
<1>4. ASSUME NEW n \in Nat, NEW l \in Nat, NEW k \in Positive, k <= n, k <= l
      PROVE  G(n)[k] = G(l)[k]
  <2> DEFINE S == {x \in Nat : x + 1 <= n /\ x + 1 <= l => G(n)[x + 1] = G(l)[x + 1]}
  <2> HIDE DEF G
  <2>1. ASSUME NEW x \in Nat, \A y \in 0 .. x - 1 : y \in S
        PROVE  x \in S
    <3> SUFFICES ASSUME x + 1 <= n, x + 1 <= l PROVE G(n)[x + 1] = G(l)[x + 1]
      OBVIOUS
    <3>1. G(n)[x + 1] = Row(G(n), x + 1) /\ G(l)[x + 1] = Row(G(l), x + 1)
      BY <1>3
    <3>2. ASSUME NEW j \in Positive, j < x + 1 PROVE G(n)[j] = G(l)[j]
      <4>1. j - 1 \in 0 .. x - 1
        BY <3>2 DEF Positive
      <4>2. j - 1 \in S
        BY <2>1, <4>1
      <4> QED
        BY <3>2, <4>2 DEF Positive
    <3>3. x + 1 \in Positive
      BY DEF Positive
    <3> HIDE DEF S
    <3> QED
      BY <1>1, <3>1, <3>2, <3>3
  <2>2. S = Nat
    <3> HIDE DEF S
    <3> QED
      BY <2>1, StrongInduction DEF S
  <2>3. k - 1 \in Nat /\ (k - 1) + 1 = k
    BY DEF Positive
  <2>4. k - 1 \in S
    <3> HIDE DEF S
    <3> QED
      BY <2>2, <2>3
  <2> QED
    BY <1>4, <2>3, <2>4
<1>5. ASSUME NEW n \in Positive PROVE g[n] = Row(g, n)
  <2>1. n \in Nat /\ n \in 1 .. n
    BY DEF Positive
  <2>2. G(n)[n] = Row(G(n), n)
    BY <1>3, <2>1
  <2>3. ASSUME NEW k \in Positive, k < n PROVE G(n)[k] = g[k]
    <3>1. k \in Nat /\ k <= k /\ k <= n
      BY <2>1, <2>3 DEF Positive
    <3>2. G(n)[k] = G(k)[k]
      BY <1>4, <2>1, <3>1
    <3> QED
      BY <3>2
  <2>4. Row(G(n), n) = Row(g, n)
    <3> HIDE DEF g, G
    <3> QED
      BY <1>1, <2>3
  <2> HIDE DEF G
  <2> QED
    BY <2>2, <2>4
<1>6. g = [n \in Positive |-> Row(g, n)]
  <2> HIDE DEF G
  <2> QED
    BY <1>5
<1>7. Proofs(m, D) = [n \in Positive |-> Row(Proofs(m, D), n)]
  <2> HIDE DEF g
  <2> QED
    BY <1>2, <1>6
<1> QED
  BY <1>7 DEF Row

LEMMA PathsDefined ==
  ASSUME NEW m \in Nat, NEW D
  PROVE  Paths(m, D) = [n \in Positive |-> PathRow(m, D, Paths(m, D), n)]
<1> DEFINE Row(f, n) == PathRow(m, D, f, n)
<1>1. ASSUME NEW e, NEW f, NEW n \in Positive, \A k \in Positive : k < n => e[k] = f[k]
      PROVE  Row(e, n) = Row(f, n)
  <2>1. n # 1 => n \in Nat /\ n >= 2
    BY DEF Positive
  <2>2. n # 1 => PowerBelow(n) \in Positive /\ n - PowerBelow(n) \in Positive /\ PowerBelow(n) < n /\ n - PowerBelow(n) < n
    BY <2>1, PowerBelowType DEF Positive
  <2> QED
    BY <1>1, <2>2 DEF PathRow
<1>2. Paths(m, D) = CHOOSE f : f = [n \in Positive |-> Row(f, n)]
  BY Zenon DEF Paths, PathRow
<1> HIDE DEF Row
<1> DEFINE Good(n, f) == f = [k \in 1 .. n |-> Row(f, k)]
           G(n) == CHOOSE f : Good(n, f)
           g == [n \in Positive |-> G(n)[n]]
<1>3. \A n \in Nat : Good(n, G(n))
  <2> DEFINE S == {n \in Nat : \E f : Good(n, f)}
  <2>1. 0 \in S
    <3>1. Good(0, [k \in 1 .. 0 |-> 0])
      OBVIOUS
    <3> QED
      BY <3>1
  <2>2. ASSUME NEW n \in S PROVE n + 1 \in S
    <3>1. PICK f : Good(n, f)
      OBVIOUS
    <3> DEFINE e == [k \in 1 .. n + 1 |-> Row(f, k)]
    <3>2. \A k \in 1 .. n + 1 : Row(f, k) = Row(e, k)
      BY <1>1, <3>1 DEF Positive
    <3>3. Good(n + 1, e)
      BY <3>2
    <3>4. n + 1 \in Nat
      OBVIOUS
    <3> HIDE DEF Good, e
    <3> QED
      BY <3>3, <3>4
  <2>3. S = Nat
    <3> HIDE DEF S
    <3> QED
      BY <2>1, <2>2, Induction DEF S
  <2> QED
    BY <2>3
<1>4. ASSUME NEW n \in Nat, NEW l \in Nat, NEW k \in Positive, k <= n, k <= l
      PROVE  G(n)[k] = G(l)[k]
  <2> DEFINE S == {x \in Nat : x + 1 <= n /\ x + 1 <= l => G(n)[x + 1] = G(l)[x + 1]}
  <2> HIDE DEF G
  <2>1. ASSUME NEW x \in Nat, \A y \in 0 .. x - 1 : y \in S
        PROVE  x \in S
    <3> SUFFICES ASSUME x + 1 <= n, x + 1 <= l PROVE G(n)[x + 1] = G(l)[x + 1]
      OBVIOUS
    <3>1. G(n)[x + 1] = Row(G(n), x + 1) /\ G(l)[x + 1] = Row(G(l), x + 1)
      BY <1>3
    <3>2. ASSUME NEW j \in Positive, j < x + 1 PROVE G(n)[j] = G(l)[j]
      <4>1. j - 1 \in 0 .. x - 1
        BY <3>2 DEF Positive
      <4>2. j - 1 \in S
        BY <2>1, <4>1
      <4> QED
        BY <3>2, <4>2 DEF Positive
    <3>3. x + 1 \in Positive
      BY DEF Positive
    <3> HIDE DEF S
    <3> QED
      BY <1>1, <3>1, <3>2, <3>3
  <2>2. S = Nat
    <3> HIDE DEF S
    <3> QED
      BY <2>1, StrongInduction DEF S
  <2>3. k - 1 \in Nat /\ (k - 1) + 1 = k
    BY DEF Positive
  <2>4. k - 1 \in S
    <3> HIDE DEF S
    <3> QED
      BY <2>2, <2>3
  <2> QED
    BY <1>4, <2>3, <2>4
<1>5. ASSUME NEW n \in Positive PROVE g[n] = Row(g, n)
  <2>1. n \in Nat /\ n \in 1 .. n
    BY DEF Positive
  <2>2. G(n)[n] = Row(G(n), n)
    BY <1>3, <2>1
  <2>3. ASSUME NEW k \in Positive, k < n PROVE G(n)[k] = g[k]
    <3>1. k \in Nat /\ k <= k /\ k <= n
      BY <2>1, <2>3 DEF Positive
    <3>2. G(n)[k] = G(k)[k]
      BY <1>4, <2>1, <3>1
    <3> QED
      BY <3>2
  <2>4. Row(G(n), n) = Row(g, n)
    <3> HIDE DEF g, G
    <3> QED
      BY <1>1, <2>3
  <2> HIDE DEF G
  <2> QED
    BY <2>2, <2>4
<1>6. g = [n \in Positive |-> Row(g, n)]
  <2> HIDE DEF G
  <2> QED
    BY <1>5
<1>7. Paths(m, D) = [n \in Positive |-> Row(Paths(m, D), n)]
  <2> HIDE DEF g
  <2> QED
    BY <1>2, <1>6
<1> QED
  BY <1>7 DEF Row

WalkRow(first, last, up, seed, path, f, j) ==
  IF j = 0 THEN [up |-> up, ok |-> TRUE, fr |-> seed, sr |-> seed]
           ELSE Step(first, last, f[j - 1], path[j])

LEMMA WalkDefined ==
  ASSUME NEW first, NEW last, NEW up, NEW seed, NEW path, NEW w, w = Walk(first, last, up, seed, path)
  PROVE  w = [j \in Nat |-> WalkRow(first, last, up, seed, path, w, j)]
<1> DEFINE Row(f, j) == WalkRow(first, last, up, seed, path, f, j)
<1>1. ASSUME NEW e, NEW f, NEW n \in Nat, \A k \in Nat : k < n => e[k] = f[k]
      PROVE  Row(e, n) = Row(f, n)
  <2>1. n # 0 => n - 1 \in Nat /\ n - 1 < n
    OBVIOUS
  <2>2. n # 0 => e[n - 1] = f[n - 1]
    BY <1>1, <2>1
  <2> QED
    BY <2>2 DEF WalkRow
<1>2. w = CHOOSE f : f = [n \in Nat |-> Row(f, n)]
  BY Zenon DEF Walk, WalkRow
<1> HIDE DEF Row
<1> DEFINE Good(n, f) == f = [k \in 0 .. n |-> Row(f, k)]
           G(n) == CHOOSE f : Good(n, f)
           g == [n \in Nat |-> G(n)[n]]
<1>3. \A n \in Nat : Good(n, G(n))
  <2> DEFINE S == {n \in Nat : \E f : Good(n, f)}
  <2>1. 0 \in S
    <3> DEFINE e == [k \in 0 .. 0 |-> Row(<<>>, k)]
    <3>1. Row(<<>>, 0) = Row(e, 0)
      BY <1>1
    <3>2. Good(0, e)
      BY <3>1
    <3> QED
      BY <3>2
  <2>2. ASSUME NEW n \in S PROVE n + 1 \in S
    <3>1. PICK f : Good(n, f)
      OBVIOUS
    <3> DEFINE e == [k \in 0 .. n + 1 |-> Row(f, k)]
    <3>2. \A k \in 0 .. n + 1 : Row(f, k) = Row(e, k)
      BY <1>1, <3>1
    <3>3. Good(n + 1, e)
      BY <3>2
    <3>4. n + 1 \in Nat
      OBVIOUS
    <3> HIDE DEF Good, e
    <3> QED
      BY <3>3, <3>4
  <2>3. S = Nat
    <3> HIDE DEF S
    <3> QED
      BY <2>1, <2>2, Induction DEF S
  <2> QED
    BY <2>3
<1>4. ASSUME NEW n \in Nat, NEW m \in Nat, NEW k \in Nat, k <= n, k <= m
      PROVE  G(n)[k] = G(m)[k]
  <2> DEFINE S == {x \in Nat : x <= n /\ x <= m => G(n)[x] = G(m)[x]}
  <2> HIDE DEF G
  <2>1. ASSUME NEW x \in Nat, \A y \in 0 .. x - 1 : y \in S
        PROVE  x \in S
    <3> SUFFICES ASSUME x <= n, x <= m PROVE G(n)[x] = G(m)[x]
      OBVIOUS
    <3>1. G(n)[x] = Row(G(n), x) /\ G(m)[x] = Row(G(m), x)
      BY <1>3
    <3>2. \A j \in Nat : j < x => G(n)[j] = G(m)[j]
      BY <2>1
    <3> HIDE DEF S
    <3> QED
      BY <1>1, <3>1, <3>2
  <2>2. S = Nat
    <3> HIDE DEF S
    <3> QED
      BY <2>1, StrongInduction DEF S
  <2> QED
    BY <1>4, <2>2
<1>5. ASSUME NEW n \in Nat PROVE g[n] = Row(g, n)
  <2>1. n \in 0 .. n
    OBVIOUS
  <2>2. G(n)[n] = Row(G(n), n)
    BY <1>3, <2>1
  <2>3. \A k \in Nat : k < n => G(n)[k] = g[k]
    <3> HIDE DEF G
    <3> QED
      BY <1>4
  <2>4. Row(G(n), n) = Row(g, n)
    <3> HIDE DEF g, G
    <3> QED
      BY <1>1, <2>3
  <2> HIDE DEF G
  <2> QED
    BY <2>2, <2>4
<1>6. g = [n \in Nat |-> Row(g, n)]
  <2> HIDE DEF G
  <2> QED
    BY <1>5
<1>7. w = [n \in Nat |-> Row(w, n)]
  <2> HIDE DEF g
  <2> QED
    BY <1>2, <1>6
<1> QED
  BY <1>7 DEF Row

-----------------------------------------------------------------------------
(* The hash of a range, and the nodes of a level.                          *)

\* The root of the n leaves of D that follow the first i.
Hash(D, i, n) == Subtree(D)[n][i]

LEMMA HashIs ==
  ASSUME NEW D, NEW i \in Nat, NEW n \in Positive
  PROVE  Hash(D, i, n) = IF n = 1 THEN Leaf(D[i + 1])
                         ELSE LET k == PowerBelow(n) IN Node(Hash(D, i, k), Hash(D, i + k, n - k))
<1>1. Subtree(D)[n] = SubtreeRow(D, Subtree(D), n)
  <2> DEFINE h == Subtree(D)
  <2>1. h = [j \in Positive |-> SubtreeRow(D, h, j)]
    BY SubtreeDefined
  <2> HIDE DEF h
  <2>2. h[n] = SubtreeRow(D, h, n)
    BY <2>1
  <2> QED
    BY <2>2 DEF h
<1> QED
  BY <1>1 DEF Hash, SubtreeRow

LEMMA HashOfLeaf ==
  ASSUME NEW D, NEW i \in Nat
  PROVE  Hash(D, i, 1) = Leaf(D[i + 1])
BY HashIs DEF Positive

LEMMA HashSplits ==
  ASSUME NEW D, NEW i \in Nat, NEW n \in Nat, NEW k \in Nat, Pow2[k] < n, n <= 2 * Pow2[k]
  PROVE  Hash(D, i, n) = Node(Hash(D, i, Pow2[k]), Hash(D, i + Pow2[k], n - Pow2[k]))
<1>1. n \in Positive /\ n # 1 /\ PowerBelow(n) = Pow2[k]
  BY Powers, PowerBelowIs DEF Positive
<1> QED
  BY <1>1, HashIs

LEMMA Free ==
  ASSUME NEW a, NEW b, NEW c, NEW d
  PROVE  /\ Leaf(a) # Node(b, c) /\ (Leaf(a) = Leaf(b) <=> a = b)
         /\ (Node(a, b) = Node(c, d) <=> a = c /\ b = d)
BY DEF Leaf, Node

\* A hash of a range fixes how many leaves are in it and what they are.
LEMMA HashBinds ==
  ASSUME NEW C, NEW D, NEW i \in Nat, NEW a \in Positive, NEW b \in Positive, Hash(C, i, a) = Hash(D, i, b)
  PROVE  a = b /\ \A j \in i + 1 .. i + a : C[j] = D[j]
<1> DEFINE Bound(o, x, y) == Hash(C, o, x) = Hash(D, o, y) => x = y /\ \A j \in o + 1 .. o + x : C[j] = D[j]
           S == {x \in Nat : x \in Positive => \A o \in Nat, y \in Positive : Bound(o, x, y)}
<1>1. ASSUME NEW x \in Nat, \A k \in 0 .. x - 1 : k \in S
      PROVE  x \in S
  <2> SUFFICES ASSUME NEW o \in Nat, NEW y \in Positive, x \in Positive PROVE Bound(o, x, y)
    OBVIOUS
  <2> SUFFICES ASSUME Hash(C, o, x) = Hash(D, o, y) PROVE x = y /\ \A j \in o + 1 .. o + x : C[j] = D[j]
    OBVIOUS
  <2> HIDE DEF Bound
  <2> DEFINE p == PowerBelow(x)
             q == PowerBelow(y)
  <2>1. Hash(C, o, x) = IF x = 1 THEN Leaf(C[o + 1]) ELSE Node(Hash(C, o, p), Hash(C, o + p, x - p))
    BY HashIs
  <2>2. Hash(D, o, y) = IF y = 1 THEN Leaf(D[o + 1]) ELSE Node(Hash(D, o, q), Hash(D, o + q, y - q))
    BY HashIs
  <2>3. /\ x = 1 <=> y = 1
        /\ x = 1 => C[o + 1] = D[o + 1]
        /\ x # 1 => Hash(C, o, p) = Hash(D, o, q) /\ Hash(C, o + p, x - p) = Hash(D, o + q, y - q)
    <3> DEFINE hx == Hash(C, o, x)
               hy == Hash(D, o, y)
               l1 == C[o + 1]
               l2 == D[o + 1]
               a1 == Hash(C, o, p)
               a2 == Hash(C, o + p, x - p)
               b1 == Hash(D, o, q)
               b2 == Hash(D, o + q, y - q)
    <3>1. hx = hy /\ hx = (IF x = 1 THEN Leaf(l1) ELSE Node(a1, a2)) /\ hy = (IF y = 1 THEN Leaf(l2) ELSE Node(b1, b2))
      BY <2>1, <2>2
    <3> HIDE DEF hx, hy, l1, l2, a1, a2, b1, b2, S
    <3>a. ASSUME x = 1, y = 1 PROVE l1 = l2
      <4>1. Leaf(l1) = Leaf(l2)
        BY <3>1, <3>a
      <4> QED
        BY <4>1, Free
    <3>b. ~(x = 1 /\ y # 1)
      <4>1. x = 1 /\ y # 1 => Leaf(l1) = Node(b1, b2)
        BY <3>1
      <4>2. Leaf(l1) # Node(b1, b2)
        BY Free
      <4> QED
        BY <4>1, <4>2
    <3>c. ~(x # 1 /\ y = 1)
      <4>1. x # 1 /\ y = 1 => Leaf(l2) = Node(a1, a2)
        BY <3>1
      <4>2. Leaf(l2) # Node(a1, a2)
        BY Free
      <4> QED
        BY <4>1, <4>2
    <3>d. ASSUME x # 1, y # 1 PROVE a1 = b1 /\ a2 = b2
      <4>1. Node(a1, a2) = Node(b1, b2)
        BY <3>1, <3>d
      <4> QED
        BY <4>1, Free
    <3>2. (x = 1 <=> y = 1) /\ (x = 1 => l1 = l2) /\ (x # 1 => a1 = b1 /\ a2 = b2)
      BY <3>a, <3>b, <3>c, <3>d
    <3> QED
      BY <3>2 DEF l1, l2, a1, a2, b1, b2
  <2>4. CASE x = 1
    <3>1. C[o + 1] = D[o + 1]
      BY <2>3, <2>4
    <3> QED
      BY <2>3, <2>4, <3>1
  <2>5. CASE x # 1
    <3>1. p \in Nat /\ 1 <= p /\ p < x /\ q \in Nat /\ 1 <= q /\ q < y /\ x \in Nat /\ y \in Nat
      BY <2>3, <2>5, PowerBelowType DEF Positive
    <3>2. Hash(C, o, p) = Hash(D, o, q) /\ Hash(C, o + p, x - p) = Hash(D, o + q, y - q)
      BY <2>3, <2>5
    <3> HIDE DEF p, q
    <3>3. p \in S /\ x - p \in S /\ p \in Positive /\ q \in Positive /\ x - p \in Positive /\ y - q \in Positive
      BY <1>1, <3>1 DEF Positive
    <3>4. p = q /\ \A j \in o + 1 .. o + p : C[j] = D[j]
      BY <3>2, <3>3 DEF Bound
    <3>5. x - p = y - q /\ \A j \in o + p + 1 .. o + p + (x - p) : C[j] = D[j]
      <4>1. o + p \in Nat /\ Bound(o + p, x - p, y - q)
        BY <3>1, <3>3
      <4>2. Hash(C, o + p, x - p) = Hash(D, o + p, y - q)
        BY <3>2, <3>4
      <4> QED
        BY <4>1, <4>2 DEF Bound
    <3>6. x = y
      BY <3>1, <3>4, <3>5
    <3>7. ASSUME NEW j \in o + 1 .. o + x PROVE C[j] = D[j]
      <4>1. j \in o + 1 .. o + p \/ j \in o + p + 1 .. o + p + (x - p)
        BY <3>1
      <4> QED
        BY <3>4, <3>5, <4>1
    <3> QED
      BY <3>6, <3>7
  <2> QED
    BY <2>4, <2>5
<1>2. S = Nat
  <2> HIDE DEF S
  <2> QED
    BY <1>1, StrongInduction DEF S
<1>3. a \in S /\ a \in Nat
  BY <1>2 DEF Positive
<1> QED
  BY <1>3

LEMMA HashDepends ==
  ASSUME NEW C, NEW D, NEW i \in Nat, NEW a \in Positive, \A j \in i + 1 .. i + a : C[j] = D[j]
  PROVE  Hash(C, i, a) = Hash(D, i, a)
<1> DEFINE Same(o, x) == (\A j \in o + 1 .. o + x : C[j] = D[j]) => Hash(C, o, x) = Hash(D, o, x)
           S == {x \in Nat : x \in Positive => \A o \in Nat : Same(o, x)}
<1>1. ASSUME NEW x \in Nat, \A k \in 0 .. x - 1 : k \in S
      PROVE  x \in S
  <2> SUFFICES ASSUME NEW o \in Nat, x \in Positive PROVE Same(o, x)
    OBVIOUS
  <2> SUFFICES ASSUME \A j \in o + 1 .. o + x : C[j] = D[j] PROVE Hash(C, o, x) = Hash(D, o, x)
    OBVIOUS
  <2> HIDE DEF Same
  <2> DEFINE p == PowerBelow(x)
  <2>1. Hash(C, o, x) = IF x = 1 THEN Leaf(C[o + 1]) ELSE Node(Hash(C, o, p), Hash(C, o + p, x - p))
    BY HashIs
  <2>2. Hash(D, o, x) = IF x = 1 THEN Leaf(D[o + 1]) ELSE Node(Hash(D, o, p), Hash(D, o + p, x - p))
    BY HashIs
  <2>3. CASE x = 1
    <3>1. C[o + 1] = D[o + 1]
      BY <2>3
    <3> QED
      BY <2>1, <2>2, <2>3, <3>1
  <2>4. CASE x # 1
    <3>1. p \in Nat /\ 1 <= p /\ p < x /\ x \in Nat
      BY <2>4, PowerBelowType DEF Positive
    <3> HIDE DEF p
    <3>2. p \in S /\ x - p \in S /\ p \in Positive /\ x - p \in Positive /\ o + p \in Nat
      BY <1>1, <3>1 DEF Positive
    <3>3. Same(o, p) /\ Same(o + p, x - p)
      BY <3>2
    <3>4. Hash(C, o, p) = Hash(D, o, p)
      BY <3>1, <3>3 DEF Same
    <3>5. Hash(C, o + p, x - p) = Hash(D, o + p, x - p)
      <4>1. \A j \in o + p + 1 .. o + p + (x - p) : C[j] = D[j]
        BY <3>1
      <4> QED
        BY <3>3, <4>1 DEF Same
    <3> QED
      BY <2>1, <2>2, <2>4, <3>4, <3>5
  <2> QED
    BY <2>3, <2>4
<1>2. S = Nat
  <2> HIDE DEF S
  <2> QED
    BY <1>1, StrongInduction DEF S
<1>3. a \in S /\ a \in Nat
  BY <1>2 DEF Positive
<1> QED
  BY <1>3

\* A root fixes the leaves of the whole tree.
LEMMA RootBinds ==
  ASSUME NEW A, NEW C \in Seq(A), NEW D \in Seq(A), C # <<>>, D # <<>>, MTH(C) = MTH(D)
  PROVE  C = D
<1>1. Len(C) \in Positive /\ Len(D) \in Positive
  BY DEF Positive
<1>2. Len(C) = Len(D) /\ \A j \in 0 + 1 .. 0 + Len(C) : C[j] = D[j]
  <2>1. Hash(C, 0, Len(C)) = Hash(D, 0, Len(D))
    BY DEF Hash, MTH
  <2> QED
    BY <1>1, <2>1, HashBinds
<1> QED
  BY <1>2

\* Node x of level k is over the 2^k leaves after the first x * 2^k, or what
\* there is of them.
Width(n, k, x) == IF n - x * Pow2[k] < Pow2[k] THEN n - x * Pow2[k] ELSE Pow2[k]
NodeAt(D, k, x) == Hash(D, x * Pow2[k], Width(Len(D), k, x))

LEMMA WidthIs ==
  ASSUME NEW n \in Positive, NEW k \in Nat, NEW x \in 0 .. Up(n - 1, k)
  PROVE  /\ x * Pow2[k] \in Nat /\ Width(n, k, x) \in Positive
         /\ x * Pow2[k] + Width(n, k, x) <= n
         /\ x < Up(n - 1, k) => Width(n, k, x) = Pow2[k]
<1> DEFINE p == Pow2[k]
           z == Up(n - 1, k)
<1>0. n - 1 \in Nat /\ n \in Nat
  BY DEF Positive
<1>1. p \in Nat /\ p > 0 /\ z \in Nat /\ z * p <= n - 1 /\ n - 1 \in Nat /\ n \in Nat
  <2>1. p \in Nat /\ p > 0
    BY Powers
  <2>2. z \in Nat /\ z * p <= n - 1
    BY <1>0, UpIs
  <2> QED
    BY <1>0, <2>1, <2>2
<1>2. x \in Nat /\ x <= z
  BY <1>1
<1> HIDE DEF p, z
<1>3. x * p \in Nat /\ z * p \in Nat /\ x * p <= z * p /\ (x < z => x * p + p <= z * p)
  <2>1. x * p \in Nat /\ z * p \in Nat
    BY <1>1, <1>2
  <2>2. x * p <= z * p
    BY <1>1, <1>2
  <2>3. ASSUME x < z PROVE (x + 1) * p <= z * p /\ (x + 1) * p = x * p + p
    BY <1>1, <1>2, <2>3
  <2> QED
    BY <2>1, <2>2, <2>3
<1> DEFINE xp == x * p
           zp == z * p
<1>4. xp \in Nat /\ zp \in Nat /\ xp <= zp /\ (x < z => xp + p <= zp) /\ zp <= n - 1
  BY <1>1, <1>3
<1> HIDE DEF xp, zp
<1>5. Width(n, k, x) = IF n - xp < p THEN n - xp ELSE p
  BY DEF Width, xp, p
<1>6. /\ xp \in Nat /\ Width(n, k, x) \in Positive
      /\ xp + Width(n, k, x) <= n
      /\ x < z => Width(n, k, x) = p
  BY <1>1, <1>4, <1>5 DEF Positive
<1> QED
  BY <1>6 DEF xp, p, z

\* The range of a node, and those of the two nodes below it, or of the only one.
Splits(n, k, e) ==
  LET p == Pow2[k]
      i == e * Pow2[k + 1]
      w == Width(n, k + 1, e) IN
  /\ p \in Nat /\ p > 0 /\ i \in Nat /\ (2 * e) * p = i /\ (2 * e + 1) * p = i + p
  /\ w = IF n - i < 2 * p THEN n - i ELSE 2 * p
  /\ 2 * e < Up(n - 1, k) => /\ w \in Nat /\ p < w /\ w <= 2 * p
                             /\ Width(n, k, 2 * e) = p /\ Width(n, k, 2 * e + 1) = w - p
  /\ ~(2 * e < Up(n - 1, k)) => w = Width(n, k, 2 * e)

LEMMA RangeSplits ==
  ASSUME NEW n \in Positive, NEW k \in Nat, NEW e \in Nat, 2 * e <= Up(n - 1, k)
  PROVE  Splits(n, k, e)
<1> DEFINE p == Pow2[k]
           z == Up(n - 1, k)
           i == e * Pow2[k + 1]
           w == Width(n, k + 1, e)
<1>0. p \in Nat /\ p > 0 /\ Pow2[k + 1] = 2 * p
  <2>1. Pow2[k] \in Nat /\ Pow2[k] > k /\ Pow2[k + 1] = 2 * Pow2[k]
    BY Powers
  <2> QED
    BY <2>1
<1>1. p \in Nat /\ p > 0 /\ Pow2[k + 1] = 2 * p /\ z \in Nat /\ n \in Nat /\ n > 0 /\ 2 * e <= z
  <2>1. n \in Nat /\ n > 0 /\ n - 1 \in Nat
    BY DEF Positive
  <2>2. z \in Nat
    BY <2>1, UpIs
  <2> QED
    BY <1>0, <2>1, <2>2
<1>2. z * p <= n - 1 /\ n - 1 < z * p + p
  <2>1. n - 1 \in Nat
    BY <1>1
  <2> QED
    BY <2>1, UpIs
<1>3. i \in Nat /\ (2 * e) * p = i /\ (2 * e + 1) * p = i + p
  <2>1. i = e * (2 * p)
    BY <1>1
  <2> HIDE DEF p, i
  <2> QED
    BY <1>1, <2>1
<1> HIDE DEF p, z, i
<1>4. w = IF n - i < 2 * p THEN n - i ELSE 2 * p
  BY <1>1 DEF Width, i
<1>5. Width(n, k, 2 * e) = IF n - i < p THEN n - i ELSE p
  BY <1>3 DEF Width, p
<1>6. Width(n, k, 2 * e + 1) = IF n - (i + p) < p THEN n - (i + p) ELSE p
  BY <1>3 DEF Width, p
<1> HIDE DEF w
<1>8. ASSUME 2 * e < z
      PROVE  w \in Nat /\ p < w /\ w <= 2 * p /\ Width(n, k, 2 * e) = p /\ Width(n, k, 2 * e + 1) = w - p
  <2>1. (2 * e + 1) * p <= z * p
    BY <1>1, <1>8
  <2>2. i + p <= n - 1
    <3> DEFINE a == (2 * e + 1) * p
               b == z * p
    <3>1. a = i + p /\ a <= b /\ b <= n - 1 /\ b \in Int
      BY <1>1, <1>2, <1>3, <2>1
    <3> HIDE DEF a, b
    <3> QED
      BY <1>1, <1>3, <3>1
  <2>3. w \in Nat /\ p < w /\ w <= 2 * p
    BY <1>1, <1>3, <1>4, <2>2
  <2>4. Width(n, k, 2 * e) = p /\ Width(n, k, 2 * e + 1) = w - p
    BY <1>1, <1>3, <1>4, <1>5, <1>6, <2>2
  <2> QED
    BY <2>3, <2>4
<1>9. ASSUME ~(2 * e < z) PROVE w = Width(n, k, 2 * e)
  <2>1. 2 * e = z
    BY <1>1, <1>9
  <2>2. z * p = i
    BY <1>3, <2>1
  <2>3. n <= i + p
    BY <1>1, <1>2, <1>3, <2>2
  <2> QED
    BY <1>1, <1>2, <1>3, <1>4, <1>5, <2>2, <2>3
<1>10. /\ p \in Nat /\ p > 0 /\ i \in Nat /\ (2 * e) * p = i /\ (2 * e + 1) * p = i + p
       /\ w = IF n - i < 2 * p THEN n - i ELSE 2 * p
  BY <1>1, <1>3, <1>4
<1> QED
  BY <1>8, <1>9, <1>10 DEF Splits, p, z, i, w

\* The nodes of a level from those of the level below.
LEMMA LevelRises ==
  ASSUME NEW D, Len(D) \in Positive, NEW k \in Nat, NEW e \in Nat, 2 * e <= Up(Len(D) - 1, k)
  PROVE  NodeAt(D, k + 1, e) = IF 2 * e < Up(Len(D) - 1, k) THEN Node(NodeAt(D, k, 2 * e), NodeAt(D, k, 2 * e + 1))
                               ELSE NodeAt(D, k, 2 * e)
<1> DEFINE n == Len(D)
           p == Pow2[k]
           z == Up(n - 1, k)
           i == e * Pow2[k + 1]
           w == Width(n, k + 1, e)
<1>1. /\ p \in Nat /\ p > 0 /\ i \in Nat /\ (2 * e) * p = i /\ (2 * e + 1) * p = i + p
      /\ 2 * e < z => /\ w \in Nat /\ p < w /\ w <= 2 * p
                      /\ Width(n, k, 2 * e) = p /\ Width(n, k, 2 * e + 1) = w - p
      /\ ~(2 * e < z) => w = Width(n, k, 2 * e)
  <2>1. Splits(n, k, e)
    BY RangeSplits
  <2> QED
    BY <2>1 DEF Splits
<1>2. /\ NodeAt(D, k + 1, e) = Hash(D, i, w)
      /\ NodeAt(D, k, 2 * e) = Hash(D, i, Width(n, k, 2 * e))
      /\ NodeAt(D, k, 2 * e + 1) = Hash(D, i + p, Width(n, k, 2 * e + 1))
  BY <1>1 DEF NodeAt
<1> HIDE DEF n, p, z, i, w
<1>3. CASE 2 * e < z
  <2>1. w \in Nat /\ Pow2[k] < w /\ w <= 2 * Pow2[k] /\ i \in Nat
    BY <1>1, <1>3 DEF p
  <2>2. Hash(D, i, w) = Node(Hash(D, i, Pow2[k]), Hash(D, i + Pow2[k], w - Pow2[k]))
    BY <2>1, HashSplits
  <2>3. NodeAt(D, k + 1, e) = Node(NodeAt(D, k, 2 * e), NodeAt(D, k, 2 * e + 1))
    BY <1>1, <1>2, <1>3, <2>2 DEF p
  <2> QED
    BY <1>3, <2>3 DEF z, n
<1>4. CASE ~(2 * e < z)
  BY <1>1, <1>2, <1>4 DEF z, n
<1> QED
  BY <1>3, <1>4

LEMMA TopNode ==
  ASSUME NEW D, Len(D) \in Positive, NEW k \in Nat, Up(Len(D) - 1, k) = 0
  PROVE  NodeAt(D, k, 0) = MTH(D)
<1> DEFINE n == Len(D)
           p == Pow2[k]
<1>1. n \in Nat /\ n > 0 /\ n - 1 \in Nat
  <2> HIDE DEF p
  <2> QED
    BY DEF Positive
<1>0. p \in Nat
  BY Powers
<1>2. n - 1 < 0 * p + p
  BY <1>1, UpIs
<1>3. Width(n, k, 0) = n
  BY <1>0, <1>1, <1>2 DEF Width
<1>4. 0 * Pow2[k] = 0
  BY <1>0
<1> QED
  BY <1>3, <1>4 DEF NodeAt, MTH, Hash

LEMMA BottomNode ==
  ASSUME NEW D, Len(D) \in Positive, NEW x \in 0 .. Len(D) - 1
  PROVE  NodeAt(D, 0, x) = Leaf(D[x + 1])
<1>1. Pow2[0] = 1 /\ Width(Len(D), 0, x) = 1
  BY Powers DEF Width, Positive
<1> QED
  BY <1>1, HashOfLeaf DEF NodeAt

-----------------------------------------------------------------------------
(* One turn of the loop: first and last are the two indices at level 0.    *)

\* Between the levels a and b the path has no node beside it.
Quiet(first, last, a, b) == \A t \in a .. b - 1 : ~Odd(Up(first, t)) /\ Up(first, t) = Up(last, t)
\* How many leaves are before the node of x at level k.
Border(x, k) == Up(x, k) * Pow2[k]

LEMMA Halves ==
  ASSUME NEW x \in Nat
  PROVE  /\ x \div 2 \in Nat
         /\ Odd(x) => x = 2 * (x \div 2) + 1
         /\ ~Odd(x) => x = 2 * (x \div 2)
BY DEF Odd

LEMMA BorderIs ==
  ASSUME NEW x \in Nat, NEW k \in Nat
  PROVE  /\ Border(x, k) \in Nat /\ Border(x, k + 1) \in Nat
         /\ Odd(Up(x, k)) => Border(x, k + 1) = Border(x, k) - Pow2[k]
         /\ ~Odd(Up(x, k)) => Border(x, k + 1) = Border(x, k)
<1> DEFINE p == Pow2[k]
           u == Up(x, k)
           h == u \div 2
<1>1. p \in Nat /\ Pow2[k + 1] = 2 * p
  BY Powers
<1>2. u \in Nat /\ Up(x, k + 1) = h
  BY UpIs
<1> HIDE DEF u
<1>3. h \in Nat /\ (Odd(u) => u = 2 * h + 1) /\ (~Odd(u) => u = 2 * h)
  BY <1>2, Halves
<1>4. Border(x, k) = u * p /\ Border(x, k + 1) = h * (2 * p)
  BY <1>1, <1>2 DEF Border, u
<1> HIDE DEF p, h
<1>5. h * (2 * p) = (2 * h) * p /\ (2 * h + 1) * p = (2 * h) * p + p /\ (2 * h) * p \in Nat
  BY <1>1, <1>3
<1> QED
  BY <1>1, <1>3, <1>4, <1>5 DEF u, p

LEMMA NodeRises ==
  ASSUME NEW D, Len(D) \in Positive, NEW first \in Nat, first <= Len(D) - 1, NEW k \in Nat
  PROVE  LET x == Up(first, k)
             z == Up(Len(D) - 1, k)
             above == NodeAt(D, k + 1, Up(first, k + 1)) IN
         /\ x \in Nat /\ z \in Nat /\ x <= z
         /\ Odd(x) => above = Node(NodeAt(D, k, x - 1), NodeAt(D, k, x))
         /\ ~Odd(x) /\ x < z => above = Node(NodeAt(D, k, x), NodeAt(D, k, x + 1))
         /\ ~Odd(x) /\ x = z => above = NodeAt(D, k, x)
<1> DEFINE last == Len(D) - 1
           x == Up(first, k)
           z == Up(last, k)
           e == x \div 2
<1>1. last \in Nat /\ first <= last
  BY DEF Positive
<1>2. x \in Nat /\ z \in Nat /\ x <= z /\ Up(first, k + 1) = e
  BY <1>1, UpIs, UpGrows
<1> HIDE DEF x
<1>3. e \in Nat /\ (Odd(x) => x = 2 * e + 1) /\ (~Odd(x) => x = 2 * e)
  BY <1>2, Halves
<1> HIDE DEF e, z
<1>4. 2 * e <= z
  BY <1>2, <1>3
<1>5. NodeAt(D, k + 1, e) = IF 2 * e < z THEN Node(NodeAt(D, k, 2 * e), NodeAt(D, k, 2 * e + 1)) ELSE NodeAt(D, k, 2 * e)
  BY <1>3, <1>4, LevelRises DEF z
<1>6. ASSUME Odd(x) PROVE NodeAt(D, k + 1, e) = Node(NodeAt(D, k, x - 1), NodeAt(D, k, x))
  <2>1. 2 * e < z /\ 2 * e = x - 1 /\ 2 * e + 1 = x
    BY <1>2, <1>3, <1>6
  <2> QED
    BY <1>5, <2>1
<1>7. ASSUME ~Odd(x), x < z PROVE NodeAt(D, k + 1, e) = Node(NodeAt(D, k, x), NodeAt(D, k, x + 1))
  <2>1. 2 * e < z /\ 2 * e = x
    BY <1>3, <1>7
  <2> QED
    BY <1>5, <2>1
<1>8. ASSUME ~Odd(x), x = z PROVE NodeAt(D, k + 1, e) = NodeAt(D, k, x)
  <2>1. ~(2 * e < z) /\ 2 * e = x
    BY <1>2, <1>3, <1>8
  <2> QED
    BY <1>5, <2>1
<1> QED
  BY <1>2, <1>6, <1>7, <1>8 DEF x, z

LEMMA QuietKeeps ==
  ASSUME NEW D, Len(D) \in Positive, NEW first \in Nat, first <= Len(D) - 1,
         NEW a \in Nat, NEW b \in Nat, a <= b, Quiet(first, Len(D) - 1, a, b)
  PROVE  NodeAt(D, b, Up(first, b)) = NodeAt(D, a, Up(first, a)) /\ Border(first, b) = Border(first, a)
<1> DEFINE Same(t) == NodeAt(D, t, Up(first, t)) = NodeAt(D, a, Up(first, a)) /\ Border(first, t) = Border(first, a)
           S == {c \in Nat : a + c <= b => Same(a + c)}
<1>1. 0 \in S
  OBVIOUS
<1>2. ASSUME NEW c \in S PROVE c + 1 \in S
  <2> SUFFICES ASSUME a + (c + 1) <= b PROVE Same(a + (c + 1))
    OBVIOUS
  <2> DEFINE t == a + c
  <2>1. t \in Nat /\ t \in a .. b - 1 /\ a + (c + 1) = t + 1 /\ Same(t)
    OBVIOUS
  <2> HIDE DEF t, S
  <2>2. ~Odd(Up(first, t)) /\ Up(first, t) = Up(Len(D) - 1, t)
    BY <2>1 DEF Quiet
  <2>3. NodeAt(D, t + 1, Up(first, t + 1)) = NodeAt(D, t, Up(first, t))
    BY <2>1, <2>2, NodeRises
  <2>4. Border(first, t + 1) = Border(first, t)
    BY <2>1, <2>2, BorderIs
  <2> QED
    BY <2>1, <2>3, <2>4
<1>3. S = Nat
  <2> HIDE DEF S
  <2> QED
    BY <1>1, <1>2, Induction DEF S
<1>4. b - a \in S /\ a + (b - a) = b
  <2> HIDE DEF S
  <2> QED
    BY <1>3
<1> QED
  BY <1>4

LEMMA ClimbIs ==
  ASSUME NEW first \in Nat, NEW last \in Nat, first <= last, NEW u \in Nat, Up(last, u) # 0
  PROVE  LET fn == Up(first, u)
             sn == Up(last, u) IN
         IF FromLeft(fn, sn)
         THEN \E v \in Nat : u <= v /\ u + Climb(fn, sn) = v + 1 /\ Odd(Up(first, v)) /\ Quiet(first, last, u, v)
         ELSE Climb(fn, sn) = 1 /\ ~Odd(fn) /\ fn < sn
<1> DEFINE fn == Up(first, u)
           sn == Up(last, u)
<1>1. fn \in Nat /\ sn \in Nat /\ fn <= sn /\ sn # 0
  BY UpIs, UpGrows
<1>2. CASE ~FromLeft(fn, sn)
  <2>1. Climb(fn, sn) = 1
    BY <1>2 DEF Climb
  <2>2. ~Odd(fn) /\ fn < sn
    BY <1>1, <1>2 DEF FromLeft
  <2> QED
    BY <1>2, <2>1, <2>2
<1>3. CASE FromLeft(fn, sn)
  <2> DEFINE z == TrailingZeros(fn)
  <2>1. fn > 0
    BY <1>1, <1>3 DEF FromLeft, Odd
  <2>2. z \in Nat /\ LowZeros(fn, z) /\ Odd(Up(fn, z))
    BY <1>1, <2>1, TrailingZerosIs
  <2>3. Climb(fn, sn) = 1 + z
    BY <1>3 DEF Climb
  <2> HIDE DEF z
  <2>4. Odd(Up(first, u + z))
    BY <2>2, UpUp
  <2>5. ASSUME NEW t \in u .. u + z - 1 PROVE ~Odd(Up(first, t)) /\ Up(first, t) = Up(last, t)
    <3>1. t - u \in Nat /\ t - u \in 0 .. z - 1 /\ u + (t - u) = t /\ 0 \in 0 .. z - 1 /\ t \in Nat
      BY <2>2
    <3>2. Up(fn, t - u) = Up(first, t) /\ Up(sn, t - u) = Up(last, t)
      <4>1. Up(Up(first, u), t - u) = Up(first, u + (t - u)) /\ Up(Up(last, u), t - u) = Up(last, u + (t - u))
        BY <3>1, UpUp
      <4> QED
        BY <3>1, <4>1
    <3>3. ~Odd(fn)
      <4>1. Up(fn, 0) = fn
        BY <1>1, UpIs
      <4>2. ~Odd(Up(fn, 0))
        BY <2>2, <3>1 DEF LowZeros
      <4> QED
        BY <4>1, <4>2
    <3>4. fn = sn
      BY <1>3, <3>3 DEF FromLeft
    <3>5. ~Odd(Up(fn, t - u))
      BY <2>2, <3>1 DEF LowZeros
    <3> QED
      BY <3>2, <3>4, <3>5
  <2>6. u + z \in Nat /\ u <= u + z /\ u + (1 + z) = (u + z) + 1 /\ Quiet(first, last, u, u + z)
    BY <2>2, <2>5 DEF Quiet
  <2> QED
    BY <1>3, <2>3, <2>4, <2>6
<1> QED
  BY <1>2, <1>3

\* The node to the left of the path, one level below k.
LeftOf(D, first, k) == NodeAt(D, k - 1, Up(first, k - 1) - 1)

\* What the hash that is combined next should be, and what comes out then: in the
\* newer tree, and in the older one, of which the path is the right edge.
LEMMA TurnIs ==
  ASSUME NEW D, Len(D) \in Positive, NEW first \in Nat, NEW last \in Nat, first <= last, NEW u \in Nat, Up(last, u) # 0,
         Len(D) - 1 = last \/ Len(D) - 1 = first
  PROVE  LET fn == Up(first, u)
             sn == Up(last, u)
             k == u + Climb(fn, sn)
             above == NodeAt(D, k, Up(first, k)) IN
         /\ k \in Nat /\ k > u
         /\ FromLeft(fn, sn) => /\ above = Node(LeftOf(D, first, k), NodeAt(D, u, fn))
                                /\ Odd(Up(first, k - 1)) /\ Quiet(first, last, u, k - 1)
                                /\ Border(first, k) = Border(first, u) - Pow2[k - 1]
                                /\ Border(first, k - 1) = Border(first, u)
         /\ ~FromLeft(fn, sn) => /\ k = u + 1 /\ Border(first, k) = Border(first, u)
                                 /\ Len(D) - 1 = last => above = Node(NodeAt(D, u, fn), NodeAt(D, u, fn + 1))
                                 /\ Len(D) - 1 = first => above = NodeAt(D, u, fn)
<1> DEFINE fn == Up(first, u)
           sn == Up(last, u)
           k == u + Climb(fn, sn)
           edge == Len(D) - 1
<1>1. edge \in Nat /\ first <= edge /\ edge <= last
  BY DEF Positive
<1>2. CASE FromLeft(fn, sn)
  <2>1. PICK v \in Nat : u <= v /\ u + Climb(fn, sn) = v + 1 /\ Odd(Up(first, v)) /\ Quiet(first, last, u, v)
    BY <1>2, ClimbIs
  <2> HIDE DEF fn, sn
  <2>2. k = v + 1 /\ k - 1 = v /\ k \in Nat /\ k > u
    BY <2>1
  <2> HIDE DEF k
  <2>3. Quiet(first, edge, u, v)
    BY <2>1 DEF Quiet
  <2>4. NodeAt(D, v, Up(first, v)) = NodeAt(D, u, Up(first, u)) /\ Border(first, v) = Border(first, u)
    BY <1>1, <2>1, <2>3, QuietKeeps
  <2>5. NodeAt(D, v + 1, Up(first, v + 1)) = Node(NodeAt(D, v, Up(first, v) - 1), NodeAt(D, v, Up(first, v)))
    BY <1>1, <2>1, NodeRises
  <2>6. Border(first, v + 1) = Border(first, v) - Pow2[v]
    BY <2>1, BorderIs
  <2> QED
    BY <1>2, <2>1, <2>2, <2>4, <2>5, <2>6 DEF LeftOf, fn, sn, k
<1>3. CASE ~FromLeft(fn, sn)
  <2>1. Climb(fn, sn) = 1 /\ ~Odd(fn) /\ fn < sn
    BY <1>3, ClimbIs
  <2>2. k = u + 1 /\ k \in Nat /\ k > u
    BY <2>1
  <2>3. Border(first, u + 1) = Border(first, u)
    BY <2>1, BorderIs
  <2>4. ASSUME edge = last PROVE NodeAt(D, u + 1, Up(first, u + 1)) = Node(NodeAt(D, u, fn), NodeAt(D, u, fn + 1))
    <3>1. Up(Len(D) - 1, u) = sn
      BY <2>4
    <3> HIDE DEF fn, sn, k
    <3> QED
      BY <1>1, <2>1, <3>1, NodeRises DEF fn
  <2>5. ASSUME edge = first PROVE NodeAt(D, u + 1, Up(first, u + 1)) = NodeAt(D, u, fn)
    <3>1. Up(Len(D) - 1, u) = fn
      BY <2>5
    <3> HIDE DEF fn, sn, k
    <3> QED
      BY <1>1, <2>1, <3>1, NodeRises DEF fn
  <2> HIDE DEF k
  <2> QED
    BY <1>3, <2>1, <2>2, <2>3, <2>4, <2>5 DEF k
<1> QED
  BY <1>2, <1>3

-----------------------------------------------------------------------------
(* What the verifiers accept: RFC 9162's loops read backwards, from the    *)
(* roots they end with.                                                    *)

LEMMA UpTop ==
  ASSUME NEW x \in Nat, NEW y \in Nat, NEW k \in Nat, x <= y
  PROVE  /\ Up(x, k) \in Nat /\ Up(x, k) \in 0 .. Up(y, k)
         /\ Up(y, k) = 0 => Up(x, k) = 0
<1>1. Up(x, k) \in Nat /\ Up(y, k) \in Nat
  BY UpIs
<1>2. Up(x, k) <= Up(y, k)
  BY UpGrows
<1> QED
  BY <1>1, <1>2

LEMMA StepIs ==
  ASSUME NEW first, NEW last, NEW s, NEW c, NEW t, t = Step(first, last, s, c)
  PROVE  /\ t.up = s.up + Climb(Up(first, s.up), Up(last, s.up))
         /\ t.ok <=> s.ok /\ Up(last, s.up) # 0
BY DEF Step

\* What the states of the loop are: as long as the loop goes on, the level is one
\* at which the newer tree has more than one node.
Turning(first, last, up, seed, path, w) ==
  /\ w[0] = [up |-> up, ok |-> TRUE, fr |-> seed, sr |-> seed]
  /\ \A j \in Nat : /\ w[j + 1] = Step(first, last, w[j], path[j + 1])
                    /\ w[j + 1].ok => w[j].ok /\ Up(last, w[j].up) # 0
                    /\ w[j].ok => w[j].up \in Nat

LEMMA Turns ==
  ASSUME NEW first \in Nat, NEW last \in Nat, first <= last, NEW up \in Nat, NEW seed, NEW path
  PROVE  Turning(first, last, up, seed, path, Walk(first, last, up, seed, path))
<1> DEFINE w == Walk(first, last, up, seed, path)
<1> HIDE DEF w
<1>1. w = [j \in Nat |-> WalkRow(first, last, up, seed, path, w, j)]
  BY WalkDefined DEF w
<1>2. \A j \in Nat : w[j] = WalkRow(first, last, up, seed, path, w, j)
  BY <1>1
<1>3. w[0] = [up |-> up, ok |-> TRUE, fr |-> seed, sr |-> seed]
  BY <1>2 DEF WalkRow
<1>4. ASSUME NEW j \in Nat PROVE w[j + 1] = Step(first, last, w[j], path[j + 1])
  <2>1. j + 1 \in Nat /\ j + 1 # 0 /\ (j + 1) - 1 = j
    OBVIOUS
  <2>2. w[j + 1] = WalkRow(first, last, up, seed, path, w, j + 1)
    BY <1>2, <2>1
  <2> QED
    BY <2>1, <2>2 DEF WalkRow
<1>5. ASSUME NEW j \in Nat, w[j + 1].ok PROVE w[j].ok /\ Up(last, w[j].up) # 0
  <2>1. w[j + 1] = Step(first, last, w[j], path[j + 1])
    BY <1>4
  <2>2. w[j + 1].ok <=> w[j].ok /\ Up(last, w[j].up) # 0
    BY <2>1, StepIs
  <2> QED
    BY <1>5, <2>2
<1> DEFINE S == {j \in Nat : w[j].ok => w[j].up \in Nat}
<1>6. 0 \in S
  BY <1>3
<1>7. ASSUME NEW j \in S PROVE j + 1 \in S
  <2> SUFFICES ASSUME w[j + 1].ok PROVE w[j + 1].up \in Nat
    OBVIOUS
  <2> DEFINE u == w[j].up
             climb == Climb(Up(first, u), Up(last, u))
  <2>1. u \in Nat /\ Up(last, u) # 0
    <3>1. w[j].ok /\ Up(last, w[j].up) # 0
      BY <1>5
    <3> QED
      BY <3>1
  <2>2. w[j + 1].up = u + climb
    <3>1. w[j + 1] = Step(first, last, w[j], path[j + 1])
      BY <1>4
    <3> QED
      BY <3>1, StepIs
  <2>3. u + climb \in Nat
    <3> HIDE DEF u
    <3>1. CASE FromLeft(Up(first, u), Up(last, u))
      <4>1. \E v \in Nat : u + Climb(Up(first, u), Up(last, u)) = v + 1
        BY <2>1, <3>1, ClimbIs
      <4> QED
        BY <4>1
    <3>2. CASE ~FromLeft(Up(first, u), Up(last, u))
      <4>1. climb = 1
        BY <2>1, <3>2, ClimbIs
      <4> QED
        BY <2>1, <4>1
    <3> QED
      BY <3>1, <3>2
  <2> QED
    BY <2>2, <2>3
<1>8. S = Nat
  <2> HIDE DEF S
  <2> QED
    BY <1>6, <1>7, Induction DEF S
<1>9. ASSUME NEW j \in Nat, w[j].ok PROVE w[j].up \in Nat
  BY <1>8, <1>9
<1>10. Turning(first, last, up, seed, path, w)
  BY <1>3, <1>4, <1>5, <1>9, Zenon DEF Turning
<1> QED
  BY <1>10 DEF w

\* One turn back, in the newer tree: what was rebuilt so far is the node of the
\* path, and a hash from the left is the node to its left.
LEMMA BackInNewer ==
  ASSUME NEW D, Len(D) \in Positive, NEW first \in Nat, first <= Len(D) - 1,
         NEW s, s.up \in Nat, Up(Len(D) - 1, s.up) # 0, NEW c, NEW t, t = Step(first, Len(D) - 1, s, c),
         t.sr = NodeAt(D, t.up, Up(first, t.up))
  PROVE  /\ s.sr = NodeAt(D, s.up, Up(first, s.up))
         /\ FromLeft(Up(first, s.up), Up(Len(D) - 1, s.up)) => c = LeftOf(D, first, t.up)
<1> DEFINE last == Len(D) - 1
           u == s.up
           fn == Up(first, u)
           sn == Up(last, u)
           k == u + Climb(fn, sn)
<1>1. last \in Nat /\ Len(D) - 1 = last
  BY DEF Positive
<1>2. t.up = k /\ t.sr = IF FromLeft(fn, sn) THEN Node(c, s.sr) ELSE Node(s.sr, c)
  BY DEF Step
<1> HIDE DEF last
<1>3. /\ FromLeft(fn, sn) => NodeAt(D, k, Up(first, k)) = Node(LeftOf(D, first, k), NodeAt(D, u, fn))
      /\ ~FromLeft(fn, sn) => NodeAt(D, k, Up(first, k)) = Node(NodeAt(D, u, fn), NodeAt(D, u, fn + 1))
  BY <1>1, TurnIs DEF last
<1>4. NodeAt(D, k, Up(first, k)) = IF FromLeft(fn, sn) THEN Node(c, s.sr) ELSE Node(s.sr, c)
  BY <1>2
<1> HIDE DEF fn, sn, k, u
<1>5. s.sr = NodeAt(D, u, fn) /\ (FromLeft(fn, sn) => c = LeftOf(D, first, k))
  <2>1. CASE FromLeft(fn, sn)
    <3>1. Node(c, s.sr) = Node(LeftOf(D, first, k), NodeAt(D, u, fn))
      BY <1>3, <1>4, <2>1
    <3> QED
      BY <3>1 DEF Node
  <2>2. CASE ~FromLeft(fn, sn)
    <3>1. Node(s.sr, c) = Node(NodeAt(D, u, fn), NodeAt(D, u, fn + 1))
      BY <1>3, <1>4, <2>2
    <3> QED
      BY <2>2, <3>1 DEF Node
  <2> QED
    BY <2>1, <2>2
<1> QED
  BY <1>2, <1>5 DEF last, fn, sn, u

\* The same in the older one.
LEMMA BackInOlder ==
  ASSUME NEW C, Len(C) \in Positive, NEW last \in Nat, Len(C) - 1 <= last,
         NEW s, s.up \in Nat, Up(last, s.up) # 0, NEW c, NEW t, t = Step(Len(C) - 1, last, s, c),
         t.fr = NodeAt(C, t.up, Up(Len(C) - 1, t.up))
  PROVE  /\ s.fr = NodeAt(C, s.up, Up(Len(C) - 1, s.up))
         /\ FromLeft(Up(Len(C) - 1, s.up), Up(last, s.up)) => c = LeftOf(C, Len(C) - 1, t.up)
<1> DEFINE first == Len(C) - 1
           u == s.up
           fn == Up(first, u)
           sn == Up(last, u)
           k == u + Climb(fn, sn)
<1>1. first \in Nat /\ Len(C) - 1 = first
  BY DEF Positive
<1>2. t.up = k /\ t.fr = IF FromLeft(fn, sn) THEN Node(c, s.fr) ELSE s.fr
  BY DEF Step
<1> HIDE DEF first
<1>3. /\ FromLeft(fn, sn) => NodeAt(C, k, Up(first, k)) = Node(LeftOf(C, first, k), NodeAt(C, u, fn))
      /\ ~FromLeft(fn, sn) => NodeAt(C, k, Up(first, k)) = NodeAt(C, u, fn)
  BY <1>1, TurnIs DEF first
<1>4. NodeAt(C, k, Up(first, k)) = IF FromLeft(fn, sn) THEN Node(c, s.fr) ELSE s.fr
  BY <1>2 DEF first
<1> HIDE DEF fn, sn, k, u
<1>5. s.fr = NodeAt(C, u, fn) /\ (FromLeft(fn, sn) => c = LeftOf(C, first, k))
  <2>1. CASE FromLeft(fn, sn)
    <3>1. Node(c, s.fr) = Node(LeftOf(C, first, k), NodeAt(C, u, fn))
      BY <1>3, <1>4, <2>1
    <3> QED
      BY <3>1 DEF Node
  <2>2. CASE ~FromLeft(fn, sn)
    BY <1>3, <1>4, <2>2
  <2> QED
    BY <2>1, <2>2
<1> QED
  BY <1>2, <1>5 DEF first, fn, sn, u

\* C and D have the same first b leaves.
Agree(C, D, b) == \A i \in 1 .. b : C[i] = D[i]

\* Equal nodes left of a place of a level: the leaves under them are the same.
LEMMA SameLeft ==
  ASSUME NEW C, NEW D, Len(C) \in Positive, Len(D) \in Positive, Len(C) <= Len(D), NEW k \in Nat, NEW x \in Nat, x > 0,
         x <= Up(Len(C) - 1, k), NodeAt(C, k, x - 1) = NodeAt(D, k, x - 1), Agree(C, D, (x * Pow2[k]) - Pow2[k])
  PROVE  Agree(C, D, x * Pow2[k])
<1> DEFINE p == Pow2[k]
           y == x - 1
           b == y * p
<1>1. p \in Nat /\ p > 0
  <2>1. Pow2[k] \in Nat /\ Pow2[k] > k
    BY Powers
  <2> QED
    BY <2>1
<1>2. y \in Nat /\ y < Up(Len(C) - 1, k) /\ y < Up(Len(D) - 1, k)
  <2>1. Len(C) - 1 \in Nat /\ Len(D) - 1 \in Nat /\ Len(C) - 1 <= Len(D) - 1
    BY DEF Positive
  <2>2. Up(Len(C) - 1, k) \in Nat /\ Up(Len(D) - 1, k) \in Nat /\ Up(Len(C) - 1, k) <= Up(Len(D) - 1, k)
    BY <2>1, UpIs, UpGrows
  <2> QED
    BY <2>2
<1>3. x * p = b + p /\ (x * p) - p = b
  <2> HIDE DEF p
  <2> QED
    BY <1>1
<1> HIDE DEF y
<1>4. b \in Nat /\ Width(Len(C), k, y) = p /\ Width(Len(D), k, y) = p
  <2>1. y \in 0 .. Up(Len(C) - 1, k) /\ y \in 0 .. Up(Len(D) - 1, k)
    <3>1. Len(C) - 1 \in Nat /\ Len(D) - 1 \in Nat
      BY DEF Positive
    <3>2. Up(Len(C) - 1, k) \in Nat /\ Up(Len(D) - 1, k) \in Nat
      BY <3>1, UpIs
    <3> QED
      BY <1>2, <3>2
  <2> QED
    BY <1>2, <2>1, WidthIs
<1>5. Hash(C, b, p) = Hash(D, b, p)
  BY <1>4 DEF NodeAt, y
<1>6. \A j \in b + 1 .. b + p : C[j] = D[j]
  <2> HIDE DEF p, b
  <2> QED
    BY <1>1, <1>4, <1>5, HashBinds DEF Positive
<1> HIDE DEF b
<1>7. \A i \in 1 .. b : C[i] = D[i]
  BY <1>3 DEF Agree
<1>8. \A i \in 1 .. b + p : i \in 1 .. b \/ i \in b + 1 .. b + p
  <2> HIDE DEF p
  <2> QED
    BY <1>1, <1>4
<1> QED
  BY <1>3, <1>6, <1>7, <1>8 DEF Agree

\* What holds of a state of the loop whose hashes are those of the path in both trees.
Matches(C, D, s) ==
  /\ s.fr = NodeAt(C, s.up, Up(Len(C) - 1, s.up)) /\ s.sr = NodeAt(D, s.up, Up(Len(C) - 1, s.up))
  /\ Agree(C, D, Border(Len(C) - 1, s.up))

LEMMA Back ==
  ASSUME NEW C, NEW D, Len(C) \in Positive, Len(D) \in Positive, Len(C) <= Len(D),
         NEW s, s.up \in Nat, Up(Len(D) - 1, s.up) # 0, NEW c, NEW t, t = Step(Len(C) - 1, Len(D) - 1, s, c),
         Matches(C, D, t)
  PROVE  Matches(C, D, s)
<1> DEFINE first == Len(C) - 1
           last == Len(D) - 1
           u == s.up
           fn == Up(first, u)
           sn == Up(last, u)
           k == u + Climb(fn, sn)
<1>1. first \in Nat /\ last \in Nat /\ first <= last
  BY DEF Positive
<1>2. t.up = k
  BY DEF Step
<1>3. s.sr = NodeAt(D, u, fn) /\ (FromLeft(fn, sn) => LeftOf(D, first, k) = c)
  BY <1>1, <1>2, BackInNewer DEF Matches
<1>4. s.fr = NodeAt(C, u, fn) /\ (FromLeft(fn, sn) => LeftOf(C, first, k) = c)
  BY <1>1, <1>2, BackInOlder DEF Matches
<1>5. /\ k \in Nat /\ k > u
      /\ FromLeft(fn, sn) => /\ Odd(Up(first, k - 1))
                             /\ Border(first, k) = Border(first, u) - Pow2[k - 1]
                             /\ Border(first, k - 1) = Border(first, u)
      /\ ~FromLeft(fn, sn) => Border(first, k) = Border(first, u)
  BY <1>1, TurnIs
<1>6. Agree(C, D, Border(first, k))
  BY <1>2 DEF Matches
<1> HIDE DEF k
<1>7. CASE FromLeft(fn, sn)
  <2> DEFINE v == k - 1
             x == Up(first, v)
  <2>1. v \in Nat /\ x \in Nat /\ x > 0
    <3>1. v \in Nat
      BY <1>5
    <3>2. x \in Nat
      BY <1>1, <3>1, UpIs
    <3> QED
      BY <1>5, <1>7, <3>1, <3>2 DEF Odd
  <2>2. NodeAt(C, v, x - 1) = NodeAt(D, v, x - 1)
    BY <1>3, <1>4, <1>7 DEF LeftOf
  <2>3. Border(first, u) = x * Pow2[v] /\ Agree(C, D, x * Pow2[v] - Pow2[v])
    BY <1>5, <1>6, <1>7 DEF Border
  <2>4. x <= Up(Len(C) - 1, v)
    BY <2>1
  <2> HIDE DEF v, x, u
  <2> QED
    BY <1>3, <1>4, <2>1, <2>2, <2>3, <2>4, SameLeft DEF Matches, u
<1>8. CASE ~FromLeft(fn, sn)
  BY <1>3, <1>4, <1>5, <1>6, <1>8 DEF Matches
<1> QED
  BY <1>7, <1>8

LEMMA WalkBack ==
  ASSUME NEW C, NEW D, Len(C) \in Positive, Len(D) \in Positive, Len(C) <= Len(D), NEW up \in Nat, NEW seed, NEW path,
         NEW w, w = Walk(Len(C) - 1, Len(D) - 1, up, seed, path), NEW N \in Nat, w[N].ok, Matches(C, D, w[N])
  PROVE  Matches(C, D, w[0])
<1> DEFINE first == Len(C) - 1
           last == Len(D) - 1
           S == {c \in Nat : c <= N => w[N - c].ok /\ Matches(C, D, w[N - c])}
<1>1. first \in Nat /\ last \in Nat /\ first <= last
  BY DEF Positive
<1>2. \A j \in Nat : /\ w[j + 1] = Step(first, last, w[j], path[j + 1])
                     /\ w[j + 1].ok => w[j].ok /\ Up(last, w[j].up) # 0
                     /\ w[j].ok => w[j].up \in Nat
  <2>1. Turning(first, last, up, seed, path, w)
    <3> HIDE DEF first, last
    <3> QED
      BY <1>1, Turns DEF first, last
  <2> QED
    BY <2>1 DEF Turning
<1>3. 0 \in S
  OBVIOUS
<1>4. ASSUME NEW c \in S PROVE c + 1 \in S
  <2> SUFFICES ASSUME c + 1 <= N PROVE w[N - (c + 1)].ok /\ Matches(C, D, w[N - (c + 1)])
    OBVIOUS
  <2> DEFINE j == N - (c + 1)
  <2>1. j \in Nat /\ j + 1 = N - c /\ w[N - c].ok /\ Matches(C, D, w[N - c])
    OBVIOUS
  <2> HIDE DEF j, S
  <2>2. w[j + 1] = Step(first, last, w[j], path[j + 1]) /\ w[j].ok /\ Up(last, w[j].up) # 0 /\ w[j].up \in Nat
    <3>1. /\ w[j + 1] = Step(first, last, w[j], path[j + 1])
          /\ w[j + 1].ok => w[j].ok /\ Up(last, w[j].up) # 0
          /\ w[j].ok => w[j].up \in Nat
      BY <1>2, <2>1
    <3> QED
      BY <2>1, <3>1
  <2>3. Matches(C, D, w[j + 1])
    BY <2>1
  <2>4. Matches(C, D, w[j])
    BY <2>2, <2>3, Back
  <2> QED
    BY <2>2, <2>4 DEF j
<1>5. S = Nat
  <2> HIDE DEF S
  <2> QED
    BY <1>3, <1>4, Induction DEF S
<1>6. N \in S /\ N - N = 0
  <2> HIDE DEF S
  <2> QED
    BY <1>5
<1> QED
  BY <1>6

LEMMA WalkBackInclusion ==
  ASSUME NEW D, Len(D) \in Positive, NEW first \in 0 .. Len(D) - 1, NEW seed, NEW path,
         NEW w, w = Walk(first, Len(D) - 1, 0, seed, path), NEW N \in Nat, w[N].ok,
         w[N].sr = NodeAt(D, w[N].up, Up(first, w[N].up))
  PROVE  w[0].sr = NodeAt(D, w[0].up, Up(first, w[0].up))
<1> DEFINE last == Len(D) - 1
           On(s) == s.sr = NodeAt(D, s.up, Up(first, s.up))
           S == {c \in Nat : c <= N => w[N - c].ok /\ On(w[N - c])}
<1>1. first \in Nat /\ last \in Nat /\ first <= last
  BY DEF Positive
<1>2. \A j \in Nat : /\ w[j + 1] = Step(first, last, w[j], path[j + 1])
                     /\ w[j + 1].ok => w[j].ok /\ Up(last, w[j].up) # 0
                     /\ w[j].ok => w[j].up \in Nat
  <2>1. Turning(first, last, 0, seed, path, w)
    <3> HIDE DEF last
    <3> QED
      BY <1>1, Turns DEF last
  <2> QED
    BY <2>1 DEF Turning
<1>3. 0 \in S
  OBVIOUS
<1>4. ASSUME NEW c \in S PROVE c + 1 \in S
  <2> SUFFICES ASSUME c + 1 <= N PROVE w[N - (c + 1)].ok /\ On(w[N - (c + 1)])
    OBVIOUS
  <2> DEFINE j == N - (c + 1)
  <2> HIDE DEF On
  <2>1. j \in Nat /\ j + 1 = N - c /\ w[N - c].ok /\ On(w[N - c])
    OBVIOUS
  <2> HIDE DEF j, S
  <2>2. w[j + 1] = Step(first, last, w[j], path[j + 1]) /\ w[j].ok /\ Up(last, w[j].up) # 0 /\ w[j].up \in Nat
    <3>1. /\ w[j + 1] = Step(first, last, w[j], path[j + 1])
          /\ w[j + 1].ok => w[j].ok /\ Up(last, w[j].up) # 0
          /\ w[j].ok => w[j].up \in Nat
      BY <1>2, <2>1
    <3> QED
      BY <2>1, <3>1
  <2>3. On(w[j + 1])
    BY <2>1
  <2>4. On(w[j])
    <3> DEFINE s == w[j]
               t == w[j + 1]
    <3>1. s.up \in Nat /\ Up(Len(D) - 1, s.up) # 0 /\ t = Step(first, Len(D) - 1, s, path[j + 1])
      BY <2>2
    <3>2. t.sr = NodeAt(D, t.up, Up(first, t.up))
      BY <2>3 DEF On
    <3> HIDE DEF s, t
    <3>3. s.sr = NodeAt(D, s.up, Up(first, s.up))
      BY <1>1, <3>1, <3>2, BackInNewer
    <3> QED
      BY <3>3 DEF On, s
  <2> QED
    BY <2>2, <2>4 DEF j
<1>5. S = Nat
  <2> HIDE DEF S
  <2> QED
    BY <1>3, <1>4, Induction DEF S
<1>6. N \in S /\ N - N = 0
  <2> HIDE DEF S
  <2> QED
    BY <1>5
<1> QED
  BY <1>6

\* Whatever path is given: when tlog.verify_inclusion accepts it for a leaf under
\* the root of D, the leaf is the one of D at that place.
THEOREM InclusionSound ==
  ASSUME NEW A, NEW D \in Seq(A), NEW B, NEW path \in Seq(B), NEW index \in 0 .. Len(D) - 1, NEW data,
         VerifyInclusion(Leaf(data), index, Len(D), path, MTH(D))
  PROVE  D[index + 1] = data
<1> DEFINE last == Len(D) - 1
           w == Walk(index, last, 0, Leaf(data), path)
           s == w[Len(path)]
<1>1. Len(D) \in Positive /\ index \in Nat /\ last \in Nat /\ index <= last /\ Len(path) \in Nat
  BY DEF Positive
<1>2. s.ok /\ Up(last, s.up) = 0 /\ s.sr = MTH(D)
  BY DEF VerifyInclusion, Walked, AtTop
<1> HIDE DEF w
<1>3. /\ w[0] = [up |-> 0, ok |-> TRUE, fr |-> Leaf(data), sr |-> Leaf(data)]
      /\ s.up \in Nat
  <2>1. Turning(index, last, 0, Leaf(data), path, w)
    <3> HIDE DEF last
    <3> QED
      BY <1>1, Turns DEF w
  <2> QED
    BY <1>1, <1>2, <2>1 DEF Turning
<1>4. Up(index, s.up) = 0
  <2> HIDE DEF s, last
  <2> QED
    BY <1>1, <1>2, <1>3, UpTop
<1>5. s.sr = NodeAt(D, s.up, Up(index, s.up))
  <2> HIDE DEF s
  <2> QED
    BY <1>1, <1>2, <1>3, <1>4, TopNode
<1>6. w[0].sr = NodeAt(D, w[0].up, Up(index, w[0].up))
  BY <1>1, <1>2, <1>5, WalkBackInclusion DEF w
<1>7. Leaf(data) = NodeAt(D, 0, index)
  BY <1>1, <1>3, <1>6, UpIs
<1>8. NodeAt(D, 0, index) = Leaf(D[index + 1])
  BY <1>1, BottomNode
<1> QED
  BY <1>7, <1>8 DEF Leaf

\* Where a consistency proof starts: the largest subtree of the older tree that
\* ends with its last leaf, which is the node of that leaf in both trees.
LEMMA LastSubtree ==
  ASSUME NEW m \in Positive
  PROVE  LET z == TrailingZeros(m) IN
         /\ z \in Nat /\ Up(m - 1, z) \in Nat /\ ~Odd(Up(m - 1, z))
         /\ Border(m - 1, z) + Pow2[z] = m
         /\ (Up(m - 1, z) = 0) <=> (m = Pow2[z])
<1> DEFINE z == TrailingZeros(m)
           p == Pow2[z]
           q == Up(m, z)
<1>1. z \in Nat /\ Odd(q) /\ LowZeros(m, z)
  BY TrailingZerosIs DEF Positive
<1> HIDE DEF z
<1>2. p * q = m
  BY <1>1, LowZerosIs DEF Positive
<1>3. p \in Nat /\ p > 0
  <2>1. Pow2[z] \in Nat /\ Pow2[z] > z
    BY <1>1, Powers
  <2> QED
    BY <1>1, <2>1
<1>4. q \in Nat /\ m \in Nat /\ m - 1 \in Nat
  BY <1>1, UpIs DEF Positive
<1> HIDE DEF q, p
<1>5. q > 0 /\ q - 1 \in Nat
  BY <1>1, <1>4 DEF Odd
<1>6. (q - 1) * p + p = m
  BY <1>2, <1>3, <1>4
<1>7. Up(m - 1, z) = q - 1
  <2> DEFINE r == q - 1
  <2>1. r \in Nat /\ r * p + p = m /\ r * p \in Nat
    BY <1>3, <1>5, <1>6
  <2> HIDE DEF r
  <2>2. r * p <= m - 1 /\ m - 1 < r * p + p
    BY <1>3, <1>4, <2>1
  <2>3. Up(m - 1, z) = r
    BY <1>1, <1>4, <2>1, <2>2, UpIsOnly DEF p
  <2> QED
    BY <2>3 DEF r
<1>8. ~Odd(q - 1)
  BY <1>1, <1>4 DEF Odd
<1>9. (q - 1 = 0) <=> (m = p)
  <2>1. CASE q = 1
    BY <1>2, <1>3, <2>1
  <2>2. CASE q # 1
    <3>1. q >= 2
      BY <1>5, <2>2, <1>4
    <3>2. p * q >= 2 * p
      BY <1>3, <1>4, <3>1
    <3> QED
      BY <1>2, <1>3, <3>2, <2>2, <1>4
  <2> QED
    BY <2>1, <2>2
<1> QED
  BY <1>1, <1>5, <1>6, <1>7, <1>8, <1>9 DEF Border, p, z

\* Whatever proof is given: when tlog.verify_consistency accepts it for the roots of
\* C and D, C is a prefix of D.
THEOREM ConsistencySound ==
  ASSUME NEW A, NEW C \in Seq(A), NEW D \in Seq(A), C # <<>>, D # <<>>, NEW B, NEW proof \in Seq(B),
         VerifyConsistency(Len(C), Len(D), proof, MTH(C), MTH(D))
  PROVE  Extends(C, D)
<1> DEFINE m == Len(C)
           n == Len(D)
<1>1. m \in Positive /\ n \in Positive
  BY DEF Positive
<1>2. CASE m = n
  <2>1. MTH(C) = MTH(D)
    BY <1>2 DEF VerifyConsistency
  <2>2. C = D
    BY <2>1, RootBinds
  <2> QED
    BY <2>2 DEF Extends
<1>3. CASE m # n
  <2> DEFINE z == TrailingZeros(m)
             path == IF m = Pow2[z] THEN <<MTH(C)>> \o proof ELSE proof
             w == Walk(m - 1, n - 1, z, path[1], Tail(path))
             N == Len(Tail(path))
             s == w[N]
  <2>1. m < n /\ proof # <<>> /\ s.ok /\ Up(n - 1, s.up) = 0 /\ s.fr = MTH(C) /\ s.sr = MTH(D)
    BY <1>3 DEF VerifyConsistency, Walked, AtTop
  <2>2. N \in Nat
    <3>1. <<MTH(C)>> \in Seq(B \cup {MTH(C)}) /\ proof \in Seq(B \cup {MTH(C)})
      OBVIOUS
    <3>2. path \in Seq(B \cup {MTH(C)}) /\ path # <<>>
      <4>1. CASE m = Pow2[z]
        <5>1. path = <<MTH(C)>> \o proof
          BY <4>1
        <5> HIDE DEF path
        <5> QED
          BY <3>1, <5>1
      <4>2. CASE m # Pow2[z]
        <5>1. path = proof
          BY <4>2
        <5> HIDE DEF path
        <5> QED
          BY <2>1, <3>1, <5>1
      <4> QED
        BY <4>1, <4>2
    <3> HIDE DEF path
    <3> QED
      BY <3>2
  <2>3. /\ z \in Nat /\ Up(m - 1, z) \in Nat /\ Border(m - 1, z) + Pow2[z] = m
    BY <1>1, LastSubtree
  <2>4. m - 1 \in Nat /\ n - 1 \in Nat /\ m - 1 <= n - 1
    BY <1>1, <2>1 DEF Positive
  <2> HIDE DEF w, N, path, z
  <2>5. w[0] = [up |-> z, ok |-> TRUE, fr |-> path[1], sr |-> path[1]] /\ s.up \in Nat
    <3>1. Turning(m - 1, n - 1, z, path[1], Tail(path), w)
      <4> HIDE DEF m, n
      <4> QED
        BY <2>3, <2>4, Turns DEF w
    <3> QED
      BY <2>1, <2>2, <3>1 DEF Turning
  <2>6. Up(m - 1, s.up) = 0
    <3> HIDE DEF s, m, n
    <3> QED
      BY <2>1, <2>4, <2>5, UpTop
  <2>7. NodeAt(D, s.up, 0) = MTH(D) /\ NodeAt(C, s.up, 0) = MTH(C)
    <3> HIDE DEF s
    <3> QED
      BY <1>1, <2>1, <2>5, <2>6, TopNode
  <2>8. Border(m - 1, s.up) = 0
    <3>1. Pow2[s.up] \in Nat
      BY <2>5, Powers
    <3> QED
      BY <2>6, <3>1 DEF Border
  <2>9. Matches(C, D, s)
    BY <2>1, <2>6, <2>7, <2>8 DEF Matches, Agree
  <2>10. Matches(C, D, w[0])
    <3>1. Len(C) <= Len(D) /\ s.ok /\ s = w[N]
      BY <1>1, <2>1 DEF Positive
    <3>2. w = Walk(Len(C) - 1, Len(D) - 1, z, path[1], Tail(path))
      BY DEF w
    <3> HIDE DEF s
    <3> QED
      BY <1>1, <2>2, <2>3, <2>9, <3>1, <3>2, WalkBack
  <2> DEFINE x == Up(m - 1, z)
             b == x * Pow2[z]
  <2>11. NodeAt(C, z, x) = NodeAt(D, z, x) /\ Agree(C, D, b)
    BY <2>5, <2>10 DEF Matches, Border
  <2>12. b \in Nat /\ Width(n, z, x) \in Positive /\ Width(m, z, x) = Pow2[z] /\ Pow2[z] \in Positive
    <3>1. Pow2[z] \in Nat /\ Pow2[z] > z
      BY <2>3, Powers
    <3>2. x \in 0 .. Up(n - 1, z)
      <4> HIDE DEF m, n
      <4> QED
        BY <2>3, <2>4, UpTop
    <3>3. b \in Nat /\ Width(n, z, x) \in Positive
      <4> HIDE DEF n, x
      <4> QED
        BY <1>1, <2>3, <3>2, WidthIs
    <3>4. m - b = Pow2[z]
      BY <2>3, <3>1, <3>3 DEF Border
    <3>5. Width(m, z, x) = IF m - b < Pow2[z] THEN m - b ELSE Pow2[z]
      BY DEF Width
    <3> HIDE DEF b, m, n, x
    <3>6. Pow2[z] > 0
      BY <2>3, <3>1
    <3> QED
      BY <2>3, <3>1, <3>3, <3>4, <3>5, <3>6 DEF Positive
  <2>13. Hash(C, b, Pow2[z]) = Hash(D, b, Width(n, z, x))
    BY <2>11, <2>12 DEF NodeAt
  <2>14. \A i \in b + 1 .. b + Pow2[z] : C[i] = D[i]
    BY <2>12, <2>13, HashBinds
  <2>15. b + Pow2[z] = m
    BY <2>3 DEF Border
  <2>16. \A i \in 1 .. m : C[i] = D[i]
    <3> HIDE DEF b, m
    <3> QED
      BY <2>11, <2>12, <2>14, <2>15 DEF Agree, Positive
  <2> HIDE DEF s
  <2>17. SubSeq(D, 1, m) = C
    BY <2>1, <2>16, <1>1
  <2> QED
    BY <2>1, <2>17 DEF Extends
<1> QED
  BY <1>2, <1>3

-----------------------------------------------------------------------------
(* What the provers make: going up level by level, a list of hashes that   *)
(* the loops take from the start to the roots.                             *)

LEMMA QuietIsLow ==
  ASSUME NEW first \in Nat, NEW last \in Nat, NEW a \in Nat, NEW b \in Nat, a <= b, Quiet(first, last, a, b)
  PROVE  /\ b - a \in Nat /\ a + (b - a) = b
         /\ LowZeros(Up(first, a), b - a)
         /\ Up(Up(first, a), b - a) = Up(first, b)
         /\ a < b => ~Odd(Up(first, a)) /\ Up(first, a) = Up(last, a)
<1>1. b - a \in Nat /\ a + (b - a) = b
  OBVIOUS
<1>2. ASSUME NEW t \in 0 .. (b - a) - 1 PROVE ~Odd(Up(Up(first, a), t))
  <2>1. t \in Nat /\ a + t \in a .. b - 1
    OBVIOUS
  <2>2. Up(Up(first, a), t) = Up(first, a + t)
    BY <2>1, UpUp
  <2>3. ~Odd(Up(first, a + t))
    BY <2>1 DEF Quiet
  <2> QED
    BY <2>2, <2>3
<1>3. Up(Up(first, a), b - a) = Up(first, b)
  BY <1>1, UpUp
<1>4. a < b => a \in a .. b - 1
  OBVIOUS
<1> QED
  BY <1>1, <1>2, <1>3, <1>4 DEF LowZeros, Quiet

\* The state of the loop when the hashes below level k are used up: what is
\* rebuilt is the node at level k above the last leaf of C, in C and in D.
Reached(C, D, k, s) ==
  /\ s.ok /\ s.up \in Nat /\ s.up <= k
  /\ Quiet(Len(C) - 1, Len(D) - 1, s.up, k)
  /\ s.fr = NodeAt(C, k, Up(Len(C) - 1, k)) /\ s.sr = NodeAt(D, k, Up(Len(C) - 1, k))

\* C is a first part of D.
Older(C, D) == Len(C) \in Positive /\ Len(D) \in Positive /\ Len(C) <= Len(D) /\ Agree(C, D, Len(C))

LEMMA OlderIs ==
  ASSUME NEW C, NEW D, Older(C, D), NEW k \in Nat
  PROVE  /\ Len(C) - 1 \in Nat /\ Len(D) - 1 \in Nat /\ Len(C) - 1 <= Len(D) - 1
         /\ Len(C) \in Positive /\ Len(D) \in Positive
         /\ Up(Len(C) - 1, k) \in Nat /\ Up(Len(D) - 1, k) \in Nat /\ Up(Len(C) - 1, k) <= Up(Len(D) - 1, k)
<1>1. Len(C) - 1 \in Nat /\ Len(D) - 1 \in Nat /\ Len(C) - 1 <= Len(D) - 1 /\ Len(C) \in Positive /\ Len(D) \in Positive
  BY DEF Older, Positive
<1>2. Up(Len(C) - 1, k) \in Nat /\ Up(Len(D) - 1, k) \in Nat
  BY <1>1, UpIs
<1> QED
  BY <1>1, <1>2, UpGrows

\* Left of the path the two trees are the same.
LEMMA SameNodes ==
  ASSUME NEW C, NEW D, Older(C, D), NEW k \in Nat, NEW y \in Nat, y < Up(Len(C) - 1, k)
  PROVE  NodeAt(C, k, y) = NodeAt(D, k, y)
<1> DEFINE p == Pow2[k]
           b == y * p
<1>1. y < Up(Len(D) - 1, k) /\ y \in 0 .. Up(Len(C) - 1, k) /\ y \in 0 .. Up(Len(D) - 1, k)
  <2>1. Up(Len(C) - 1, k) \in Nat /\ Up(Len(D) - 1, k) \in Nat /\ Up(Len(C) - 1, k) <= Up(Len(D) - 1, k)
    BY OlderIs
  <2> QED
    BY <2>1
<1>2. p \in Nat /\ p > 0
  <2>1. Pow2[k] \in Nat /\ Pow2[k] > k
    BY Powers
  <2> QED
    BY <2>1
<1>3. b \in Nat /\ Width(Len(C), k, y) = p /\ Width(Len(D), k, y) = p /\ b + p <= Len(C)
  <2>1. Len(C) \in Positive /\ Len(D) \in Positive
    BY DEF Older
  <2>2. b \in Nat /\ Width(Len(C), k, y) = p /\ b + Width(Len(C), k, y) <= Len(C)
    BY <1>1, <2>1, WidthIs
  <2>3. Width(Len(D), k, y) = p
    BY <1>1, <2>1, WidthIs
  <2> QED
    BY <2>2, <2>3
<1>4. \A j \in b + 1 .. b + p : C[j] = D[j]
  <2> HIDE DEF p, b
  <2> QED
    BY <1>2, <1>3 DEF Older, Agree, Positive
<1>5. Hash(C, b, p) = Hash(D, b, p)
  <2> HIDE DEF p, b
  <2> QED
    BY <1>2, <1>3, <1>4, HashDepends DEF Positive
<1> QED
  BY <1>3, <1>5 DEF NodeAt

\* The right edge of a tree.
LEMMA EdgeRises ==
  ASSUME NEW C, Len(C) \in Positive, NEW k \in Nat
  PROVE  LET x == Up(Len(C) - 1, k)
             above == NodeAt(C, k + 1, Up(Len(C) - 1, k + 1)) IN
         /\ Odd(x) => above = Node(NodeAt(C, k, x - 1), NodeAt(C, k, x))
         /\ ~Odd(x) => above = NodeAt(C, k, x)
<1> DEFINE first == Len(C) - 1
<1>1. first \in Nat /\ first = Len(C) - 1 /\ first <= Len(C) - 1
  BY DEF Positive
<1>2. Up(Len(C) - 1, k) = Up(first, k)
  OBVIOUS
<1>3. ASSUME Odd(Up(first, k))
      PROVE  NodeAt(C, k + 1, Up(first, k + 1)) = Node(NodeAt(C, k, Up(first, k) - 1), NodeAt(C, k, Up(first, k)))
  <2> HIDE DEF first
  <2> QED
    BY <1>1, <1>3, NodeRises
<1>4. ASSUME ~Odd(Up(first, k)) PROVE NodeAt(C, k + 1, Up(first, k + 1)) = NodeAt(C, k, Up(first, k))
  <2> DEFINE x == Up(first, k)
             e == x \div 2
  <2>1. x \in Nat /\ Up(first, k + 1) = e
    BY <1>1, UpIs
  <2> HIDE DEF x
  <2>2. e \in Nat /\ 2 * e = x
    BY <1>4, <2>1, Halves DEF x
  <2> HIDE DEF e
  <2>3. Up(Len(C) - 1, k) = x
    BY <1>2 DEF x
  <2>4. NodeAt(C, k + 1, e) = NodeAt(C, k, 2 * e)
    BY <2>1, <2>2, <2>3, LevelRises
  <2> QED
    BY <2>1, <2>2, <2>4 DEF x
<1> QED
  BY <1>3, <1>4

LEMMA ReachedStays ==
  ASSUME NEW C, NEW D, Older(C, D), NEW k \in Nat, NEW s, Reached(C, D, k, s),
         ~Odd(Up(Len(C) - 1, k)), Up(Len(C) - 1, k) = Up(Len(D) - 1, k)
  PROVE  Reached(C, D, k + 1, s)
<1> DEFINE first == Len(C) - 1
           last == Len(D) - 1
<1>1. first \in Nat /\ last \in Nat /\ first <= last /\ Len(C) \in Positive /\ Len(D) \in Positive
  BY OlderIs
<1>2. NodeAt(C, k + 1, Up(first, k + 1)) = NodeAt(C, k, Up(first, k))
  BY <1>1, EdgeRises
<1>3. NodeAt(D, k + 1, Up(first, k + 1)) = NodeAt(D, k, Up(first, k))
  BY <1>1, NodeRises
<1>4. s.up \in Nat /\ s.up <= k + 1
  BY DEF Reached
<1>5. ASSUME NEW t \in s.up .. (k + 1) - 1 PROVE ~Odd(Up(first, t)) /\ Up(first, t) = Up(last, t)
  <2>1. t \in s.up .. k - 1 \/ t = k
    BY <1>4
  <2> QED
    BY <2>1 DEF Reached, Quiet
<1>6. Quiet(first, last, s.up, k + 1)
  BY <1>5 DEF Quiet
<1> QED
  BY <1>2, <1>3, <1>4, <1>6 DEF Reached

LEMMA ReachedTurns ==
  ASSUME NEW C, NEW D, Older(C, D), NEW k \in Nat, NEW s, Reached(C, D, k, s),
         Odd(Up(Len(C) - 1, k)) \/ Up(Len(C) - 1, k) < Up(Len(D) - 1, k), NEW c,
         c = NodeAt(D, k, IF Odd(Up(Len(C) - 1, k)) THEN Up(Len(C) - 1, k) - 1 ELSE Up(Len(C) - 1, k) + 1)
  PROVE  Reached(C, D, k + 1, Step(Len(C) - 1, Len(D) - 1, s, c))
<1> DEFINE first == Len(C) - 1
           last == Len(D) - 1
           x == Up(first, k)
           z == Up(last, k)
           u == s.up
           fn == Up(first, u)
           sn == Up(last, u)
           t == Step(first, last, s, c)
<1>1. /\ first \in Nat /\ last \in Nat /\ first <= last /\ Len(C) \in Positive /\ Len(D) \in Positive
      /\ x \in Nat /\ z \in Nat /\ x <= z
  BY OlderIs
<1>2. s.ok /\ u \in Nat /\ u <= k /\ Quiet(first, last, u, k)
  BY DEF Reached
<1>3. /\ k - u \in Nat /\ u + (k - u) = k
      /\ LowZeros(fn, k - u) /\ Up(fn, k - u) = x
      /\ u < k => ~Odd(fn) /\ fn = sn
  <2> HIDE DEF u, first, last
  <2> QED
    BY <1>1, <1>2, QuietIsLow
<1>4. fn \in Nat /\ sn \in Nat /\ fn <= sn
  BY <1>1, <1>2, UpIs, UpGrows
<1>5. /\ t.up = u + Climb(fn, sn) /\ (t.ok <=> sn # 0)
      /\ t.fr = IF FromLeft(fn, sn) THEN Node(c, s.fr) ELSE s.fr
      /\ t.sr = IF FromLeft(fn, sn) THEN Node(c, s.sr) ELSE Node(s.sr, c)
  BY <1>2 DEF Step
<1>6. Quiet(first, last, k + 1, k + 1)
  BY DEF Quiet
<1>7. s.fr = NodeAt(C, k, x) /\ s.sr = NodeAt(D, k, x)
  BY DEF Reached
<1> HIDE DEF u
<1>8. CASE Odd(x)
  <2>1. FromLeft(fn, sn)
    <3>1. CASE u < k
      BY <1>3, <3>1 DEF FromLeft
    <3>2. CASE u = k
      BY <1>8, <3>2 DEF FromLeft
    <3> QED
      BY <1>2, <3>1, <3>2
  <2>2. x # 0
    BY <1>8 DEF Odd
  <2>3. fn # 0
    <3> HIDE DEF fn, x
    <3>1. Up(fn, k - u) <= fn
      BY <1>3, <1>4, UpIs
    <3> QED
      BY <1>1, <1>3, <1>4, <2>2, <3>1
  <2>4. sn # 0
    <3> HIDE DEF fn, sn
    <3> QED
      BY <1>4, <2>3
  <2>5. TrailingZeros(fn) = k - u
    <3> HIDE DEF fn, x
    <3> QED
      BY <1>3, <1>4, <1>8, TrailingZerosIsOnly
  <2>6. t.up = k + 1
    BY <1>3, <1>5, <2>1, <2>5, <1>2 DEF Climb
  <2>7. c = NodeAt(D, k, x - 1)
    BY <1>8
  <2>8. c = NodeAt(C, k, x - 1)
    <3>1. x - 1 \in Nat /\ x - 1 < x
      <4> HIDE DEF x
      <4> QED
        BY <1>1, <2>2
    <3>2. NodeAt(C, k, x - 1) = NodeAt(D, k, x - 1)
      BY <3>1, SameNodes
    <3> QED
      BY <2>7, <3>2
  <2>9. NodeAt(C, k + 1, Up(first, k + 1)) = Node(NodeAt(C, k, x - 1), NodeAt(C, k, x))
    BY <1>1, <1>8, EdgeRises
  <2>10. NodeAt(D, k + 1, Up(first, k + 1)) = Node(NodeAt(D, k, x - 1), NodeAt(D, k, x))
    BY <1>1, <1>8, NodeRises
  <2>11. t.fr = NodeAt(C, k + 1, Up(first, k + 1)) /\ t.sr = NodeAt(D, k + 1, Up(first, k + 1))
    BY <1>5, <1>7, <2>1, <2>7, <2>8, <2>9, <2>10
  <2>12. t.ok /\ t.up \in Nat /\ t.up <= k + 1 /\ Quiet(first, last, t.up, k + 1)
    BY <1>5, <1>6, <2>4, <2>6
  <2> HIDE DEF t
  <2> QED
    BY <2>11, <2>12 DEF Reached, t
<1>9. CASE ~Odd(x)
  <2>1. x < z
    BY <1>9
  <2>2. u = k
    <3> SUFFICES ASSUME u < k PROVE FALSE
      BY <1>2
    <3>1. fn = sn
      BY <1>3
    <3>2. Up(sn, k - u) = z
      BY <1>1, <1>2, <1>3, UpUp
    <3> QED
      BY <1>3, <2>1, <3>1, <3>2, <1>1
  <2>3. fn = x /\ sn = z
    BY <2>2
  <2>4. ~FromLeft(fn, sn)
    BY <1>9, <1>1, <2>1, <2>3 DEF FromLeft
  <2>5. t.up = k + 1
    BY <1>5, <2>2, <2>4 DEF Climb
  <2>6. sn # 0
    <3> HIDE DEF x, z
    <3> QED
      BY <1>1, <2>1, <2>3
  <2>7. c = NodeAt(D, k, x + 1)
    BY <1>9
  <2>8. NodeAt(C, k + 1, Up(first, k + 1)) = NodeAt(C, k, x)
    BY <1>1, <1>9, EdgeRises
  <2>9. NodeAt(D, k + 1, Up(first, k + 1)) = Node(NodeAt(D, k, x), NodeAt(D, k, x + 1))
    BY <1>1, <1>9, <2>1, NodeRises
  <2>10. t.fr = NodeAt(C, k + 1, Up(first, k + 1)) /\ t.sr = NodeAt(D, k + 1, Up(first, k + 1))
    BY <1>5, <1>7, <2>4, <2>7, <2>8, <2>9
  <2>11. t.ok /\ t.up \in Nat /\ t.up <= k + 1 /\ Quiet(first, last, t.up, k + 1)
    BY <1>5, <1>6, <2>5, <2>6
  <2> HIDE DEF t
  <2> QED
    BY <2>10, <2>11 DEF Reached, t
<1> QED
  BY <1>8, <1>9

LEMMA ReachedTop ==
  ASSUME NEW C, NEW D, Older(C, D), NEW k \in Nat, NEW s, Reached(C, D, k, s), Up(Len(D) - 1, k) = 0
  PROVE  AtTop(Len(D) - 1, s) /\ s.fr = MTH(C) /\ s.sr = MTH(D)
<1> DEFINE first == Len(C) - 1
           last == Len(D) - 1
           u == s.up
           fn == Up(first, u)
           sn == Up(last, u)
<1>1. first \in Nat /\ last \in Nat /\ first <= last /\ Len(C) \in Positive /\ Len(D) \in Positive
  BY OlderIs
<1>2. s.ok /\ u \in Nat /\ u <= k /\ Quiet(first, last, u, k)
  BY DEF Reached
<1> HIDE DEF u
<1>3. Up(first, k) = 0
  BY <1>1, UpTop
<1>4. sn = 0
  <2>1. CASE u = k
    BY <2>1
  <2>2. CASE u < k
    <3>1. k - u \in Nat /\ LowZeros(fn, k - u) /\ Up(fn, k - u) = 0 /\ fn = sn
      BY <1>1, <1>2, <1>3, <2>2, QuietIsLow
    <3>2. fn \in Nat
      BY <1>1, <1>2, UpIs
    <3> HIDE DEF fn, sn
    <3>3. Pow2[k - u] * Up(fn, k - u) = fn
      BY <3>1, <3>2, LowZerosIs
    <3>4. Pow2[k - u] \in Nat
      BY <3>1, Powers
    <3> QED
      BY <3>1, <3>3, <3>4
  <2> QED
    BY <1>2, <2>1, <2>2
<1>5. s.fr = NodeAt(C, k, 0) /\ s.sr = NodeAt(D, k, 0)
  BY <1>3 DEF Reached
<1>6. NodeAt(D, k, 0) = MTH(D)
  BY <1>1, TopNode
<1>7. NodeAt(C, k, 0) = MTH(C)
  BY <1>1, <1>3, TopNode
<1> QED
  BY <1>2, <1>4, <1>5, <1>6, <1>7 DEF AtTop, u

\* The lists the provers make for the nodes above one leaf.
ProofOf(m, D, k, x) == Proofs(m, D)[Width(Len(D), k, x)][x * Pow2[k]]
PathOf(m, D, k, x) == Paths(m, D)[Width(Len(D), k, x)][x * Pow2[k]]

LEMMA ProofStops ==
  ASSUME NEW m \in Nat, NEW D, NEW i \in Nat, NEW n \in Positive, m = i + n
  PROVE  Proofs(m, D)[n][i] = IF i = 0 THEN <<>> ELSE <<Hash(D, i, n)>>
<1> DEFINE f == Proofs(m, D)
<1>1. f = [j \in Positive |-> ProofRow(m, D, f, j)]
  BY ProofsDefined
<1> HIDE DEF f
<1>2. f[n] = ProofRow(m, D, f, n)
  BY <1>1
<1>3. f[n][i] = IF i = 0 THEN <<>> ELSE <<Subtree(D)[n][i]>>
  BY <1>2 DEF ProofRow
<1> QED
  BY <1>3 DEF f, Hash

\* The two ways to go on.
LEMMA ProofSplits ==
  ASSUME NEW m \in Nat, NEW D, NEW i \in Nat, NEW n \in Positive, n # 1, m # i + n, NEW k, k = PowerBelow(n)
  PROVE  /\ m <= i + k => Proofs(m, D)[n][i] = Append(Proofs(m, D)[k][i], Hash(D, i + k, n - k))
         /\ ~(m <= i + k) => Proofs(m, D)[n][i] = Append(Proofs(m, D)[n - k][i + k], Hash(D, i, k))
<1> DEFINE f == Proofs(m, D)
<1>1. f = [j \in Positive |-> ProofRow(m, D, f, j)]
  BY ProofsDefined
<1> HIDE DEF f
<1>2. f[n] = ProofRow(m, D, f, n)
  BY <1>1
<1>3. f[n][i] = IF m <= i + k THEN Append(f[k][i], Subtree(D)[n - k][i + k]) ELSE Append(f[n - k][i + k], Subtree(D)[k][i])
  BY <1>2 DEF ProofRow
<1> QED
  BY <1>3 DEF f, Hash

LEMMA PathIs ==
  ASSUME NEW m \in Nat, NEW D, NEW i \in Nat, NEW n \in Positive
  PROVE  /\ n = 1 => Paths(m, D)[n][i] = <<>>
         /\ n # 1 =>
              LET k == PowerBelow(n) IN
              Paths(m, D)[n][i] = IF m < i + k THEN Append(Paths(m, D)[k][i], Hash(D, i + k, n - k))
                                  ELSE Append(Paths(m, D)[n - k][i + k], Hash(D, i, k))
<1> DEFINE f == Paths(m, D)
<1>1. f = [j \in Positive |-> PathRow(m, D, f, j)]
  BY PathsDefined
<1> HIDE DEF f
<1>2. f[n] = PathRow(m, D, f, n)
  BY <1>1
<1> QED
  BY <1>2 DEF f, PathRow, Hash

\* The range of the node above leaf first (counted from 0) at level k + 1, and its place
\* against those of level k: it is split there, or the node is its level's last.
Place(n, k, first) ==
  LET x == Up(first, k)
      z == Up(n - 1, k)
      e == Up(first, k + 1)
      p == Pow2[k]
      i == e * Pow2[k + 1]
      w == Width(n, k + 1, e) IN
  /\ x \in Nat /\ z \in Nat /\ x <= z /\ e \in Nat /\ i \in Nat /\ p \in Positive /\ w \in Positive
  /\ w = IF n - i < 2 * p THEN n - i ELSE 2 * p
  /\ Odd(x) => /\ w # 1 /\ PowerBelow(w) = p /\ first >= i + p
               /\ x * p = i + p /\ Width(n, k, x) = w - p /\ (x - 1) * p = i /\ Width(n, k, x - 1) = p
  /\ ~Odd(x) /\ x < z => /\ w # 1 /\ PowerBelow(w) = p /\ first < i + p
                         /\ x * p = i /\ Width(n, k, x) = p /\ (x + 1) * p = i + p /\ Width(n, k, x + 1) = w - p
  /\ ~Odd(x) /\ x = z => x * p = i /\ Width(n, k, x) = w

LEMMA PlaceIs ==
  ASSUME NEW n \in Positive, NEW k \in Nat, NEW first \in 0 .. n - 1
  PROVE  Place(n, k, first)
<1> DEFINE x == Up(first, k)
           z == Up(n - 1, k)
           e == Up(first, k + 1)
           p == Pow2[k]
           i == e * Pow2[k + 1]
           w == Width(n, k + 1, e)
<1>1. first \in Nat /\ n - 1 \in Nat /\ first <= n - 1 /\ k + 1 \in Nat
  BY DEF Positive
<1>2. x \in Nat /\ z \in Nat /\ x <= z
  <2>1. x \in Nat /\ z \in Nat
    BY <1>1, UpIs
  <2>2. x <= z
    BY <1>1, UpGrows
  <2> QED
    BY <2>1, <2>2
<1>3. x * p <= first /\ first < x * p + p /\ e = x \div 2
  BY <1>1, UpIs
<1>4. e \in Nat /\ (Odd(x) => x = 2 * e + 1) /\ (~Odd(x) => x = 2 * e)
  <2> HIDE DEF x, e
  <2> QED
    BY <1>2, <1>3, Halves
<1>5. w \in Positive
  <2>1. e \in 0 .. Up(n - 1, k + 1)
    BY <1>1, UpTop
  <2> HIDE DEF e
  <2> QED
    BY <1>1, <1>4, <2>1, WidthIs
<1>6. /\ p \in Nat /\ p > 0 /\ i \in Nat /\ (2 * e) * p = i /\ (2 * e + 1) * p = i + p
      /\ w = IF n - i < 2 * p THEN n - i ELSE 2 * p
      /\ 2 * e < z => /\ w \in Nat /\ p < w /\ w <= 2 * p
                      /\ Width(n, k, 2 * e) = p /\ Width(n, k, 2 * e + 1) = w - p
      /\ ~(2 * e < z) => w = Width(n, k, 2 * e)
  <2>1. Splits(n, k, e)
    <3>1. 2 * e <= z
      <4> HIDE DEF x, z, e
      <4> QED
        BY <1>2, <1>4
    <3> HIDE DEF e
    <3> QED
      BY <1>4, <3>1, RangeSplits
  <2> QED
    BY <2>1 DEF Splits
<1>7. 2 * e < z => PowerBelow(w) = p /\ w # 1
  <2> SUFFICES ASSUME 2 * e < z PROVE PowerBelow(w) = p /\ w # 1
    OBVIOUS
  <2>1. w \in Nat /\ Pow2[k] < w /\ w <= 2 * Pow2[k]
    BY <1>6
  <2>2. p > 0 /\ p < w /\ p \in Nat
    BY <1>6
  <2> HIDE DEF w
  <2>3. PowerBelow(w) = Pow2[k]
    BY <2>1, PowerBelowIs
  <2> HIDE DEF p
  <2> QED
    BY <2>1, <2>2, <2>3 DEF p
<1> HIDE DEF x, z, e, p, i, w
<1>8. ASSUME Odd(x)
      PROVE  /\ w # 1 /\ PowerBelow(w) = p /\ first >= i + p
             /\ x * p = i + p /\ Width(n, k, x) = w - p /\ (x - 1) * p = i /\ Width(n, k, x - 1) = p
  <2>1. x = 2 * e + 1 /\ x - 1 = 2 * e /\ 2 * e < z
    BY <1>2, <1>4, <1>8
  <2>2. (2 * e + 1) * p <= first
    BY <1>3, <2>1
  <2> QED
    BY <1>1, <1>6, <1>7, <2>1, <2>2
<1>9. ASSUME ~Odd(x), x < z
      PROVE  /\ w # 1 /\ PowerBelow(w) = p /\ first < i + p
             /\ x * p = i /\ Width(n, k, x) = p /\ (x + 1) * p = i + p /\ Width(n, k, x + 1) = w - p
  <2>1. x = 2 * e /\ 2 * e < z
    BY <1>2, <1>4, <1>9
  <2>2. first < (2 * e) * p + p
    BY <1>3, <2>1
  <2> QED
    BY <1>1, <1>6, <1>7, <2>1, <2>2
<1>10. ASSUME ~Odd(x), x = z PROVE x * p = i /\ Width(n, k, x) = w
  <2>1. x = 2 * e /\ ~(2 * e < z)
    BY <1>2, <1>4, <1>10
  <2> QED
    BY <1>6, <2>1
<1>11. p \in Positive
  BY <1>6 DEF Positive
<1> QED
  BY <1>2, <1>4, <1>5, <1>6, <1>8, <1>9, <1>10, <1>11 DEF Place, x, z, e, p, i, w

LEMMA PathRises ==
  ASSUME NEW D, Len(D) \in Positive, NEW first \in 0 .. Len(D) - 1, NEW k \in Nat
  PROVE  LET x == Up(first, k)
             z == Up(Len(D) - 1, k)
             above == PathOf(first, D, k + 1, Up(first, k + 1)) IN
         /\ Odd(x) => above = Append(PathOf(first, D, k, x), NodeAt(D, k, x - 1))
         /\ ~Odd(x) /\ x < z => above = Append(PathOf(first, D, k, x), NodeAt(D, k, x + 1))
         /\ ~Odd(x) /\ x = z => above = PathOf(first, D, k, x)
<1> DEFINE n == Len(D)
           x == Up(first, k)
           z == Up(n - 1, k)
           e == Up(first, k + 1)
           p == Pow2[k]
           i == e * Pow2[k + 1]
           w == Width(n, k + 1, e)
           above == PathOf(first, D, k + 1, e)
           f == Paths(first, D)
<1>1. Place(n, k, first)
  BY PlaceIs
<1>2. /\ x \in Nat /\ z \in Nat /\ x <= z /\ e \in Nat /\ i \in Nat /\ p \in Positive /\ w \in Positive
      /\ Odd(x) => /\ w # 1 /\ PowerBelow(w) = p /\ first >= i + p
                   /\ x * p = i + p /\ Width(n, k, x) = w - p /\ (x - 1) * p = i /\ Width(n, k, x - 1) = p
      /\ ~Odd(x) /\ x < z => /\ w # 1 /\ PowerBelow(w) = p /\ first < i + p
                             /\ x * p = i /\ Width(n, k, x) = p /\ (x + 1) * p = i + p /\ Width(n, k, x + 1) = w - p
      /\ ~Odd(x) /\ x = z => x * p = i /\ Width(n, k, x) = w
  BY <1>1 DEF Place
<1>3. above = f[w][i] /\ PathOf(first, D, k, x) = f[Width(n, k, x)][x * p]
  BY DEF PathOf
<1>4. /\ NodeAt(D, k, x - 1) = Hash(D, (x - 1) * p, Width(n, k, x - 1))
      /\ NodeAt(D, k, x + 1) = Hash(D, (x + 1) * p, Width(n, k, x + 1))
  BY DEF NodeAt
<1> HIDE DEF x, z, e, p, i, w, above
<1>5. w # 1 => f[w][i] = IF first < i + PowerBelow(w) THEN Append(f[PowerBelow(w)][i], Hash(D, i + PowerBelow(w), w - PowerBelow(w)))
                         ELSE Append(f[w - PowerBelow(w)][i + PowerBelow(w)], Hash(D, i, PowerBelow(w)))
  <2>1. first \in Nat
    OBVIOUS
  <2> QED
    BY <1>2, <2>1, PathIs
<1> HIDE DEF f, n
<1>6. ASSUME Odd(x) PROVE above = Append(PathOf(first, D, k, x), NodeAt(D, k, x - 1))
  <2>1. f[w][i] = Append(f[w - p][i + p], Hash(D, i, p))
    <3>1. ~(first < i + p)
      BY <1>2, <1>6 DEF Positive
    <3> QED
      BY <1>2, <1>5, <1>6, <3>1
  <2> QED
    BY <1>2, <1>3, <1>4, <1>6, <2>1
<1>7. ASSUME ~Odd(x), x < z PROVE above = Append(PathOf(first, D, k, x), NodeAt(D, k, x + 1))
  <2>1. f[w][i] = Append(f[p][i], Hash(D, i + p, w - p))
    BY <1>2, <1>5, <1>7
  <2> QED
    BY <1>2, <1>3, <1>4, <1>7, <2>1
<1>8. ASSUME ~Odd(x), x = z PROVE above = PathOf(first, D, k, x)
  BY <1>2, <1>3, <1>8
<1> QED
  BY <1>6, <1>7, <1>8 DEF x, z, above, n, e

\* Above its start, no node ends with the last leaf of the older tree.
LEMMA NotTheEnd ==
  ASSUME NEW m \in Positive, NEW n \in Positive, m < n, NEW k \in Nat, k >= TrailingZeros(m)
  PROVE  LET e == Up(m - 1, k + 1) IN m # e * Pow2[k + 1] + Width(n, k + 1, e)
<1> DEFINE e == Up(m - 1, k + 1)
           q == Pow2[k + 1]
           i == e * q
           z == TrailingZeros(m)
<1>1. m \in Nat /\ n \in Nat /\ m - 1 \in Nat /\ k + 1 \in Nat /\ m > 0
  BY DEF Positive
<1>2. e \in Nat
  BY <1>1, UpIs
<1>3. q \in Nat
  BY <1>1, Powers
<1>4. z \in Nat /\ Odd(Up(m, z))
  BY <1>1, TrailingZerosIs
<1> SUFFICES ASSUME m = i + Width(n, k + 1, e) PROVE FALSE
  OBVIOUS
<1>5. Width(n, k + 1, e) = IF n - i < q THEN n - i ELSE q
  BY DEF Width
<1> HIDE DEF e, q, z
<1>6. i \in Nat /\ i + q = (e + 1) * q /\ e + 1 \in Nat
  BY <1>2, <1>3
<1>7. m = (e + 1) * q
  <2> HIDE DEF i
  <2> QED
    BY <1>1, <1>3, <1>5, <1>6
<1> HIDE DEF i
<1>8. Up(m, k + 1) = e + 1
  <2> DEFINE a == e + 1
  <2>1. a \in Nat /\ a * q = m /\ q > 0
    <3>1. Pow2[k + 1] > k + 1
      BY <1>1, Powers
    <3>2. q > 0
      <4> HIDE DEF a
      <4> QED
        BY <1>1, <1>3, <3>1 DEF q
    <3> QED
      BY <1>6, <1>7, <3>2
  <2> HIDE DEF a
  <2>2. a * Pow2[k + 1] <= m /\ m < a * Pow2[k + 1] + Pow2[k + 1]
    BY <1>1, <1>3, <2>1 DEF q
  <2>3. Up(m, k + 1) = a
    BY <1>1, <2>1, <2>2, UpIsOnly
  <2> QED
    BY <2>3 DEF a
<1>9. Pow2[k + 1] * Up(m, k + 1) = m
  BY <1>3, <1>6, <1>7, <1>8 DEF q
<1>10. LowZeros(m, k + 1)
  BY <1>1, <1>9, LowZerosIs
<1>11. z \in 0 .. (k + 1) - 1
  BY <1>4 DEF z
<1> QED
  BY <1>4, <1>10, <1>11 DEF LowZeros

LEMMA ProofRises ==
  ASSUME NEW D, Len(D) \in Positive, NEW m \in Positive, m < Len(D), NEW k \in Nat, k >= TrailingZeros(m)
  PROVE  LET x == Up(m - 1, k)
             z == Up(Len(D) - 1, k)
             above == ProofOf(m, D, k + 1, Up(m - 1, k + 1)) IN
         /\ Odd(x) => above = Append(ProofOf(m, D, k, x), NodeAt(D, k, x - 1))
         /\ ~Odd(x) /\ x < z => above = Append(ProofOf(m, D, k, x), NodeAt(D, k, x + 1))
         /\ ~Odd(x) /\ x = z => above = ProofOf(m, D, k, x)
<1> DEFINE n == Len(D)
           first == m - 1
           x == Up(first, k)
           z == Up(n - 1, k)
           e == Up(first, k + 1)
           p == Pow2[k]
           i == e * Pow2[k + 1]
           w == Width(n, k + 1, e)
           above == ProofOf(m, D, k + 1, e)
           f == Proofs(m, D)
<1>0. m \in Nat /\ first \in 0 .. n - 1
  BY DEF Positive
<1>1. Place(n, k, first)
  BY <1>0, PlaceIs
<1>2. /\ x \in Nat /\ z \in Nat /\ x <= z /\ e \in Nat /\ i \in Nat /\ p \in Positive /\ w \in Positive
      /\ Odd(x) => /\ w # 1 /\ PowerBelow(w) = p /\ first >= i + p
                   /\ x * p = i + p /\ Width(n, k, x) = w - p /\ (x - 1) * p = i /\ Width(n, k, x - 1) = p
      /\ ~Odd(x) /\ x < z => /\ w # 1 /\ PowerBelow(w) = p /\ first < i + p
                             /\ x * p = i /\ Width(n, k, x) = p /\ (x + 1) * p = i + p /\ Width(n, k, x + 1) = w - p
      /\ ~Odd(x) /\ x = z => x * p = i /\ Width(n, k, x) = w
  BY <1>1 DEF Place
<1>3. above = f[w][i] /\ ProofOf(m, D, k, x) = f[Width(n, k, x)][x * p]
  BY DEF ProofOf
<1>4. /\ NodeAt(D, k, x - 1) = Hash(D, (x - 1) * p, Width(n, k, x - 1))
      /\ NodeAt(D, k, x + 1) = Hash(D, (x + 1) * p, Width(n, k, x + 1))
  BY DEF NodeAt
<1>10. m # i + w
  BY NotTheEnd
<1> HIDE DEF x, z, e, p, i, w, above
<1>5. w # 1 => /\ m <= i + PowerBelow(w) => f[w][i] = Append(f[PowerBelow(w)][i], Hash(D, i + PowerBelow(w), w - PowerBelow(w)))
               /\ ~(m <= i + PowerBelow(w)) => f[w][i] = Append(f[w - PowerBelow(w)][i + PowerBelow(w)], Hash(D, i, PowerBelow(w)))
  BY <1>0, <1>2, <1>10, ProofSplits
<1> HIDE DEF f, n
<1>6. ASSUME Odd(x) PROVE above = Append(ProofOf(m, D, k, x), NodeAt(D, k, x - 1))
  <2>1. f[w][i] = Append(f[w - p][i + p], Hash(D, i, p))
    <3>1. ~(m <= i + p)
      BY <1>0, <1>2, <1>6 DEF Positive
    <3> QED
      BY <1>2, <1>5, <1>6, <3>1
  <2> QED
    BY <1>2, <1>3, <1>4, <1>6, <2>1
<1>7. ASSUME ~Odd(x), x < z PROVE above = Append(ProofOf(m, D, k, x), NodeAt(D, k, x + 1))
  <2>1. f[w][i] = Append(f[p][i], Hash(D, i + p, w - p))
    <3>1. m <= i + p
      BY <1>0, <1>2, <1>7 DEF Positive
    <3> QED
      BY <1>2, <1>5, <1>7, <3>1
  <2> QED
    BY <1>2, <1>3, <1>4, <1>7, <2>1
<1>8. ASSUME ~Odd(x), x = z PROVE above = ProofOf(m, D, k, x)
  BY <1>2, <1>3, <1>8
<1> QED
  BY <1>6, <1>7, <1>8 DEF x, z, above, n, e

LEMMA WalkEmpty ==
  ASSUME NEW first \in Nat, NEW last \in Nat, first <= last, NEW up \in Nat, NEW seed
  PROVE  LET s == Walked(first, last, up, seed, <<>>) IN s.up = up /\ s.ok /\ s.fr = seed /\ s.sr = seed
<1>1. Turning(first, last, up, seed, <<>>, Walk(first, last, up, seed, <<>>))
  BY Turns
<1>2. Len(<<>>) = 0
  OBVIOUS
<1>3. Walked(first, last, up, seed, <<>>) = [up |-> up, ok |-> TRUE, fr |-> seed, sr |-> seed]
  BY <1>1, <1>2 DEF Turning, Walked
<1> QED
  BY <1>3

LEMMA WalkAppend ==
  ASSUME NEW first \in Nat, NEW last \in Nat, first <= last, NEW up \in Nat, NEW seed, NEW B, NEW q \in Seq(B), NEW c \in B
  PROVE  Walked(first, last, up, seed, Append(q, c)) = Step(first, last, Walked(first, last, up, seed, q), c)
<1> DEFINE r == Append(q, c)
           v == Walk(first, last, up, seed, q)
           w == Walk(first, last, up, seed, r)
           N == Len(q)
           S == {j \in Nat : j <= N => w[j] = v[j]}
<1>1. Turning(first, last, up, seed, q, v)
  BY Turns
<1>2. Turning(first, last, up, seed, r, w)
  <2> HIDE DEF r
  <2> QED
    BY Turns
<1>3. N \in Nat /\ Len(r) = N + 1 /\ r[N + 1] = c /\ \A j \in 1 .. N : r[j] = q[j]
  OBVIOUS
<1> HIDE DEF r, v, w, N
<1>4. 0 \in S
  BY <1>1, <1>2 DEF Turning
<1>5. ASSUME NEW j \in S PROVE j + 1 \in S
  <2> SUFFICES ASSUME j + 1 <= N PROVE w[j + 1] = v[j + 1]
    OBVIOUS
  <2>1. w[j] = v[j] /\ r[j + 1] = q[j + 1] /\ j \in Nat
    BY <1>3
  <2>2. v[j + 1] = Step(first, last, v[j], q[j + 1])
    BY <1>1, <2>1 DEF Turning
  <2>3. w[j + 1] = Step(first, last, w[j], r[j + 1])
    BY <1>2, <2>1 DEF Turning
  <2> QED
    BY <2>1, <2>2, <2>3
<1>6. S = Nat
  <2> HIDE DEF S
  <2> QED
    BY <1>4, <1>5, Induction DEF S
<1>7. w[N] = v[N]
  BY <1>3, <1>6
<1>8. w[N + 1] = Step(first, last, w[N], c)
  <2>1. w[N + 1] = Step(first, last, w[N], r[N + 1])
    BY <1>2, <1>3 DEF Turning
  <2> QED
    BY <1>3, <2>1
<1> QED
  BY <1>3, <1>7, <1>8 DEF Walked, r, v, w, N

\* Everything a prover may put on a list.
Nodes(D) == {Hash(D, i, n) : i \in Nat, n \in Positive}

LEMMA NodeIsOne ==
  ASSUME NEW D, Len(D) \in Positive, NEW k \in Nat, NEW x \in 0 .. Up(Len(D) - 1, k)
  PROVE  NodeAt(D, k, x) \in Nodes(D)
<1>1. x * Pow2[k] \in Nat /\ Width(Len(D), k, x) \in Positive
  BY WidthIs
<1> QED
  BY <1>1 DEF NodeAt, Nodes

\* The hash that comes next on a list is a node of the newer tree.
LEMMA NextIsNode ==
  ASSUME NEW C, NEW D, Older(C, D), NEW k \in Nat
  PROVE  LET x == Up(Len(C) - 1, k)
             z == Up(Len(D) - 1, k) IN
         /\ x \in Nat /\ z \in Nat /\ x <= z
         /\ Odd(x) => NodeAt(D, k, x - 1) \in Nodes(D)
         /\ x < z => NodeAt(D, k, x + 1) \in Nodes(D)
<1> DEFINE x == Up(Len(C) - 1, k)
           z == Up(Len(D) - 1, k)
<1>1. Len(D) \in Positive /\ x \in Nat /\ z \in Nat /\ x <= z
  BY OlderIs
<1>2. ASSUME Odd(x) PROVE NodeAt(D, k, x - 1) \in Nodes(D)
  <2>1. x # 0
    BY <1>2 DEF Odd
  <2>2. x - 1 \in 0 .. z
    <3> HIDE DEF x, z
    <3> QED
      BY <1>1, <2>1
  <2> QED
    BY <1>1, <2>2, NodeIsOne
<1>3. ASSUME x < z PROVE NodeAt(D, k, x + 1) \in Nodes(D)
  <2>1. x + 1 \in 0 .. z
    <3> HIDE DEF x, z
    <3> QED
      BY <1>1, <1>3
  <2> QED
    BY <1>1, <2>1, NodeIsOne
<1> QED
  BY <1>1, <1>2, <1>3

LEMMA PathReaches ==
  ASSUME NEW C, NEW D, Older(C, D), NEW seed, seed = NodeAt(D, 0, Len(C) - 1), NEW k \in Nat
  PROVE  LET q == PathOf(Len(C) - 1, D, k, Up(Len(C) - 1, k)) IN
         q \in Seq(Nodes(D)) /\ Reached(C, D, k, Walked(Len(C) - 1, Len(D) - 1, 0, seed, q))
<1> DEFINE first == Len(C) - 1
           last == Len(D) - 1
           q(j) == PathOf(first, D, j, Up(first, j))
           s(j) == Walked(first, last, 0, seed, q(j))
           S == {j \in Nat : q(j) \in Seq(Nodes(D)) /\ Reached(C, D, j, s(j))}
<1>1. /\ first \in Nat /\ last \in Nat /\ first <= last /\ Len(C) \in Positive /\ Len(D) \in Positive
      /\ first \in 0 .. Len(D) - 1 /\ first \in 0 .. Len(C) - 1
  <2>1. first \in Nat /\ last \in Nat /\ first <= last /\ Len(C) \in Positive /\ Len(D) \in Positive
    BY OlderIs
  <2> QED
    BY <2>1
<1>2. 0 \in S
  <2>1. Up(first, 0) = first
    BY <1>1, UpIs
  <2>2. NodeAt(C, 0, first) = Leaf(C[first + 1]) /\ NodeAt(D, 0, first) = Leaf(D[first + 1])
    BY <1>1, BottomNode
  <2>3. C[first + 1] = D[first + 1]
    <3>1. first + 1 \in 1 .. Len(C)
      BY <1>1
    <3> QED
      BY <3>1 DEF Older, Agree
  <2>4. q(0) = <<>>
    <3>1. Pow2[0] = 1
      BY Powers
    <3>2. Width(Len(D), 0, first) = 1 /\ first * Pow2[0] \in Nat
      <4> HIDE DEF first
      <4> QED
        BY <1>1, <3>1 DEF Width, Positive
    <3> QED
      <4> HIDE DEF first
      <4>1. 1 \in Positive
        BY DEF Positive
      <4> QED
        BY <1>1, <2>1, <3>2, <4>1, PathIs DEF PathOf
  <2>5. s(0).up = 0 /\ s(0).ok /\ s(0).fr = seed /\ s(0).sr = seed
    <3>1. first \in Nat /\ last \in Nat /\ first <= last
      BY <1>1
    <3> HIDE DEF first, last
    <3> QED
      BY <2>4, <3>1, WalkEmpty
  <2>6. Reached(C, D, 0, s(0))
    BY <2>1, <2>2, <2>3, <2>5 DEF Reached, Quiet
  <2>7. q(0) \in Seq(Nodes(D))
    <3> HIDE DEF S, s
    <3>1. <<>> \in Seq(Nodes(D))
      OBVIOUS
    <3> QED
      BY <2>4, <3>1
  <2> HIDE DEF s, q
  <2> QED
    BY <2>6, <2>7
<1>3. ASSUME NEW j \in S PROVE j + 1 \in S
  <2> DEFINE x == Up(first, j)
             z == Up(last, j)
  <2>1. q(j) \in Seq(Nodes(D)) /\ Reached(C, D, j, s(j)) /\ j \in Nat
    OBVIOUS
  <2>2. /\ x \in Nat /\ z \in Nat /\ x <= z
        /\ Odd(x) => NodeAt(D, j, x - 1) \in Nodes(D)
        /\ x < z => NodeAt(D, j, x + 1) \in Nodes(D)
    BY <2>1, NextIsNode
  <2>3. /\ Odd(x) => q(j + 1) = Append(q(j), NodeAt(D, j, x - 1))
        /\ ~Odd(x) /\ x < z => q(j + 1) = Append(q(j), NodeAt(D, j, x + 1))
        /\ ~Odd(x) /\ x = z => q(j + 1) = q(j)
    BY <1>1, <2>1, PathRises
  <2> HIDE DEF q, S
  <2>4. CASE Odd(x) \/ x < z
    <3> DEFINE c == NodeAt(D, j, IF Odd(x) THEN x - 1 ELSE x + 1)
    <3>1. c \in Nodes(D) /\ q(j + 1) = Append(q(j), c)
      BY <2>2, <2>3, <2>4
    <3>2. Reached(C, D, j + 1, Step(first, last, s(j), c))
      BY <2>1, <2>4, ReachedTurns
    <3> HIDE DEF c
    <3>3. s(j + 1) = Step(first, last, s(j), c)
      <4>1. Walked(first, last, 0, seed, Append(q(j), c)) = Step(first, last, Walked(first, last, 0, seed, q(j)), c)
        <5> HIDE DEF first, last, s
        <5> QED
          BY <1>1, <2>1, <3>1, WalkAppend
      <4> QED
        BY <3>1, <4>1
    <3>4. q(j + 1) \in Seq(Nodes(D))
      BY <2>1, <3>1
    <3> QED
      BY <2>1, <3>2, <3>3, <3>4 DEF S
  <2>5. CASE ~Odd(x) /\ x = z
    <3>1. q(j + 1) = q(j)
      BY <2>3, <2>5
    <3>2. Reached(C, D, j + 1, s(j))
      BY <2>1, <2>5, ReachedStays
    <3> QED
      BY <2>1, <3>1, <3>2 DEF S
  <2> QED
    BY <2>2, <2>4, <2>5
<1>4. S = Nat
  <2> HIDE DEF S
  <2> QED
    BY <1>2, <1>3, Induction DEF S
<1> QED
  BY <1>4

LEMMA AppendConcat ==
  ASSUME NEW B, NEW h \in Seq(B), NEW q \in Seq(B), NEW c \in B
  PROVE  Append(h \o q, c) = h \o Append(q, c) /\ Append(q, c) \in Seq(B)
OBVIOUS

\* The hash a consistency proof starts with, unless it is the old root itself.
SeedNode(m, D) ==
  LET z == TrailingZeros(m) IN IF Up(m - 1, z) = 0 THEN <<>> ELSE <<NodeAt(D, z, Up(m - 1, z))>>

LEMMA ProofReaches ==
  ASSUME NEW C, NEW D, Older(C, D), Len(C) < Len(D), NEW seed, NEW t,
         t = TrailingZeros(Len(C)), seed = NodeAt(D, t, Up(Len(C) - 1, t)), NEW k \in Nat
  PROVE  /\ NodeAt(C, t, Up(Len(C) - 1, t)) = seed /\ seed \in Nodes(D) /\ t \in Nat /\ Up(Len(D) - 1, t) # 0
         /\ \E q \in Seq(Nodes(D)) :
              /\ ProofOf(Len(C), D, t + k, Up(Len(C) - 1, t + k)) = SeedNode(Len(C), D) \o q
              /\ Reached(C, D, t + k, Walked(Len(C) - 1, Len(D) - 1, t, seed, q))
<1> DEFINE m == Len(C)
           n == Len(D)
           first == m - 1
           last == n - 1
           head == SeedNode(m, D)
           P(j) == ProofOf(m, D, t + j, Up(first, t + j))
           s(q) == Walked(first, last, t, seed, q)
           Made(j, q) == P(j) = head \o q /\ Reached(C, D, t + j, s(q))
           S == {j \in Nat : \E q \in Seq(Nodes(D)) : Made(j, q)}
<1>1. first \in Nat /\ last \in Nat /\ first <= last /\ m \in Positive /\ n \in Positive
  BY OlderIs
<1>2. t \in Nat /\ Up(first, t) \in Nat /\ Border(first, t) + Pow2[t] = m
  BY <1>1, LastSubtree
<1> DEFINE p == Pow2[t]
           x0 == Up(first, t)
           z0 == Up(last, t)
           b == x0 * p
<1>3. p \in Nat /\ p > 0
  <2>1. Pow2[t] \in Nat /\ Pow2[t] > t
    BY <1>2, Powers
  <2> QED
    BY <1>2, <2>1
<1>4. b \in Nat /\ b + p = m /\ (x0 + 1) * p = m /\ x0 + 1 \in Nat
  <2>1. b + p = m
    BY <1>2 DEF Border
  <2> HIDE DEF p, x0
  <2> QED
    BY <1>2, <1>3, <2>1 DEF x0
<1>5. x0 < z0 /\ z0 \in Nat
  <2>1. m \in Nat /\ m <= last
    BY <1>1 DEF Positive
  <2>2. Up(m, t) = x0 + 1
    <3> DEFINE y == x0 + 1
    <3>1. y \in Nat /\ y * p = m
      BY <1>4
    <3> HIDE DEF y, m
    <3>2. y * Pow2[t] <= m /\ m < y * Pow2[t] + Pow2[t]
      BY <1>3, <2>1, <3>1
    <3> QED
      BY <1>2, <2>1, <3>1, <3>2, UpIsOnly DEF y
  <2>3. Up(m, t) <= z0 /\ z0 \in Nat
    <3> HIDE DEF m, last
    <3> QED
      BY <1>1, <1>2, <2>1, UpIs, UpGrows
  <2> HIDE DEF x0, z0, m
  <2> QED
    BY <1>2, <2>2, <2>3 DEF x0
<1>6. Width(n, t, x0) = p /\ Width(m, t, x0) = p /\ x0 \in 0 .. z0
  <2>1. x0 \in 0 .. z0
    <3> HIDE DEF x0, z0
    <3> QED
      BY <1>2, <1>5 DEF x0
  <2>2. Width(n, t, x0) = p
    <3> HIDE DEF n, x0, p
    <3> QED
      BY <1>1, <1>2, <1>5, <2>1, WidthIs DEF p
  <2>3. Width(m, t, x0) = IF m - b < p THEN m - b ELSE p
    BY DEF Width
  <2> HIDE DEF m, b, p
  <2>4. m - b = p
    BY <1>3, <1>4
  <2> QED
    BY <1>3, <2>1, <2>2, <2>3, <2>4
<1>7. NodeAt(C, t, x0) = seed /\ seed = Hash(D, b, p)
  <2>1. NodeAt(C, t, x0) = Hash(C, b, p) /\ NodeAt(D, t, x0) = Hash(D, b, p)
    BY <1>6 DEF NodeAt
  <2>2. \A j \in b + 1 .. b + p : C[j] = D[j]
    <3> HIDE DEF b, p
    <3>1. \A j \in b + 1 .. b + p : j \in 1 .. m
      BY <1>3, <1>4
    <3> QED
      BY <3>1 DEF Older, Agree
  <2>3. Hash(C, b, p) = Hash(D, b, p)
    <3> HIDE DEF b, p
    <3> QED
      BY <1>3, <1>4, <2>2, HashDepends DEF Positive
  <2> QED
    BY <2>1, <2>3
<1>8. seed \in Nodes(D)
  <2> HIDE DEF x0, b, p, z0
  <2> QED
    BY <1>1, <1>2, <1>6, NodeIsOne DEF z0, x0
<1>9. 0 \in S
  <2>1. P(0) = head
    <3>1. t + 0 = t
      BY <1>2
    <3>2. P(0) = Proofs(m, D)[p][b]
      BY <1>6, <3>1 DEF ProofOf
    <3>3. Proofs(m, D)[p][b] = IF b = 0 THEN <<>> ELSE <<Hash(D, b, p)>>
      <4>1. m \in Nat /\ p \in Positive
        BY <1>1, <1>3 DEF Positive
      <4> HIDE DEF b, p, m
      <4> QED
        BY <1>4, <4>1, ProofStops
    <3>4. (b = 0) <=> (x0 = 0)
      <4> HIDE DEF x0, p
      <4>1. x0 \in Nat
        BY <1>2 DEF x0
      <4> QED
        BY <1>3, <4>1
    <3> QED
      BY <1>7, <3>2, <3>3, <3>4 DEF SeedNode
  <2>2. s(<<>>).up = t /\ s(<<>>).ok /\ s(<<>>).fr = seed /\ s(<<>>).sr = seed
    <3>1. first \in Nat /\ last \in Nat /\ first <= last
      BY <1>1
    <3> HIDE DEF first, last
    <3> QED
      BY <1>2, <3>1, WalkEmpty
  <2>3. Reached(C, D, t + 0, s(<<>>))
    <3>1. t + 0 = t
      BY <1>2
    <3> QED
      BY <1>2, <1>7, <2>2, <3>1 DEF Reached, Quiet
  <2>4. head \o <<>> = head
    <3>1. head \in Seq(Nodes(D))
      BY <1>8 DEF SeedNode
    <3> QED
      BY <3>1
  <2> HIDE DEF P, s, head
  <2>5. Made(0, <<>>) /\ <<>> \in Seq(Nodes(D))
    BY <2>1, <2>3, <2>4
  <2> HIDE DEF Made
  <2> QED
    BY <2>5
<1>10. ASSUME NEW i \in S PROVE i + 1 \in S
  <2> DEFINE j == t + i
             x == Up(first, j)
             z == Up(last, j)
  <2>1. j \in Nat /\ j + 1 = t + (i + 1) /\ j >= t /\ i + 1 \in Nat
    BY <1>2
  <2> HIDE DEF j
  <2>2. PICK q \in Seq(Nodes(D)) : P(i) = head \o q /\ Reached(C, D, j, s(q))
    BY DEF j
  <2>3. /\ x \in Nat /\ z \in Nat /\ x <= z
        /\ Odd(x) => NodeAt(D, j, x - 1) \in Nodes(D)
        /\ x < z => NodeAt(D, j, x + 1) \in Nodes(D)
    BY <2>1, NextIsNode
  <2>4. /\ Odd(x) => P(i + 1) = Append(P(i), NodeAt(D, j, x - 1))
        /\ ~Odd(x) /\ x < z => P(i + 1) = Append(P(i), NodeAt(D, j, x + 1))
        /\ ~Odd(x) /\ x = z => P(i + 1) = P(i)
    <3>1. P(i) = ProofOf(m, D, j, Up(first, j)) /\ P(i + 1) = ProofOf(m, D, j + 1, Up(first, j + 1))
      BY <2>1 DEF j
    <3> HIDE DEF P, S, Made, head
    <3>2. /\ Odd(x) => ProofOf(m, D, j + 1, Up(first, j + 1)) = Append(ProofOf(m, D, j, x), NodeAt(D, j, x - 1))
          /\ ~Odd(x) /\ x < z => ProofOf(m, D, j + 1, Up(first, j + 1)) = Append(ProofOf(m, D, j, x), NodeAt(D, j, x + 1))
          /\ ~Odd(x) /\ x = z => ProofOf(m, D, j + 1, Up(first, j + 1)) = ProofOf(m, D, j, x)
      <4>1. m < n /\ j >= TrailingZeros(m)
        BY <2>1
      <4> QED
        BY <1>1, <2>1, <4>1, ProofRises
    <3> QED
      BY <3>1, <3>2
  <2>5. head \in Seq(Nodes(D))
    BY <1>8 DEF SeedNode
  <2> HIDE DEF P, head, S, Made
  <2>6. CASE Odd(x) \/ x < z
    <3> DEFINE c == NodeAt(D, j, IF Odd(x) THEN x - 1 ELSE x + 1)
    <3>1. c \in Nodes(D) /\ P(i + 1) = Append(P(i), c)
      BY <2>3, <2>4, <2>6
    <3>2. Reached(C, D, j + 1, Step(first, last, s(q), c))
      BY <2>1, <2>2, <2>6, ReachedTurns
    <3> HIDE DEF c
    <3>3. s(Append(q, c)) = Step(first, last, s(q), c)
      BY <1>1, <1>2, <2>2, <3>1, WalkAppend
    <3>4. P(i + 1) = head \o Append(q, c) /\ Append(q, c) \in Seq(Nodes(D))
      <4>1. Append(head \o q, c) = head \o Append(q, c) /\ Append(q, c) \in Seq(Nodes(D))
        BY <2>2, <2>5, <3>1, AppendConcat
      <4>2. P(i + 1) = Append(head \o q, c)
        BY <2>2, <3>1
      <4> QED
        BY <4>1, <4>2
    <3> QED
      BY <2>1, <3>2, <3>3, <3>4 DEF S, Made
  <2>7. CASE ~Odd(x) /\ x = z
    <3>1. P(i + 1) = P(i)
      BY <2>4, <2>7
    <3>2. Reached(C, D, j + 1, s(q))
      BY <2>1, <2>2, <2>7, ReachedStays
    <3> QED
      BY <2>1, <2>2, <3>1, <3>2 DEF S, Made
  <2> QED
    BY <2>3, <2>6, <2>7
<1>11. S = Nat
  <2> HIDE DEF S
  <2> QED
    BY <1>9, <1>10, Induction DEF S
<1>12. Up(last, t) # 0
  <2> HIDE DEF x0, z0
  <2> QED
    BY <1>2, <1>5 DEF x0, z0
<1>13. \E q \in Seq(Nodes(D)) : Made(k, q)
  <2> HIDE DEF Made
  <2> QED
    BY <1>11
<1> HIDE DEF S
<1> QED
  BY <1>2, <1>7, <1>8, <1>12, <1>13

\* The last step of a list, for both provers.
LEMMA PathSplits ==
  ASSUME NEW m \in Nat, NEW D, NEW i \in Nat, NEW n \in Positive, n # 1, NEW k, k = PowerBelow(n)
  PROVE  \/ Paths(m, D)[n][i] = Append(Paths(m, D)[k][i], Hash(D, i + k, n - k))
         \/ Paths(m, D)[n][i] = Append(Paths(m, D)[n - k][i + k], Hash(D, i, k))
<1> DEFINE f == Paths(m, D)
<1>1. f = [j \in Positive |-> PathRow(m, D, f, j)]
  BY PathsDefined
<1> HIDE DEF f
<1>2. f[n] = PathRow(m, D, f, n)
  BY <1>1
<1>3. f[n][i] = IF m < i + k THEN Append(f[k][i], Subtree(D)[n - k][i + k]) ELSE Append(f[n - k][i + k], Subtree(D)[k][i])
  BY <1>2 DEF PathRow
<1> QED
  BY <1>3 DEF f, Hash

Continues(m, D, i, n) ==
  LET k == PowerBelow(n) IN
  \/ m = i + n
  \/ Proofs(m, D)[n][i] = Append(Proofs(m, D)[k][i], Hash(D, i + k, n - k))
  \/ Proofs(m, D)[n][i] = Append(Proofs(m, D)[n - k][i + k], Hash(D, i, k))
LEMMA ProofContinues ==
  ASSUME NEW m \in Nat, NEW D, NEW i \in Nat, NEW n \in Positive, n # 1
  PROVE  Continues(m, D, i, n)
<1> SUFFICES ASSUME m # i + n PROVE Continues(m, D, i, n)
  BY DEF Continues
<1> DEFINE f == Proofs(m, D)
           k == PowerBelow(n)
<1>1. f = [j \in Positive |-> ProofRow(m, D, f, j)]
  BY ProofsDefined
<1> HIDE DEF f
<1>2. f[n] = ProofRow(m, D, f, n)
  BY <1>1
<1>3. f[n][i] = IF m <= i + k THEN Append(f[k][i], Subtree(D)[n - k][i + k]) ELSE Append(f[n - k][i + k], Subtree(D)[k][i])
  BY <1>2 DEF ProofRow
<1> QED
  BY <1>3 DEF f, Hash, Continues

LEMMA ListsOfNodes ==
  ASSUME NEW m \in Nat, NEW D, NEW n \in Positive, NEW i \in Nat
  PROVE  Proofs(m, D)[n][i] \in Seq(Nodes(D)) /\ Paths(m, D)[n][i] \in Seq(Nodes(D))
<1> DEFINE f == Proofs(m, D)
           g == Paths(m, D)
           Lists(x) == \A o \in Nat : f[x][o] \in Seq(Nodes(D)) /\ g[x][o] \in Seq(Nodes(D))
           S == {x \in Nat : x \in Positive => Lists(x)}
<1>1. ASSUME NEW x \in Nat, \A y \in 0 .. x - 1 : y \in S
      PROVE  x \in S
  <2> SUFFICES ASSUME x \in Positive, NEW o \in Nat PROVE f[x][o] \in Seq(Nodes(D)) /\ g[x][o] \in Seq(Nodes(D))
    OBVIOUS
  <2> DEFINE k == PowerBelow(x)
             N == Nodes(D)
  <2>1. <<>> \in Seq(N) /\ \A h \in N : <<h>> \in Seq(N) /\ \A l \in Seq(N) : Append(l, h) \in Seq(N)
    <3> HIDE DEF N
    <3> QED
      OBVIOUS
  <2>2. Hash(D, o, x) \in N
    BY DEF Nodes
  <2>3. m = o + x => f[x][o] \in Seq(N)
    <3> SUFFICES ASSUME m = o + x PROVE f[x][o] \in Seq(N)
      OBVIOUS
    <3>1. f[x][o] = IF o = 0 THEN <<>> ELSE <<Hash(D, o, x)>>
      BY ProofStops
    <3> HIDE DEF N, f, S, Lists
    <3> QED
      BY <2>1, <2>2, <3>1
  <2>4. CASE x # 1
    <3>1. x >= 2
      BY <2>4 DEF Positive
    <3>2. k \in Positive /\ x - k \in Positive /\ k \in 0 .. x - 1 /\ x - k \in 0 .. x - 1 /\ o + k \in Nat
      <4>1. k \in Nat /\ 1 <= k /\ k < x
        BY <3>1, PowerBelowType
      <4> HIDE DEF k
      <4> QED
        BY <4>1 DEF Positive
    <3>3. Lists(k) /\ Lists(x - k)
      <4> HIDE DEF Lists, k
      <4> QED
        BY <1>1, <3>2
    <3>4. Hash(D, o + k, x - k) \in N /\ Hash(D, o, k) \in N
      BY <3>2 DEF Nodes
    <3> HIDE DEF S, f, g, N
    <3>5. f[k][o] \in Seq(N) /\ f[x - k][o + k] \in Seq(N) /\ g[k][o] \in Seq(N) /\ g[x - k][o + k] \in Seq(N)
      BY <3>2, <3>3 DEF N
    <3>6. \/ g[x][o] = Append(g[k][o], Hash(D, o + k, x - k))
          \/ g[x][o] = Append(g[x - k][o + k], Hash(D, o, k))
      <4>1. k = PowerBelow(x)
        OBVIOUS
      <4>2. \A a : a = PowerBelow(x) =>
              \/ Paths(m, D)[x][o] = Append(Paths(m, D)[a][o], Hash(D, o + a, x - a))
              \/ Paths(m, D)[x][o] = Append(Paths(m, D)[x - a][o + a], Hash(D, o, a))
        BY <2>4, PathSplits
      <4> HIDE DEF k
      <4> QED
        BY <4>1, <4>2 DEF g
    <3>7. m # o + x => \/ f[x][o] = Append(f[k][o], Hash(D, o + k, x - k))
                       \/ f[x][o] = Append(f[x - k][o + k], Hash(D, o, k))
      <4>1. k = PowerBelow(x)
        OBVIOUS
      <4>2. Continues(m, D, o, x)
        BY <2>4, ProofContinues
      <4> QED
        BY <4>2 DEF f, Continues
    <3> HIDE DEF k, Lists
    <3>8. g[x][o] \in Seq(N)
      BY <2>1, <3>4, <3>5, <3>6
    <3>9. f[x][o] \in Seq(N)
      BY <2>1, <2>3, <3>4, <3>5, <3>7
    <3> QED
      BY <3>8, <3>9 DEF N
  <2>5. CASE x = 1
    <3>1. g[x][o] = <<>>
      BY <2>5, PathIs
    <3>2. f[x][o] \in {<<>>, <<Hash(D, o, x)>>}
      <4>1. f = [j \in Positive |-> ProofRow(m, D, f, j)]
        BY ProofsDefined
      <4> HIDE DEF f
      <4>2. f[x] = ProofRow(m, D, f, x)
        BY <4>1
      <4> QED
        BY <2>5, <4>2 DEF ProofRow, Hash
    <3> HIDE DEF f, g, S, N, Lists
    <3>3. f[x][o] \in Seq(N) /\ g[x][o] \in Seq(N)
      BY <2>1, <2>2, <3>1, <3>2
    <3> QED
      BY <3>3 DEF N
  <2> QED
    BY <2>4, <2>5
<1>2. S = Nat
  <2> HIDE DEF S
  <2> QED
    BY <1>1, StrongInduction DEF S
<1>3. n \in S /\ n \in Nat
  <2> HIDE DEF S
  <2> QED
    BY <1>2 DEF Positive
<1>4. Lists(n)
  <2> HIDE DEF Lists
  <2> QED
    BY <1>3
<1> QED
  BY <1>4

LEMMA NothingAppended ==
  ASSUME NEW B, NEW h \in Seq(B), NEW q \in Seq(B), h \o q = <<>>
  PROVE  q = <<>>
<1>1. Len(h \o q) = Len(h) + Len(q) /\ Len(<<>>) = 0
  OBVIOUS
<1> QED
  BY <1>1

\* High enough there is one node, over the whole tree.
LEMMA HighUp ==
  ASSUME NEW n \in Positive, NEW k \in Nat, n <= k, NEW x \in 0 .. n - 1
  PROVE  Up(x, k) = 0 /\ Width(n, k, 0) = n /\ 0 * Pow2[k] = 0
<1>1. n \in Nat /\ x \in Nat /\ Pow2[k] \in Nat /\ Pow2[k] > k
  BY Powers DEF Positive
<1> DEFINE p == Pow2[k]
<1>2. p \in Nat /\ n < p /\ x < n
  BY <1>1
<1>3. 0 * p = 0
  BY <1>2
<1>4. Up(x, k) = 0
  BY <1>1, <1>2, <1>3, UpIsOnly
<1>5. Width(n, k, 0) = n
  <2> HIDE DEF p
  <2> QED
    BY <1>1, <1>2, <1>3 DEF Width, p
<1> QED
  BY <1>3, <1>4, <1>5

\* Whatever the sizes: the proof tlog.consistency_proof makes from a log takes the
\* root of any of its first parts to the root of the log.
THEOREM ConsistencyComplete ==
  ASSUME NEW A, NEW C \in Seq(A), NEW D \in Seq(A), C # <<>>, Extends(C, D)
  PROVE  Consistent(C, D)
<1> DEFINE m == Len(C)
           n == Len(D)
           proof == ConsistencyProof(m, D)
<1>1. m \in Nat /\ n \in Nat /\ m > 0 /\ m <= n /\ m \in Positive /\ n \in Positive
  BY DEF Extends, Positive
<1>2. Agree(C, D, m)
  <2>1. SubSeq(D, 1, m) = C
    BY DEF Extends
  <2>2. \A i \in 1 .. m : SubSeq(D, 1, m)[i] = D[i]
    BY <1>1
  <2> QED
    BY <2>1, <2>2 DEF Agree
<1>3. CASE m = n
  <2>1. C = D
    BY <1>1, <1>2, <1>3 DEF Agree
  <2>2. proof = <<>>
    <3>1. m = 0 + n
      BY <1>1, <1>3
    <3>2. Proofs(m, D)[n][0] = <<>>
      <4> HIDE DEF m, n
      <4> QED
        BY <1>1, <3>1, ProofStops
    <3> QED
      BY <3>2 DEF ConsistencyProof
  <2> QED
    BY <1>3, <2>1, <2>2 DEF Consistent, VerifyConsistency
<1>4. CASE m < n
  <2> DEFINE t == TrailingZeros(m)
             x == Up(m - 1, t)
             seed == NodeAt(D, t, x)
             k == t + n
  <2>1. Older(C, D)
    BY <1>1, <1>2, <1>4 DEF Older
  <2>2. t \in Nat /\ ((x = 0) <=> (m = Pow2[t]))
    BY <1>1, LastSubtree
  <2>3. k \in Nat /\ n <= k /\ m - 1 \in 0 .. n - 1 /\ n - 1 \in 0 .. n - 1
    <3> HIDE DEF t, m, n
    <3> QED
      BY <1>1, <2>2
  <2>4. Up(m - 1, k) = 0 /\ Up(n - 1, k) = 0 /\ Width(n, k, 0) = n /\ 0 * Pow2[k] = 0
    <3> HIDE DEF k, n, m
    <3> QED
      BY <1>1, <2>3, HighUp
  <2> HIDE DEF t, k
  <2>5. NodeAt(C, t, x) = seed /\ seed \in Nodes(D) /\ Up(n - 1, t) # 0
    BY <1>1, <1>4, <2>1, ProofReaches DEF t
  <2>6. PICK q \in Seq(Nodes(D)) :
          /\ ProofOf(m, D, k, Up(m - 1, k)) = SeedNode(m, D) \o q
          /\ Reached(C, D, k, Walked(m - 1, n - 1, t, seed, q))
    <3>1. Len(C) < Len(D) /\ t = TrailingZeros(Len(C)) /\ seed = NodeAt(D, t, Up(Len(C) - 1, t)) /\ n \in Nat
      BY <1>1, <1>4 DEF t
    <3> HIDE DEF seed
    <3> QED
      BY <2>1, <3>1, ProofReaches DEF k
  <2>7. proof = SeedNode(m, D) \o q
    BY <2>4, <2>6 DEF ProofOf, ConsistencyProof
  <2> DEFINE path == IF m = Pow2[t] THEN <<MTH(C)>> \o proof ELSE proof
             s == Walked(m - 1, n - 1, t, seed, q)
  <2>8. AtTop(n - 1, s) /\ s.fr = MTH(C) /\ s.sr = MTH(D)
    BY <2>1, <2>3, <2>4, <2>6, ReachedTop
  <2>9. path = <<seed>> \o q
    <3>1. CASE x = 0
      <4>1. NodeAt(C, t, x) = MTH(C)
        BY <1>1, <2>2, <3>1, TopNode
      <4>2. SeedNode(m, D) = <<>>
        BY <3>1 DEF SeedNode, t
      <4>3. proof = q
        BY <2>7, <4>2
      <4>4. m = Pow2[t]
        BY <2>2, <3>1
      <4> HIDE DEF proof
      <4> QED
        BY <2>5, <4>1, <4>3, <4>4
    <3>2. CASE x # 0
      <4>1. SeedNode(m, D) = <<seed>>
        BY <3>2 DEF SeedNode, t
      <4> QED
        BY <2>2, <2>7, <3>2, <4>1
    <3> QED
      BY <3>1, <3>2
  <2> HIDE DEF seed, path
  <2>10. path[1] = seed /\ Tail(path) = q
    BY <2>5, <2>9
  <2>11. proof # <<>>
    <3> SUFFICES ASSUME proof = <<>> PROVE FALSE
      OBVIOUS
    <3>1. SeedNode(m, D) \in Seq(Nodes(D))
      BY <2>5 DEF SeedNode, seed, t
    <3>2. q = <<>>
      <4>1. SeedNode(m, D) \o q = <<>>
        BY <2>7
      <4> QED
        BY <3>1, <4>1, NothingAppended
    <3>3. s.up = t
      <4>1. m - 1 \in Nat /\ n - 1 \in Nat /\ m - 1 <= n - 1
        BY <1>1
      <4> HIDE DEF m, n
      <4> QED
        BY <2>2, <3>2, <4>1, WalkEmpty
    <3> QED
      BY <2>5, <2>8, <3>3 DEF AtTop
  <2>12. s = Walked(m - 1, n - 1, t, path[1], Tail(path))
    BY <2>10
  <2> HIDE DEF proof, s
  <2>13. VerifyConsistency(m, n, proof, MTH(C), MTH(D))
    BY <1>1, <1>4, <2>8, <2>11, <2>12 DEF VerifyConsistency, t, path
  <2> QED
    BY <2>13 DEF Consistent, proof
<1> QED
  BY <1>1, <1>3, <1>4

\* A proof made from the newer log is accepted exactly when the older log is a
\* first part of it (tlog.consistency_proof with tlog.verify_consistency).
THEOREM ConsistentIsExtends ==
  ASSUME NEW A, NEW C \in Seq(A), NEW D \in Seq(A), C # <<>>, D # <<>>
  PROVE  Consistent(C, D) <=> Extends(C, D)
<1>1. ASSUME Consistent(C, D) PROVE Extends(C, D)
  <2>1. Len(D) \in Positive /\ Len(C) \in Nat
    BY DEF Positive
  <2>2. ConsistencyProof(Len(C), D) \in Seq(Nodes(D))
    BY <2>1, ListsOfNodes DEF ConsistencyProof
  <2> QED
    BY <1>1, <2>2, ConsistencySound DEF Consistent
<1> QED
  BY <1>1, ConsistencyComplete

\* The path tlog.inclusion_path makes takes every leaf to the root.
THEOREM InclusionComplete ==
  ASSUME NEW A, NEW D \in Seq(A), NEW index \in 0 .. Len(D) - 1
  PROVE  VerifyInclusion(Leaf(D[index + 1]), index, Len(D), InclusionPath(index, D), MTH(D))
<1> DEFINE n == Len(D)
           C == SubSeq(D, 1, index + 1)
           seed == Leaf(D[index + 1])
<1>1. n \in Nat /\ index \in Nat /\ index < n /\ n \in Positive
  BY DEF Positive
<1>2. Len(C) = index + 1 /\ Len(C) - 1 = index /\ \A i \in 1 .. index + 1 : C[i] = D[i]
  BY <1>1
<1> HIDE DEF C
<1>3. Older(C, D)
  BY <1>1, <1>2 DEF Older, Agree, Positive
<1>4. seed = NodeAt(D, 0, Len(C) - 1)
  BY <1>1, <1>2, BottomNode
<1>5. Up(index, n) = 0 /\ Up(n - 1, n) = 0 /\ Width(n, n, 0) = n /\ 0 * Pow2[n] = 0
  <2>1. index \in 0 .. n - 1 /\ n - 1 \in 0 .. n - 1 /\ n <= n
    BY <1>1
  <2> HIDE DEF n
  <2> QED
    BY <1>1, <2>1, HighUp
<1> DEFINE q == PathOf(index, D, n, Up(index, n))
           s == Walked(index, n - 1, 0, seed, q)
<1>6. Reached(C, D, n, s)
  <2> HIDE DEF seed
  <2> QED
    BY <1>1, <1>2, <1>3, <1>4, PathReaches
<1>7. AtTop(n - 1, s) /\ s.sr = MTH(D)
  <2> HIDE DEF s
  <2> QED
    BY <1>1, <1>3, <1>5, <1>6, ReachedTop
<1>8. q = InclusionPath(index, D)
  BY <1>5 DEF PathOf, InclusionPath
<1> HIDE DEF q
<1> QED
  BY <1>7, <1>8 DEF VerifyInclusion

-----------------------------------------------------------------------------
(* Observers.                                                              *)
\* Which pulses there are, whatever the bounds.
Pulse == [v : Nat, type : {"legacy"}] \cup [v : Nat, type : {"commit"}, rel : Nat]
         \cup [v : Nat, type : {"resolution"}, of : Nat, good : BOOLEAN]
Chains == Seq(Pulse) \ {<<>>}
Trees == [chain : Chains, heads : SUBSET Chains, top : Chains]

(* First parts of a sequence. *)
LEMMA ExtendsIs ==
  ASSUME NEW A, NEW C \in Seq(A), NEW D \in Seq(A)
  PROVE  Extends(C, D) <=> Len(C) <= Len(D) /\ \A i \in 1 .. Len(C) : C[i] = D[i]
<1>1. Len(C) \in Nat /\ Len(D) \in Nat /\ DOMAIN C = 1 .. Len(C)
  OBVIOUS
<1>2. ASSUME Len(C) <= Len(D)
      PROVE  /\ SubSeq(D, 1, Len(C)) \in Seq(A) /\ Len(SubSeq(D, 1, Len(C))) = Len(C)
             /\ \A i \in 1 .. Len(C) : SubSeq(D, 1, Len(C))[i] = D[i]
  BY <1>1, <1>2
<1>3. ASSUME Len(C) <= Len(D), \A i \in 1 .. Len(C) : C[i] = D[i]
      PROVE  SubSeq(D, 1, Len(C)) = C
  BY <1>1, <1>2, <1>3
<1>4. ASSUME Len(C) <= Len(D), SubSeq(D, 1, Len(C)) = C
      PROVE  \A i \in 1 .. Len(C) : C[i] = D[i]
  BY <1>2, <1>4
<1> QED
  BY <1>3, <1>4 DEF Extends

LEMMA ExtendsItself ==
  ASSUME NEW A, NEW C \in Seq(A) PROVE Extends(C, C)
<1>1. Len(C) \in Nat
  OBVIOUS
<1> QED
  BY <1>1, ExtendsIs

LEMMA ExtendsOn ==
  ASSUME NEW A, NEW C \in Seq(A), NEW D \in Seq(A), NEW E \in Seq(A), Extends(C, D), Extends(D, E)
  PROVE  Extends(C, E)
<1>1. Len(C) \in Nat /\ Len(D) \in Nat /\ Len(E) \in Nat
  OBVIOUS
<1>2. Len(C) <= Len(D) /\ Len(D) <= Len(E)
  BY ExtendsIs
<1>3. \A i \in 1 .. Len(C) : C[i] = D[i]
  BY ExtendsIs
<1>4. \A i \in 1 .. Len(D) : D[i] = E[i]
  BY ExtendsIs
<1>5. Len(C) <= Len(E) /\ \A i \in 1 .. Len(C) : C[i] = E[i]
  BY <1>1, <1>2, <1>3, <1>4
<1> QED
  BY <1>5, ExtendsIs

\* Two first parts of one sequence.
LEMMA ExtendsBoth ==
  ASSUME NEW A, NEW C \in Seq(A), NEW D \in Seq(A), NEW E \in Seq(A), Extends(C, E), Extends(D, E), Len(C) <= Len(D)
  PROVE  Extends(C, D)
<1>1. Len(C) \in Nat /\ Len(D) \in Nat /\ Len(E) \in Nat
  OBVIOUS
<1>2. \A i \in 1 .. Len(C) : C[i] = E[i]
  BY ExtendsIs
<1>3. \A i \in 1 .. Len(D) : D[i] = E[i]
  BY ExtendsIs
<1>4. \A i \in 1 .. Len(C) : C[i] = D[i]
  BY <1>1, <1>2, <1>3
<1> QED
  BY <1>4, ExtendsIs

LEMMA NothingExtends ==
  ASSUME NEW A, NEW C \in Seq(A) PROVE Extends(<<>>, C)
<1> DEFINE none == <<>>
<1>1. none \in Seq(A) /\ Len(none) = 0 /\ Len(C) \in Nat
  OBVIOUS
<1> HIDE DEF none
<1>2. Len(none) <= Len(C) /\ \A i \in 1 .. Len(none) : none[i] = C[i]
  BY <1>1
<1>3. Extends(none, C)
  BY <1>1, <1>2, ExtendsIs
<1> QED
  BY <1>3 DEF none

\* Of two heads that agree, the longer one extends the other.
LEMMA LongerExtends ==
  ASSUME NEW A, NEW C \in Seq(A), NEW D \in Seq(A), Comparable(C, D), Len(C) <= Len(D)
  PROVE  Extends(C, D)
<1>1. Len(C) \in Nat /\ Len(D) \in Nat
  OBVIOUS
<1> SUFFICES ASSUME Extends(D, C) PROVE Extends(C, D)
  BY DEF Comparable
<1>2. Len(D) <= Len(C) /\ \A i \in 1 .. Len(D) : D[i] = C[i]
  BY ExtendsIs
<1>3. \A i \in 1 .. Len(C) : C[i] = D[i]
  BY <1>1, <1>2
<1> QED
  BY <1>3, ExtendsIs

\* What the first pulses of a chain with a given root are.
LEMMA RootIsPrefix ==
  ASSUME NEW A, NEW C \in Seq(A), NEW D \in Seq(A), C # <<>>, D # <<>>, Len(C) <= Len(D),
         MTH(SubSeq(D, 1, Len(C))) = MTH(C)
  PROVE  Extends(C, D)
<1> DEFINE E == SubSeq(D, 1, Len(C))
<1>1. E \in Seq(A) /\ Len(E) = Len(C) /\ Len(C) > 0
  OBVIOUS
<1>2. E # <<>>
  BY <1>1
<1> HIDE DEF E
<1>3. E = C
  <2>1. MTH(E) = MTH(C)
    BY DEF E
  <2> QED
    BY <1>1, <1>2, <2>1, RootBinds
<1> QED
  BY <1>3 DEF Extends, E

(* The newest of some heads. *)
Longest(h, hs) == h \in hs /\ \A g \in hs : Len(g) <= Len(h)
LEMMA NewestIs ==
  ASSUME NEW hs, \E h \in hs : Longest(h, hs)
  PROVE  Longest(Newest(hs), hs)
<1>1. \E h \in hs : \A g \in hs : Len(g) <= Len(h)
  BY DEF Longest
<1>2. Newest(hs) \in hs /\ \A g \in hs : Len(g) <= Len(Newest(hs))
  BY <1>1, Zenon DEF Newest
<1> QED
  BY <1>2 DEF Longest

LEMMA NewestIsOnly ==
  ASSUME NEW hs \in SUBSET Chains, NEW h, Longest(h, hs), \A g \in hs : Len(g) = Len(h) => g = h
  PROVE  Newest(hs) = h
<1> DEFINE new == Newest(hs)
<1>1. Longest(new, hs)
  <2>1. \E g \in hs : Longest(g, hs)
    BY DEF Longest
  <2> QED
    BY <2>1, NewestIs
<1> HIDE DEF new
<1>2. new \in hs /\ h \in hs /\ new \in Chains /\ h \in Chains
  BY <1>1 DEF Longest
<1>3. Len(new) \in Nat /\ Len(h) \in Nat
  BY <1>2 DEF Chains
<1>4. Len(new) <= Len(h) /\ Len(h) <= Len(new)
  BY <1>1, <1>2 DEF Longest
<1>5. new = h
  BY <1>2, <1>3, <1>4
<1> QED
  BY <1>5 DEF new

(* A chain after one step. *)
LEMMA AppendKeeps ==
  ASSUME NEW c \in Chains, NEW p \in Pulse
  PROVE  /\ Append(c, p) \in Chains /\ Len(Append(c, p)) = Len(c) + 1 /\ DOMAIN c = 1 .. Len(c) /\ Len(c) \in Nat /\ Len(c) > 0
         /\ DOMAIN Append(c, p) = 1 .. Len(c) + 1
         /\ (\A i \in 1 .. Len(c) : Append(c, p)[i] = c[i]) /\ Append(c, p)[Len(c) + 1] = p
<1>1. c \in Seq(Pulse) /\ c # <<>>
  BY DEF Chains
<1>2. Append(c, p) \in Seq(Pulse) /\ Len(Append(c, p)) = Len(c) + 1
  BY <1>1
<1> QED
  BY <1>1, <1>2 DEF Chains

LEMMA CutKeeps ==
  ASSUME NEW c \in Chains, NEW k \in 1 .. Len(c)
  PROVE  /\ SubSeq(c, 1, k) \in Chains /\ Len(SubSeq(c, 1, k)) = k /\ DOMAIN c = 1 .. Len(c)
         /\ DOMAIN SubSeq(c, 1, k) = 1 .. k
         /\ \A i \in 1 .. k : SubSeq(c, 1, k)[i] = c[i]
<1>1. c \in Seq(Pulse)
  BY DEF Chains
<1>2. SubSeq(c, 1, k) \in Seq(Pulse) /\ Len(SubSeq(c, 1, k)) = k
  BY <1>1
<1> QED
  BY <1>1, <1>2 DEF Chains

LEMMA PulsesOf ==
  ASSUME NEW c \in Chains
  PROVE  \A i \in 1 .. Len(c) : c[i] \in Pulse /\ c[i].v \in Nat
BY DEF Chains, Pulse

(***************************************************************************)
(* The inductive invariant.                                                *)
(***************************************************************************)
Watching == {Idle} \cup [pc : {"fetched"}, chain : Chains] \cup [pc : {"clocked"}, chain : Chains, round : Nat]

Types ==
  /\ chain \in Chains /\ heads \in SUBSET Chains /\ top \in heads /\ minted \in Nat
  /\ pc \in {"idle", "noted", "ready"}
  /\ published \in Trees /\ published.heads \subseteq heads /\ published.top \in heads
  /\ public \in SUBSET [pulse : Pulse, at : Nat]
  /\ ci \in SUBSET Trees /\ (ci = {} \/ \E t : ci = {t}) /\ \A t \in ci : t.top \in heads
  /\ withheld \in SUBSET [commit : {p \in Pulse : p.type = "commit"}, looked : BOOLEAN]
  /\ watch \in Watching
  /\ copies \in SUBSET Trees /\ \A t \in copies : t.top \in heads
  /\ now \in 0 .. MaxTime /\ faults \in 0 .. MaxFaults

\* There is a newest head, and a numbered head is the newest; and all agree.
Ordered ==
  /\ \E h \in heads : Longest(h, heads)
  /\ pc = "noted" => Longest(chain, heads)
Agreed ==
  /\ \A C, D \in heads : Comparable(C, D)
  /\ green \subseteq heads /\ cached \subseteq heads \cup {<<>>}

\* A pulse is at one place, whatever the chain, and a resolution follows its commit.
Known == {chain, published.chain} \cup {t.chain : t \in ci}
Bonds(c) == \A i \in 1 .. Len(c) : c[i].v <= minted /\ (c[i].type = "resolution" => i > 1 /\ c[i - 1].v = c[i].of)
Placed ==
  /\ \A X, Y \in Known : \A i \in 1 .. Len(X), j \in 1 .. Len(Y) : X[i].v = Y[j].v => i = j
  /\ \A X \in Known : Bonds(X)

\* What was public and is not published any more is lost.
History ==
  /\ \A e \in public : e.at <= now /\ e.pulse.v <= minted
  /\ \A p \in Pulses(published.chain) : \E e \in public : e.pulse = p
  /\ \A e \in public : e.pulse \in Pulses(published.chain) \/ e.pulse \notin Pulses(chain)
Late ==
  \A w \in withheld : w.looked =>
    /\ now > w.commit.rel + Deadline
    /\ \A e \in public : e.pulse.type = "resolution" /\ e.pulse.of = w.commit.v
                         /\ e.at <= w.commit.rel + Deadline => e.pulse \notin Pulses(published.chain)
Seen ==
  /\ watch.pc = "fetched" => \A p \in Pulses(watch.chain) : \E e \in public : e.pulse = p
  /\ watch.pc = "clocked" => \A p \in Pulses(watch.chain) : \E e \in public : e.pulse = p /\ e.at <= watch.round + Lag
Justified ==
  /\ \A a \in splits : ~HeadRecomputes(a.site) \/ ~Comparable(a.copy.chain, a.site.chain)
  /\ \A a \in rollbacks : a.copy.top # a.seen /\ Extends(a.copy.top, a.seen)

Invariant == Types /\ Ordered /\ Agreed /\ Placed /\ History /\ Late /\ Seen /\ Justified /\ ReceiptIsEarly

Assumed ==
  Past \in Nat \ {0} /\ Lead \in Nat /\ Deadline \in Nat /\ Lag \in Nat /\ MaxAhead \in Nat
  /\ MaxMints \in Nat /\ MaxTime \in Nat /\ MaxFaults \in Nat
LEMMA Bounds == Assumed
BY ObserversAssumption DEF Assumed

(* What a step of the checkout makes of the chain: the first k pulses stay, and
   nothing or one new pulse comes after them. *)
Changed(k) ==
  /\ k \in 1 .. Len(chain) /\ chain' \in Chains
  /\ \A i \in 1 .. k : chain'[i] = chain[i]
  /\ \/ Len(chain') = k /\ minted' = minted
     \/ /\ Len(chain') = k + 1 /\ minted' = minted + 1 /\ chain'[k + 1].v = minted + 1
        /\ chain'[k + 1].type = "resolution" => chain'[k + 1].of = chain[k].v

LEMMA MintChanges ==
  ASSUME Types, Mint
  PROVE  Changed(Len(chain))
<1> DEFINE c == chain
           n == Len(c)
           old == HeadOf(c)
<1>1. c \in Chains /\ minted \in Nat /\ now \in Nat /\ Lead \in Nat
  BY Bounds DEF Types, Assumed
<1>2. n \in Nat /\ n > 0 /\ old \in Pulse /\ old.v \in Nat
  <2>1. c \in Seq(Pulse) /\ c # <<>>
    BY <1>1 DEF Chains
  <2>2. n \in Nat /\ n > 0
    BY <2>1
  <2>3. old \in Pulse
    BY <2>1, <2>2 DEF HeadOf
  <2> QED
    BY <2>2, <2>3 DEF Pulse
<1> HIDE DEF old
<1>3. PICK p : /\ chain' = Append(chain, p) /\ p \in Pulse /\ p.v = minted + 1
               /\ p.type = "resolution" => p.of = old.v
  <2>1. CASE old.type = "commit"
    <3>1. PICK g \in BOOLEAN : chain' = Append(chain, Resolution(minted + 1, old.v, g))
      BY <2>1 DEF Mint, old
    <3>2. Resolution(minted + 1, old.v, g) \in Pulse
      BY <1>1, <1>2 DEF Resolution, Pulse
    <3> QED
      BY <3>1, <3>2 DEF Resolution
  <2>2. CASE old.type # "commit"
    <3>1. chain' = Append(chain, Commit(minted + 1, now + Lead))
      BY <2>2 DEF Mint, old
    <3>2. Commit(minted + 1, now + Lead) \in Pulse
      BY <1>1 DEF Commit, Pulse
    <3> QED
      BY <3>1, <3>2 DEF Commit
  <2> QED
    BY <2>1, <2>2
<1>4. minted' = minted + 1 /\ old = chain[n]
  BY DEF Mint, old, HeadOf
<1>5. /\ Append(c, p) \in Chains /\ Len(Append(c, p)) = n + 1
      /\ \A i \in 1 .. n : Append(c, p)[i] = c[i]
      /\ Append(c, p)[n + 1] = p
  BY <1>1, <1>3, AppendKeeps
<1> HIDE DEF n
<1>6. Changed(n)
  BY <1>2, <1>3, <1>4, <1>5 DEF Changed, n
<1> QED
  BY <1>6 DEF n

LEMMA DamageChanges ==
  ASSUME Types, Placed, Damage
  PROVE  \E k \in 1 .. Len(chain) : Changed(k)
<1> DEFINE n == Len(chain)
<1>1. chain \in Chains /\ minted \in Nat
  BY DEF Types
<1>2. n \in Nat /\ n > 0
  BY <1>1 DEF Chains
<1> HIDE DEF n
<1>3. PICK k \in 1 .. n - 1 :
        \/ chain' = SubSeq(chain, 1, k) /\ minted' = minted
        \/ chain' = Append(SubSeq(chain, 1, k), [chain[k + 1] EXCEPT !.v = minted + 1]) /\ minted' = minted + 1
  BY DEF Damage, n
<1>4. k \in 1 .. n /\ k + 1 \in 1 .. n /\ k \in Nat
  BY <1>2, <1>3
<1> DEFINE c == SubSeq(chain, 1, k)
           old == chain[k + 1]
           p == [old EXCEPT !.v = minted + 1]
<1>5. c \in Chains /\ Len(c) = k /\ \A i \in 1 .. k : c[i] = chain[i]
  BY <1>1, <1>4, CutKeeps DEF n
<1>6. old \in Pulse
  BY <1>1, <1>4, PulsesOf DEF n
<1> HIDE DEF old
<1>7. p \in Pulse /\ p.v = minted + 1 /\ p.type = old.type /\ (p.type = "resolution" => p.of = old.of)
  BY <1>1, <1>6 DEF Pulse
<1>8. old.type = "resolution" => old.of = chain[k].v
  BY <1>4 DEF Placed, Known, Bonds, old, n
<1>9. CASE chain' = c /\ minted' = minted
  BY <1>4, <1>5, <1>9 DEF Changed, n
<1>10. CASE chain' = Append(c, p) /\ minted' = minted + 1
  <2> HIDE DEF c, p
  <2>1. /\ Append(c, p) \in Chains /\ Len(Append(c, p)) = k + 1
        /\ \A i \in 1 .. k : Append(c, p)[i] = c[i]
        /\ Append(c, p)[k + 1] = p
    BY <1>5, <1>7, AppendKeeps
  <2> QED
    BY <1>4, <1>5, <1>7, <1>8, <1>10, <2>1 DEF Changed, n
<1> QED
  BY <1>3, <1>9, <1>10 DEF old

LEMMA ChainChanges ==
  ASSUME Types, Placed, Mint \/ Damage
  PROVE  \E k \in 1 .. Len(chain) : Changed(k)
<1>1. Len(chain) \in 1 .. Len(chain)
  BY DEF Types, Chains
<1> QED
  BY <1>1, MintChanges, DamageChanges

\* The kinds of step: of the aggregator, and of those who only look.
Looks == CIStart \/ CIEnd \/ Fetch \/ Clock \/ Judge \/ Check
Beacon == Mint \/ Damage \/ WriteNumbered \/ WriteTop \/ NoCheckpoint \/ Push \/ Kill

LEMMA SomeStep ==
  ASSUME [Next]_vars
  PROVE  Beacon \/ Looks \/ Round \/ UNCHANGED vars
BY DEF Next, Beacon, Looks

LEMMA LooksLeave == ASSUME Looks PROVE UNCHANGED <<beaconVars, now>>
BY DEF Looks, CIStart, CIEnd, Fetch, Clock, Judge, Check

LEMMA BeaconLeaves == ASSUME Beacon PROVE UNCHANGED <<lookers, now>>
BY DEF Beacon, Mint, Damage, WriteNumbered, WriteTop, NoCheckpoint, Push, Kill

LEMMA Start ==
  ASSUME Init
  PROVE  Invariant
<1>1. Past \in Nat /\ Past > 0 /\ MaxTime \in Nat /\ MaxFaults \in Nat
  BY Bounds DEF Assumed
<1>2. /\ chain = [v \in 1 .. Past |-> Legacy(v)] /\ heads = {chain} /\ top = chain
      /\ published = [chain |-> chain, heads |-> heads, top |-> top] /\ pc = "idle" /\ minted = Past
      /\ public = {[pulse |-> chain[i], at |-> 0] : i \in 1 .. Past}
      /\ ci = {} /\ green = {} /\ withheld = {} /\ watch = Idle /\ records = {}
      /\ copies = {published} /\ cached = {} /\ splits = {} /\ rollbacks = {} /\ now = 0 /\ faults = 0
  BY DEF Init
<1>3. chain \in Chains /\ Len(chain) = Past /\ \A i \in 1 .. Past : chain[i] = Legacy(i)
  <2>1. \A i \in 1 .. Past : Legacy(i) \in Pulse
    BY DEF Legacy, Pulse
  <2>2. chain \in Seq(Pulse) /\ Len(chain) = Past
    BY <1>1, <1>2, <2>1
  <2> QED
    BY <1>1, <1>2, <2>2 DEF Chains
<1>4. \A i \in 1 .. Past : chain[i] \in Pulse /\ chain[i].v = i /\ chain[i].type = "legacy"
  BY <1>1, <1>3 DEF Legacy, Pulse
<1>5. published \in Trees /\ published.chain = chain /\ published.top = chain /\ published.heads = {chain}
  BY <1>2, <1>3 DEF Trees
<1>6. Pulses(chain) = {chain[i] : i \in 1 .. Past}
  BY <1>2 DEF Pulses
<1> HIDE DEF Init
<1>7. Types
  <2>1. public \in SUBSET [pulse : Pulse, at : Nat]
    BY <1>2, <1>4
  <2>2. watch \in Watching
    BY <1>2 DEF Watching
  <2> QED
    BY <1>1, <1>2, <1>3, <1>5, <2>1, <2>2 DEF Types
<1>8. Extends(chain, chain)
  <2>1. chain \in Seq(Pulse)
    BY <1>3 DEF Chains
  <2> QED
    BY <2>1, ExtendsItself
<1>9. Ordered /\ Agreed
  BY <1>1, <1>2, <1>3, <1>5, <1>8 DEF Ordered, Agreed, Longest, Comparable
<1>10. Placed
  <2>1. Known = {chain}
    BY <1>2, <1>5 DEF Known
  <2>2. Bonds(chain)
    BY <1>1, <1>2, <1>3, <1>4 DEF Bonds
  <2>3. \A i, j \in 1 .. Len(chain) : chain[i].v = chain[j].v => i = j
    BY <1>3, <1>4
  <2> QED
    BY <2>1, <2>2, <2>3 DEF Placed
<1>11. History
  <2>1. ASSUME NEW e \in public PROVE e.at <= now /\ e.pulse.v <= minted /\ e.pulse \in Pulses(published.chain)
    <3>1. PICK i \in 1 .. Past : e = [pulse |-> chain[i], at |-> 0]
      BY <1>2
    <3>2. e.pulse = chain[i] /\ e.at = 0
      BY <3>1
    <3> QED
      BY <1>1, <1>2, <1>4, <1>5, <1>6, <3>2
  <2>2. ASSUME NEW p \in Pulses(published.chain) PROVE \E e \in public : e.pulse = p
    <3>1. PICK i \in 1 .. Past : p = chain[i]
      BY <1>5, <1>6
    <3>2. [pulse |-> chain[i], at |-> 0] \in public
      BY <1>2
    <3> QED
      BY <3>1, <3>2
  <2> QED
    BY <2>1, <2>2 DEF History
<1>12. Late /\ Seen /\ Justified /\ ReceiptIsEarly
  BY <1>2 DEF Late, Seen, Justified, ReceiptIsEarly, Idle
<1> QED
  BY <1>7, <1>9, <1>10, <1>11, <1>12 DEF Invariant

LEMMA TypesKept ==
  ASSUME Types, Ordered, Placed, [Next]_vars
  PROVE  Types'
<1> USE DEF Types
<1>1. CASE Mint \/ Damage
  <2>1. PICK k \in 1 .. Len(chain) : Changed(k)
    BY <1>1, ChainChanges
  <2>2. chain' \in Chains /\ minted' \in Nat
    BY <2>1 DEF Changed
  <2>3. faults' \in 0 .. MaxFaults
    BY <1>1, Bounds DEF Mint, Damage, Assumed
  <2>4. UNCHANGED <<heads, top, published, copies, pc, public, lookers, now>>
    BY <1>1 DEF Mint, Damage
  <2> QED
    BY <2>2, <2>3, <2>4 DEF lookers, ciVars, watchVars, clientVars
<1>2. CASE WriteNumbered \/ WriteTop \/ NoCheckpoint \/ Kill
  <2>1. UNCHANGED <<chain, published, copies, minted, public, lookers, now>>
    BY <1>2 DEF WriteNumbered, WriteTop, NoCheckpoint, Kill
  <2>2. faults' \in 0 .. MaxFaults
    BY <1>2, Bounds DEF WriteNumbered, WriteTop, NoCheckpoint, Kill, Assumed
  <2>3. heads' \in SUBSET Chains /\ heads \subseteq heads' /\ pc' \in {"idle", "noted", "ready"}
    BY <1>2 DEF WriteNumbered, WriteTop, NoCheckpoint, Kill
  <2>4. top' \in heads'
    BY <1>2 DEF WriteNumbered, WriteTop, NoCheckpoint, Kill, Ordered, Longest
  <2> QED
    BY <2>1, <2>2, <2>3, <2>4 DEF lookers, ciVars, watchVars, clientVars
<1>3. CASE Push
  <2>1. published' \in Trees /\ published'.top = top /\ copies' = copies \cup {published'}
    BY <1>3 DEF Push, Trees
  <2>2. public' \in SUBSET [pulse : Pulse, at : Nat]
    <3>1. Pulses(chain) \subseteq Pulse /\ now \in Nat
      BY Bounds DEF Pulses, Chains, Assumed
    <3> QED
      BY <1>3, <3>1 DEF Push
  <2> QED
    BY <1>3, <2>1, <2>2 DEF Push, lookers, ciVars, watchVars, clientVars
<1>4. CASE Round
  <2>1. now' \in 0 .. MaxTime
    BY <1>4, Bounds DEF Round, Assumed
  <2> QED
    BY <1>4, <2>1 DEF Round, beaconVars, lookers, ciVars, watchVars, clientVars
<1>5. CASE CIStart
  <2>1. ci' = {published}
    BY <1>5 DEF CIStart
  <2> QED
    BY <1>5, <2>1 DEF CIStart, beaconVars, watchVars, clientVars
<1>6. CASE CIEnd
  <2>1. withheld' \in SUBSET [commit : {p \in Pulse : p.type = "commit"}, looked : BOOLEAN]
    <3>1. PICK tree \in ci, looked \in BOOLEAN :
            withheld' \subseteq withheld \cup {[commit |-> tree.chain[i], looked |-> looked] : i \in Overdue(tree.chain)}
      BY <1>6 DEF CIEnd
    <3>2. tree.chain \in Chains
      BY DEF Trees
    <3>3. \A i \in Overdue(tree.chain) : tree.chain[i] \in Pulse /\ tree.chain[i].type = "commit"
      BY <3>2 DEF Overdue, Chains
    <3> QED
      BY <3>1, <3>3
  <2> QED
    BY <1>6, <2>1 DEF CIEnd, beaconVars, watchVars, clientVars
<1>7. CASE Fetch \/ Clock \/ Judge
  <2>1. watch' \in Watching
    <3>1. CASE Fetch
      BY <3>1 DEF Fetch, Watching, Trees
    <3>2. CASE Clock
      <4>1. watch \in [pc : {"fetched"}, chain : Chains]
        BY <3>2 DEF Clock, Watching, Idle
      <4>2. PICK r \in Nat : watch' = [pc |-> "clocked", chain |-> watch.chain, round |-> r]
        BY <3>2, Bounds DEF Clock, Assumed
      <4> QED
        BY <4>1, <4>2 DEF Watching
    <3>3. CASE Judge
      BY <3>3 DEF Judge, Watching
    <3> QED
      BY <1>7, <3>1, <3>2, <3>3
  <2> QED
    BY <1>7, <2>1 DEF Fetch, Clock, Judge, beaconVars, ciVars, clientVars
<1>8. CASE Check
  <2>1. faults' \in 0 .. MaxFaults
    BY <1>8, Bounds DEF Check, Assumed
  <2>2. UNCHANGED <<beaconVars, ciVars, watchVars, now>>
    BY <1>8 DEF Check
  <2> QED
    BY <2>1, <2>2 DEF beaconVars, ciVars, watchVars
<1>9. CASE UNCHANGED vars
  BY <1>9 DEF vars, beaconVars, lookers, ciVars, watchVars, clientVars
<1> QED
  BY <1>1, <1>2, <1>3, <1>4, <1>5, <1>6, <1>7, <1>8, <1>9 DEF Next

LEMMA Lengths ==
  ASSUME Types
  PROVE  /\ Len(chain) \in Nat /\ Len(top) \in Nat /\ Len(published.top) \in Nat
         /\ (\A h \in heads : Len(h) \in Nat)
BY DEF Types, Chains, Trees

LEMMA OrderedKept ==
  ASSUME Types, Ordered, Agreed, [Next]_vars
  PROVE  Ordered'
<1> USE DEF Ordered
<1>1. CASE Mint \/ Damage \/ NoCheckpoint \/ Kill
  <2>1. UNCHANGED heads /\ pc' # "noted"
    BY <1>1 DEF Mint, Damage, NoCheckpoint, Kill
  <2> QED
    BY <2>1 DEF Longest
<1>2. CASE WriteNumbered
  <2>1. UNCHANGED chain /\ heads' = heads \cup {chain} /\ SignsHead
    BY <1>2 DEF WriteNumbered
  <2>2. Longest(Newest(heads), heads) /\ heads # {}
    BY NewestIs DEF Longest
  <2>3. Len(Newest(heads)) < Len(chain) /\ Len(Newest(heads)) \in Nat
    BY <2>1, <2>2, Lengths DEF SignsHead, Longest
  <2>4. Longest(chain, heads')
    BY <2>1, <2>2, <2>3, Lengths DEF Longest
  <2> QED
    BY <2>1, <2>4 DEF Longest
<1>3. CASE WriteTop
  BY <1>3 DEF WriteTop, Longest
<1>4. CASE Push \/ Looks \/ Round \/ UNCHANGED vars
  <2>1. UNCHANGED heads /\ (pc' = "noted" => UNCHANGED <<chain, pc>>)
    BY <1>4, LooksLeave DEF Push, Round, vars, beaconVars
  <2> QED
    BY <2>1 DEF Longest
<1> QED
  BY <1>1, <1>2, <1>3, <1>4, SomeStep DEF Beacon

\* A chain CI passes is one whose head was signed.
LEMMA GreenIsSigned ==
  ASSUME NEW tree \in Trees, CheckpointOK(tree)
  PROVE  tree.chain = tree.top
<1> DEFINE C == tree.top
           D == tree.chain
<1>1. C \in Seq(Pulse) /\ D \in Seq(Pulse) /\ C # <<>> /\ D # <<>>
  BY DEF Trees, Chains
<1>2. Len(C) = Len(D) /\ MTH(SubSeq(D, 1, Len(C))) = MTH(C)
  BY DEF CheckpointOK
<1> HIDE DEF C, D
<1>3. Extends(C, D)
  BY <1>1, <1>2, RootIsPrefix
<1>4. Len(C) = Len(D) /\ \A i \in 1 .. Len(C) : C[i] = D[i]
  BY <1>1, <1>2, <1>3, ExtendsIs
<1>5. C = D
  BY <1>1, <1>4
<1> QED
  BY <1>5 DEF C, D

\* A head is signed only on top of all the others.
LEMMA SignedExtends ==
  ASSUME Types, Ordered, Agreed, SignsHead
  PROVE  \A g \in heads : Extends(g, chain)
<1> DEFINE new == Newest(heads)
<1>1. Longest(new, heads) /\ heads # {}
  BY NewestIs DEF Ordered, Longest
<1>2. new \in heads /\ \A g \in heads : Len(g) <= Len(new)
  BY <1>1 DEF Longest
<1>3. Consistent(new, chain)
  BY <1>1 DEF SignsHead
<1> HIDE DEF new
<1>4. chain \in Seq(Pulse) /\ chain # <<>> /\ \A g \in heads : g \in Seq(Pulse) /\ g # <<>>
  BY DEF Types, Chains
<1>5. Extends(new, chain)
  BY <1>2, <1>3, <1>4, ConsistentIsExtends
<1> SUFFICES ASSUME NEW g \in heads PROVE Extends(g, chain)
  OBVIOUS
<1>6. Comparable(g, new)
  BY <1>2 DEF Agreed
<1>7. Extends(g, new)
  BY <1>2, <1>4, <1>6, LongerExtends
<1> QED
  BY <1>2, <1>4, <1>5, <1>7, ExtendsOn

LEMMA AgreedKept ==
  ASSUME Types, Ordered, Agreed, [Next]_vars
  PROVE  Agreed'
<1> USE DEF Agreed
<1>1. CASE WriteNumbered
  <2>1. UNCHANGED lookers /\ heads' = heads \cup {chain} /\ SignsHead
    BY <1>1 DEF WriteNumbered
  <2>2. \A g \in heads : Extends(g, chain)
    BY <2>1, SignedExtends
  <2>3. Extends(chain, chain)
    <3>1. chain \in Seq(Pulse)
      BY DEF Types, Chains
    <3> QED
      BY <3>1, ExtendsItself
  <2>4. \A C, D \in heads' : Comparable(C, D)
    BY <2>1, <2>2, <2>3 DEF Comparable
  <2> QED
    BY <2>1, <2>4 DEF lookers, clientVars, ciVars
<1>2. CASE Mint \/ Damage \/ WriteTop \/ NoCheckpoint \/ Push \/ Kill \/ Round \/ CIStart \/ Fetch \/ Clock \/ Judge \/ UNCHANGED vars
  <2>1. UNCHANGED <<heads, green, cached>>
    BY <1>2 DEF Mint, Damage, WriteTop, NoCheckpoint, Push, Kill, Round, CIStart, Fetch, Clock, Judge, vars, lookers, beaconVars, ciVars, clientVars
  <2> QED
    BY <2>1
<1>3. CASE CIEnd
  <2>1. UNCHANGED <<heads, cached>>
    BY <1>3 DEF CIEnd, beaconVars, clientVars
  <2>2. PICK tree \in ci : green' = green \/ (CheckpointOK(tree) /\ green' = green \cup {tree.chain})
    BY <1>3 DEF CIEnd
  <2>3. CheckpointOK(tree) => tree.chain \in heads
    <3>1. tree \in Trees /\ tree.top \in heads
      BY DEF Types
    <3> QED
      BY <3>1, GreenIsSigned
  <2> QED
    BY <2>1, <2>2, <2>3
<1>4. CASE Check
  <2>1. UNCHANGED <<heads, green>>
    BY <1>4 DEF Check, beaconVars, ciVars
  <2>2. PICK tree \in copies : cached' = cached \/ cached' = {<<>>} \/ cached' = {tree.top}
    BY <1>4 DEF Check
  <2>3. tree.top \in heads
    BY DEF Types
  <2> QED
    BY <2>1, <2>2, <2>3
<1> QED
  BY <1>1, <1>2, <1>3, <1>4 DEF Next

LEMMA KnownAreChains ==
  ASSUME Types
  PROVE  \A X \in Known : X \in Chains /\ \A i \in 1 .. Len(X) : X[i] \in Pulse /\ X[i].v \in Nat
<1>1. \A X \in Known : X \in Chains
  BY DEF Types, Known, Trees
<1> QED
  BY <1>1, PulsesOf

\* A place of the changed chain has an old pulse, at its old place, or a new one.
LEMMA ChangedPlaces ==
  ASSUME Types, NEW k \in 1 .. Len(chain), Changed(k), NEW i \in 1 .. Len(chain')
  PROVE  \/ i \in 1 .. Len(chain) /\ chain'[i] = chain[i] /\ i <= k
         \/ i = k + 1 /\ chain'[i].v = minted + 1 /\ minted' = minted + 1
            /\ (chain'[i].type = "resolution" => chain'[i].of = chain[k].v)
<1>1. Len(chain) \in Nat /\ Len(chain') \in Nat
  BY DEF Types, Chains, Changed
<1> QED
  BY <1>1 DEF Changed

LEMMA PlacedKept ==
  ASSUME Types, Placed, [Next]_vars
  PROVE  Placed'
<1>1. CASE Mint \/ Damage
  <2>1. PICK k \in 1 .. Len(chain) : Changed(k)
    BY <1>1, ChainChanges
  <2>2. UNCHANGED <<published, ci>> /\ minted \in Nat /\ minted' \in Nat /\ minted <= minted'
    <3>1. UNCHANGED <<published, ci>>
      BY <1>1 DEF Mint, Damage, lookers, ciVars
    <3>2. minted \in Nat /\ (minted' = minted \/ minted' = minted + 1)
      BY <2>1 DEF Changed, Types
    <3> QED
      BY <3>1, <3>2
  <2>3. chain \in Known /\ Known' \subseteq Known \cup {chain'}
    BY <2>2 DEF Known
  <2>4. \A X \in Known, i \in 1 .. Len(chain') : \A j \in 1 .. Len(X) : X[j].v = chain'[i].v => i = j
    <3> SUFFICES ASSUME NEW X \in Known, NEW i \in 1 .. Len(chain'), NEW j \in 1 .. Len(X), X[j].v = chain'[i].v
                 PROVE  i = j
      OBVIOUS
    <3>1. X[j].v \in Nat /\ X[j].v <= minted
      BY KnownAreChains DEF Placed, Bonds
    <3>2. chain'[i].v # minted + 1
      BY <2>2, <3>1
    <3>3. i \in 1 .. Len(chain) /\ chain'[i] = chain[i]
      BY <2>1, <3>2, ChangedPlaces
    <3> QED
      BY <2>3, <3>3 DEF Placed
  <2>5. \A i, j \in 1 .. Len(chain') : chain'[i].v = chain'[j].v => i = j
    <3> SUFFICES ASSUME NEW i \in 1 .. Len(chain'), NEW j \in 1 .. Len(chain'), chain'[i].v = chain'[j].v
                 PROVE  i = j
      OBVIOUS
    <3>1. CASE i \in 1 .. Len(chain) /\ chain'[i] = chain[i]
      BY <2>3, <2>4, <3>1
    <3>2. CASE j \in 1 .. Len(chain) /\ chain'[j] = chain[j]
      BY <2>3, <2>4, <3>2
    <3>3. CASE i = k + 1 /\ j = k + 1
      BY <3>3
    <3> QED
      BY <2>1, <3>1, <3>2, <3>3, ChangedPlaces
  <2>6. \A X \in Known : Bonds(X)'
    <3>1. \A X \in Known : \A i \in 1 .. Len(X) : X[i].v <= minted'
      BY <2>2, KnownAreChains DEF Placed, Bonds
    <3> QED
      BY <3>1 DEF Placed, Bonds
  <2>7. \A i \in 1 .. Len(chain') : chain'[i].v <= minted' /\ (chain'[i].type = "resolution" => i > 1 /\ chain'[i - 1].v = chain'[i].of)
    <3> SUFFICES ASSUME NEW i \in 1 .. Len(chain')
                 PROVE  chain'[i].v <= minted' /\ (chain'[i].type = "resolution" => i > 1 /\ chain'[i - 1].v = chain'[i].of)
      OBVIOUS
    <3>1. Bonds(chain) /\ k \in Nat /\ k > 0
      BY <2>3 DEF Placed
    <3>2. CASE i \in 1 .. Len(chain) /\ chain'[i] = chain[i] /\ i <= k
      <4>1. chain[i].v \in Nat /\ chain[i].v <= minted
        BY <2>3, <3>1, <3>2, KnownAreChains DEF Bonds
      <4>2. ASSUME chain[i].type = "resolution" PROVE i > 1 /\ chain'[i - 1].v = chain[i].of
        <5>1. i > 1 /\ chain[i - 1].v = chain[i].of
          BY <3>1, <3>2, <4>2 DEF Bonds
        <5>2. i - 1 \in 1 .. k
          BY <3>1, <3>2, <5>1
        <5>3. chain'[i - 1] = chain[i - 1]
          BY <2>1, <5>2 DEF Changed
        <5> QED
          BY <5>1, <5>3
      <4> QED
        BY <2>2, <3>2, <4>1, <4>2
    <3>3. CASE i = k + 1 /\ chain'[i].v = minted + 1 /\ minted' = minted + 1
               /\ (chain'[i].type = "resolution" => chain'[i].of = chain[k].v)
      <4>1. k \in 1 .. k /\ i - 1 = k /\ i > 1
        BY <3>1, <3>3
      <4>2. chain'[k] = chain[k]
        BY <2>1, <4>1 DEF Changed
      <4> QED
        BY <2>2, <3>3, <4>1, <4>2
    <3> QED
      BY <2>1, <3>2, <3>3, ChangedPlaces
  <2>8. \A X, Y \in Known' : \A i \in 1 .. Len(X), j \in 1 .. Len(Y) : X[i].v = Y[j].v => i = j
    BY <2>3, <2>4, <2>5 DEF Placed
  <2>9. \A X \in Known' : Bonds(X)'
    <3>1. \A X : Bonds(X)' <=> \A i \in 1 .. Len(X) : X[i].v <= minted' /\ (X[i].type = "resolution" => i > 1 /\ X[i - 1].v = X[i].of)
      BY DEF Bonds
    <3> QED
      BY <2>3, <2>6, <2>7, <3>1
  <2> QED
    BY <2>8, <2>9 DEF Placed
<1>2. CASE WriteNumbered \/ WriteTop \/ NoCheckpoint \/ Push \/ Kill \/ Looks \/ Round \/ UNCHANGED vars
  <2>1. Known' \subseteq Known /\ minted' = minted
    <3>1. CASE WriteNumbered \/ WriteTop \/ NoCheckpoint \/ Kill \/ Round \/ UNCHANGED vars
      BY <3>1 DEF WriteNumbered, WriteTop, NoCheckpoint, Kill, Round, vars, beaconVars, lookers, ciVars, Known
    <3>2. CASE Push
      BY <3>2 DEF Push, lookers, ciVars, Known
    <3>3. CASE Looks
      <4>1. UNCHANGED beaconVars
        BY <3>3, LooksLeave
      <4>2. ci' \subseteq ci \cup {published}
        BY <3>3 DEF Looks, CIStart, CIEnd, Fetch, Clock, Judge, Check, ciVars
      <4> QED
        BY <4>1, <4>2 DEF beaconVars, Known
    <3> QED
      BY <1>2, <3>1, <3>2, <3>3
  <2>2. \A X : Bonds(X)' <=> Bonds(X)
    BY <2>1 DEF Bonds
  <2> QED
    BY <2>1, <2>2 DEF Placed
<1> QED
  BY <1>1, <1>2, SomeStep DEF Beacon

LEMMA NowPasses ==
  ASSUME Types, [Next]_vars
  PROVE  now \in Nat /\ now' \in Nat /\ now <= now'
<1>1. now' = now \/ now' = now + 1
  BY SomeStep, LooksLeave, BeaconLeaves DEF Round, vars
<1> QED
  BY <1>1, Bounds DEF Types, Assumed

LEMMA HistoryKept ==
  ASSUME Types, Placed, History, [Next]_vars
  PROVE  History'
<1> USE DEF History
<1>1. now \in Nat /\ now' \in Nat /\ now <= now' /\ minted \in Nat
  BY NowPasses DEF Types
<1>2. \A e \in public : e.at \in Nat /\ e.pulse.v \in Nat
  BY DEF Types, Pulse
<1>3. CASE Mint \/ Damage
  <2>1. PICK k \in 1 .. Len(chain) : Changed(k)
    BY <1>3, ChainChanges
  <2>2. UNCHANGED <<published, public, now>> /\ (minted' = minted \/ minted' = minted + 1)
    BY <1>3, <2>1 DEF Mint, Damage, Changed
  <2>3. ASSUME NEW e \in public, e.pulse \in Pulses(chain') PROVE e.pulse \in Pulses(chain)
    <3>1. PICK i \in 1 .. Len(chain') : e.pulse = chain'[i]
      BY <2>1, <2>3 DEF Pulses, Changed, Chains
    <3>2. chain'[i].v # minted + 1
      BY <1>1, <1>2, <3>1
    <3>3. i \in 1 .. Len(chain) /\ chain'[i] = chain[i]
      BY <2>1, <3>2, ChangedPlaces
    <3> QED
      BY <3>1, <3>3 DEF Pulses, Types, Chains
  <2> QED
    BY <1>1, <1>2, <2>2, <2>3 DEF Pulses
<1>4. CASE Push
  <2>1. /\ UNCHANGED <<chain, minted, now>> /\ published'.chain = chain
        /\ public' = public \cup {[pulse |-> p, at |-> now] : p \in Pulses(chain) \ {e.pulse : e \in public}}
    BY <1>4 DEF Push
  <2>2. \A p \in Pulses(chain) : p.v <= minted
    <3>1. Bonds(chain)
      BY DEF Placed, Known
    <3> QED
      BY <3>1 DEF Bonds, Pulses, Types, Chains
  <2>3. \A e \in public' : e.at <= now' /\ e.pulse.v <= minted'
    BY <1>1, <2>1, <2>2
  <2>4. \A p \in Pulses(chain) : \E e \in public' : e.pulse = p
    <3> SUFFICES ASSUME NEW p \in Pulses(chain), ~\E e \in public : e.pulse = p PROVE \E e \in public' : e.pulse = p
      BY <2>1
    <3>1. [pulse |-> p, at |-> now] \in public'
      BY <2>1
    <3> QED
      BY <3>1
  <2> QED
    BY <2>1, <2>3, <2>4 DEF Pulses
<1>5. CASE WriteNumbered \/ WriteTop \/ NoCheckpoint \/ Kill \/ Looks \/ Round \/ UNCHANGED vars
  <2>1. UNCHANGED <<chain, published, public, minted>>
    BY <1>5, LooksLeave DEF WriteNumbered, WriteTop, NoCheckpoint, Kill, Round, vars, beaconVars
  <2> QED
    BY <1>1, <1>2, <2>1 DEF Pulses
<1> QED
  BY <1>3, <1>4, <1>5, SomeStep DEF Beacon

\* Whatever was published of a commit that CI finds overdue is in the look.
LEMMA LookSees ==
  ASSUME Types, Placed, NEW tree \in ci, NEW i \in DOMAIN tree.chain, ~InFlight(i, tree.chain),
         NEW p \in Pulses(published.chain), p.type = "resolution", p.of = tree.chain[i].v
  PROVE  FALSE
<1> DEFINE X == published.chain
           Y == tree.chain
<1>1. X \in Known /\ Y \in Known /\ X \in Chains /\ Y \in Chains
  BY KnownAreChains DEF Known
<1>2. Len(X) \in Nat /\ DOMAIN X = 1 .. Len(X) /\ DOMAIN Y = 1 .. Len(Y)
  BY <1>1 DEF Chains
<1>3. PICK j \in 1 .. Len(X) : p = X[j]
  BY <1>2 DEF Pulses
<1>4. j > 1 /\ X[j - 1].v = p.of
  BY <1>1, <1>3 DEF Placed, Bonds
<1>5. j - 1 \in 1 .. Len(X)
  BY <1>2, <1>3, <1>4
<1>6. j - 1 = i
  BY <1>1, <1>2, <1>4, <1>5 DEF Placed
<1>7. j = i + 1 /\ i < Len(X)
  BY <1>2, <1>3, <1>6
<1> QED
  BY <1>3, <1>7 DEF InFlight, Resolved

LEMMA LateKept ==
  ASSUME Types, Placed, History, Late, [Next]_vars
  PROVE  Late'
<1> USE DEF Late
<1>1. now \in Nat /\ now' \in Nat /\ now <= now' /\ Deadline \in Nat
  BY NowPasses, Bounds DEF Assumed
<1>2. \A w \in withheld : w.commit.rel \in Nat
  BY DEF Types, Pulse
<1>3. CASE CIEnd
  <2>1. PICK tree \in ci, looked \in BOOLEAN :
          withheld' = withheld \cup {[commit |-> tree.chain[i], looked |-> looked] :
                                     i \in {i \in Overdue(tree.chain) : ~(looked /\ InFlight(i, tree.chain))}}
    BY <1>3 DEF CIEnd
  <2>2. UNCHANGED <<published, public, now>>
    BY <1>3 DEF CIEnd, beaconVars
  <2> SUFFICES ASSUME NEW w \in withheld', w.looked
               PROVE  /\ now > w.commit.rel + Deadline
                      /\ \A e \in public : e.pulse.type = "resolution" /\ e.pulse.of = w.commit.v
                           /\ e.at <= w.commit.rel + Deadline => e.pulse \notin Pulses(published.chain)
    BY <2>2
  <2>3. CASE w \in withheld
    BY <2>3
  <2>4. CASE w \notin withheld
    <3>1. PICK i \in Overdue(tree.chain) : ~(looked /\ InFlight(i, tree.chain)) /\ w = [commit |-> tree.chain[i], looked |-> looked]
      BY <2>1, <2>4
    <3>2. i \in DOMAIN tree.chain /\ ~InFlight(i, tree.chain) /\ w.commit = tree.chain[i] /\ now > w.commit.rel + Deadline
      BY <3>1 DEF Overdue
    <3> QED
      BY <3>2, LookSees
  <2> QED
    BY <2>3, <2>4
<1>4. CASE Push
  <2>1. /\ UNCHANGED <<withheld, now>> /\ published'.chain = chain
        /\ public' = public \cup {[pulse |-> p, at |-> now] : p \in Pulses(chain) \ {e.pulse : e \in public}}
    BY <1>4 DEF Push, lookers, ciVars
  <2> SUFFICES ASSUME NEW w \in withheld, w.looked, NEW e \in public', e.pulse.type = "resolution", e.pulse.of = w.commit.v,
                      e.at <= w.commit.rel + Deadline
               PROVE  e.pulse \notin Pulses(chain)
    BY <2>1
  <2>2. now > w.commit.rel + Deadline
    OBVIOUS
  <2>3. e.at # now
    BY <1>1, <1>2, <2>2
  <2>4. e \in public
    BY <2>1, <2>3
  <2> QED
    BY <2>4 DEF History
<1>5. CASE Mint \/ Damage \/ WriteNumbered \/ WriteTop \/ NoCheckpoint \/ Kill \/ CIStart \/ Fetch \/ Clock \/ Judge \/ Check \/ Round \/ UNCHANGED vars
  <2>1. UNCHANGED <<published, public, withheld>>
    BY <1>5 DEF Mint, Damage, WriteNumbered, WriteTop, NoCheckpoint, Kill, CIStart, Fetch, Clock, Judge, Check, Round, vars, beaconVars, lookers, ciVars
  <2>2. \A w \in withheld : now > w.commit.rel + Deadline => now' > w.commit.rel + Deadline
    BY <1>1, <1>2
  <2> QED
    BY <2>1, <2>2 DEF Pulses
<1> QED
  BY <1>3, <1>4, <1>5 DEF Next

LEMMA SeenKept ==
  ASSUME Types, History, Seen, [Next]_vars
  PROVE  Seen'
<1> USE DEF Seen
<1>1. public \subseteq public'
  <2>1. CASE Push
    BY <2>1 DEF Push
  <2>2. CASE ~Push
    <3>1. CASE Looks
      BY <3>1, LooksLeave DEF beaconVars
    <3>2. CASE ~Looks
      BY <2>2, <3>2, SomeStep DEF Beacon, Mint, Damage, WriteNumbered, WriteTop, NoCheckpoint, Kill, Round, vars, beaconVars
    <3> QED
      BY <3>1, <3>2
  <2> QED
    BY <2>1, <2>2
<1>2. CASE Fetch
  <2>1. watch' = [pc |-> "fetched", chain |-> published.chain]
    BY <1>2 DEF Fetch
  <2>2. \A p \in Pulses(watch'.chain) : \E e \in public' : e.pulse = p
    BY <1>1, <2>1 DEF History
  <2> QED
    BY <2>1, <2>2 DEF Pulses
<1>3. CASE Clock
  <2>1. watch.pc = "fetched" /\ UNCHANGED <<public, now>>
    BY <1>3 DEF Clock, beaconVars
  <2>2. PICK r \in {x \in now - Lag .. now : x >= 0} : watch' = [pc |-> "clocked", chain |-> watch.chain, round |-> r]
    BY <1>3 DEF Clock
  <2>3. now <= r + Lag /\ r \in Nat /\ Lag \in Nat /\ now \in Nat
    BY Bounds DEF Types, Assumed
  <2>4. \A e \in public : e.at \in Nat /\ e.at <= r + Lag
    BY <2>3 DEF History, Types
  <2>5. watch'.pc = "clocked" /\ watch'.chain = watch.chain /\ watch'.round = r
    BY <2>2
  <2>6. \A p \in Pulses(watch'.chain) : \E e \in public' : e.pulse = p /\ e.at <= watch'.round + Lag
    BY <2>1, <2>4, <2>5
  <2> QED
    BY <2>5, <2>6 DEF Pulses
<1>4. CASE Judge
  BY <1>4 DEF Judge, Idle
<1>5. CASE ~Fetch /\ ~Clock /\ ~Judge
  <2>1. watch' = watch
    BY <1>5, SomeStep, BeaconLeaves DEF lookers, watchVars, Looks, CIStart, CIEnd, Check, Round, vars
  <2> QED
    BY <1>1, <2>1 DEF Pulses
<1> QED
  BY <1>2, <1>3, <1>4, <1>5

LEMMA ReceiptIsEarlyKept ==
  ASSUME Types, Seen, ReceiptIsEarly, [Next]_vars
  PROVE  ReceiptIsEarly'
<1> USE DEF ReceiptIsEarly
<1>1. CASE Judge
  <2> DEFINE c == watch.chain
             r == watch.round
  <2>1. watch.pc = "clocked" /\ UNCHANGED public
    BY <1>1 DEF Judge, beaconVars
  <2>2. c \in Chains /\ r \in Nat
    BY <2>1 DEF Types, Watching, Idle
  <2>3. records' \subseteq records \cup UNION {Verdicts(c, i, r) : i \in {k \in DOMAIN c : c[k].type = "commit" /\ ~PulseBad(c, k)}}
    BY <1>1 DEF Judge, LogFetched
  <2> SUFFICES ASSUME NEW x \in records', x.kind = "receipt", x \notin records
               PROVE  \E e \in public : e.pulse = x.commit /\ e.at < x.commit.rel + Lag
    BY <2>1
  <2>4. PICK i \in DOMAIN c : c[i].type = "commit" /\ x \in Verdicts(c, i, r)
    BY <2>3
  <2>5. r < c[i].rel /\ x.commit = c[i]
    <3> HIDE DEF c, r
    <3>1. r < c[i].rel
      BY <2>4 DEF Verdicts
    <3> QED
      BY <2>4, <3>1 DEF Verdicts
  <2>6. c[i].rel \in Nat /\ c[i] \in Pulses(c)
    <3>1. c[i] \in Pulse
      BY <2>2 DEF Chains
    <3> QED
      BY <2>4, <3>1 DEF Pulse, Pulses
  <2>7. PICK e \in public : e.pulse = c[i] /\ e.at <= r + Lag
    BY <2>1, <2>6 DEF Seen
  <2>8. e.at \in Nat /\ Lag \in Nat
    BY Bounds DEF Types, Assumed
  <2> QED
    BY <2>2, <2>5, <2>6, <2>7, <2>8
<1>2. CASE ~Judge
  <2>1. records' = records
    BY <1>2, SomeStep, BeaconLeaves DEF lookers, watchVars, Looks, CIStart, CIEnd, Fetch, Clock, Check, Round, vars
  <2>2. public \subseteq public'
    <3>1. CASE Looks
      BY <3>1, LooksLeave DEF beaconVars
    <3>2. CASE ~Looks
      BY <3>2, SomeStep DEF Beacon, Mint, Damage, WriteNumbered, WriteTop, NoCheckpoint, Push, Kill, Round, vars, beaconVars
    <3> QED
      BY <3>1, <3>2
  <2> QED
    BY <2>1, <2>2
<1> QED
  BY <1>1, <1>2

\* Two heads of one chain, by a proof made from it.
LEMMA RelativesAre ==
  ASSUME NEW C \in Chains, NEW D \in Chains, NEW pulses \in Seq(Pulse), Extends(C, D), Extends(D, pulses)
  PROVE  Relatives(C, D, pulses)
<1>1. SubSeq(pulses, 1, Len(D)) = D
  BY DEF Extends
<1>2. C \in Seq(Pulse) /\ D \in Seq(Pulse) /\ C # <<>> /\ D # <<>>
  BY DEF Chains
<1>3. Consistent(C, D)
  BY <1>2, ConsistentIsExtends
<1> QED
  BY <1>1, <1>3 DEF Relatives, Consistent

LEMMA Recomputed ==
  ASSUME NEW tree \in Trees, HeadRecomputes(tree)
  PROVE  Extends(tree.top, tree.chain)
<1> DEFINE C == tree.top
           D == tree.chain
<1>1. C \in Seq(Pulse) /\ D \in Seq(Pulse) /\ C # <<>> /\ D # <<>>
  BY DEF Trees, Chains
<1>2. Len(C) <= Len(D) /\ MTH(SubSeq(D, 1, Len(C))) = MTH(C)
  BY DEF HeadRecomputes
<1> HIDE DEF C, D
<1>3. Extends(C, D)
  BY <1>1, <1>2, RootIsPrefix
<1> QED
  BY <1>3 DEF C, D

\* Two heads that were signed, and pulses the newer one is of: a proof is accepted.
LEMMA HeadsRelate ==
  ASSUME Types, Agreed, NEW C \in heads, NEW D \in heads, Len(C) <= Len(D),
         NEW pulses \in Seq(Pulse), Extends(D, pulses)
  PROVE  Extends(C, D) /\ Relatives(C, D, pulses)
<1>1. C \in Chains /\ D \in Chains
  BY DEF Types
<1>2. C \in Seq(Pulse) /\ D \in Seq(Pulse)
  BY <1>1 DEF Chains
<1>3. Comparable(C, D)
  BY DEF Agreed
<1>4. Extends(C, D)
  BY <1>2, <1>3, LongerExtends
<1> QED
  BY <1>1, <1>4, RelativesAre

\* What a copy is told of the head its client has seen before: that it is older.
LEMMA CachedAgrees ==
  ASSUME Types, Agreed, NEW tree \in copies, HeadRecomputes(tree), NEW old \in cached \ {<<>>}, CachedSplit(old, tree)
  PROVE  tree.top # old /\ Extends(tree.top, old)
<1> DEFINE new == tree.top
           T == tree.chain
<1>1. old \in heads /\ new \in heads /\ tree \in Trees
  BY DEF Types, Agreed
<1>2. Extends(new, T) /\ T \in Seq(Pulse)
  BY <1>1, Recomputed DEF Trees, Chains
<1>3. Len(old) > Len(new) \/ ~Relatives(old, new, T)
  BY DEF CachedSplit
<1> HIDE DEF new, T
<1>4. old \in Chains /\ new \in Chains
  BY <1>1 DEF Types
<1>5. old \in Seq(Pulse) /\ new \in Seq(Pulse)
  BY <1>4 DEF Chains
<1>6. Len(old) \in Nat /\ Len(new) \in Nat
  BY <1>5
<1>7. ASSUME Len(old) <= Len(new) PROVE FALSE
  <2>1. Relatives(old, new, T)
    BY <1>1, <1>2, <1>7, HeadsRelate
  <2> QED
    BY <1>3, <1>6, <1>7, <2>1
<1>8. Len(new) <= Len(old) /\ Len(new) # Len(old)
  BY <1>6, <1>7
<1>9. Comparable(new, old)
  BY <1>1 DEF Agreed
<1>10. Extends(new, old)
  BY <1>5, <1>8, <1>9, LongerExtends
<1> QED
  BY <1>8, <1>10 DEF new

\* The site is no split view, when its pulses carry its head and go with the copy's.
LEMMA SiteAgrees ==
  ASSUME Types, Agreed, NEW tree \in copies, NEW site \in copies, HeadRecomputes(tree), HeadRecomputes(site),
         Comparable(tree.chain, site.chain)
  PROVE  ~SiteSplit(tree, site)
<1> DEFINE C == tree.top
           D == site.top
           T == tree.chain
           P == site.chain
           ahead == Len(D) > Len(C)
           older == IF ahead THEN C ELSE D
           newer == IF ahead THEN D ELSE C
           missing == Len(newer) - Len(T)
           pulses == IF missing <= 0 THEN T
                     ELSE IF ahead /\ missing <= MaxAhead THEN ExtendFromSite(tree, site, Len(newer)) ELSE <<>>
<1>1. C \in heads /\ D \in heads /\ T \in Chains /\ P \in Chains
  BY DEF Types, Trees
<1>2. C \in Chains /\ D \in Chains
  BY <1>1 DEF Types
<1>3. C \in Seq(Pulse) /\ D \in Seq(Pulse) /\ T \in Seq(Pulse) /\ P \in Seq(Pulse)
  BY <1>1, <1>2 DEF Chains
<1>4. Len(C) \in Nat /\ Len(D) \in Nat /\ Len(T) \in Nat /\ Len(P) \in Nat
  BY <1>3
<1>5. Extends(C, T) /\ Extends(D, P) /\ Comparable(T, P)
  BY Recomputed DEF Types
<1> SUFFICES ASSUME SiteSplit(tree, site) PROVE FALSE
  OBVIOUS
<1>6. D # C /\ pulses # <<>> /\ ~Relatives(older, newer, pulses)
  BY DEF SiteSplit
<1>7. ExtendFromSite(tree, site, Len(D)) = SubSeq(P, 1, Len(D)) \/ ExtendFromSite(tree, site, Len(D)) = <<>>
  BY DEF ExtendFromSite
<1> DEFINE further == ExtendFromSite(tree, site, Len(D))
<1>8. further = SubSeq(P, 1, Len(D)) \/ further = <<>>
  BY <1>7
<1> HIDE DEF C, D, T, P, further
<1>9. CASE ahead
  <2>1. older = C /\ newer = D /\ Len(C) <= Len(D)
    BY <1>4, <1>9
  <2>2. CASE Len(D) <= Len(T)
    <3>1. missing <= 0
      BY <1>4, <1>9, <2>2
    <3>2. pulses = T
      BY <3>1
    <3>3. Extends(D, T)
      <4>1. CASE Extends(T, P)
        BY <1>3, <1>5, <2>2, <4>1, ExtendsBoth
      <4>2. CASE Extends(P, T)
        BY <1>3, <1>5, <4>2, ExtendsOn
      <4> QED
        BY <1>5, <4>1, <4>2 DEF Comparable
    <3>4. Relatives(C, D, T)
      BY <1>1, <1>3, <2>1, <3>3, HeadsRelate
    <3> QED
      BY <1>6, <2>1, <3>2, <3>4
  <2>3. CASE ~(Len(D) <= Len(T))
    <3>1. ~(missing <= 0)
      BY <1>4, <1>9, <2>3
    <3>2. pulses = further \/ pulses = <<>>
      BY <1>9, <2>1, <3>1 DEF further, D
    <3>3. pulses = D
      <4>1. SubSeq(P, 1, Len(D)) = D
        BY <1>5 DEF Extends
      <4> QED
        BY <1>6, <1>8, <3>2, <4>1
    <3>4. Extends(D, D)
      BY <1>3, ExtendsItself
    <3>5. Relatives(C, D, D)
      BY <1>1, <1>3, <2>1, <3>4, HeadsRelate
    <3> QED
      BY <1>6, <2>1, <3>3, <3>5
  <2> QED
    BY <2>2, <2>3
<1>10. CASE ~ahead
  <2>1. older = D /\ newer = C /\ Len(D) <= Len(C)
    BY <1>4, <1>10
  <2>2. Len(C) <= Len(T)
    BY <1>5 DEF Extends
  <2>3. missing <= 0
    BY <1>4, <1>10, <2>2
  <2>4. pulses = T
    BY <2>3
  <2>5. Relatives(D, C, T)
    BY <1>1, <1>3, <1>5, <2>1, HeadsRelate
  <2> QED
    BY <1>6, <2>1, <2>4, <2>5
<1> QED
  BY <1>9, <1>10

LEMMA JustifiedKept ==
  ASSUME Types, Agreed, Justified, [Next]_vars
  PROVE  Justified'
<1>1. CASE Check
  <2>1. PICK tree \in copies :
          /\ HeadRecomputes(tree)
          /\ \/ UNCHANGED splits
             \/ \E site \in copies : splits' = IF SiteSplit(tree, site) THEN splits \cup {[copy |-> tree, site |-> site]} ELSE splits
          /\ rollbacks' = rollbacks \cup {[copy |-> tree, seen |-> old] : old \in {old \in cached \ {<<>>} : CachedSplit(old, tree)}}
    BY <1>1 DEF Check
  <2>2. ASSUME NEW a \in splits' PROVE ~HeadRecomputes(a.site) \/ ~Comparable(a.copy.chain, a.site.chain)
    <3>1. CASE a \in splits
      BY <3>1 DEF Justified
    <3>2. CASE a \notin splits
      <4>1. PICK site \in copies : SiteSplit(tree, site) /\ a = [copy |-> tree, site |-> site]
        BY <2>1, <2>2, <3>2
      <4>2. ~HeadRecomputes(site) \/ ~Comparable(tree.chain, site.chain)
        BY <2>1, <4>1, SiteAgrees
      <4> QED
        BY <4>1, <4>2
    <3> QED
      BY <3>1, <3>2
  <2>3. ASSUME NEW a \in rollbacks' PROVE a.copy.top # a.seen /\ Extends(a.copy.top, a.seen)
    <3>1. CASE a \in rollbacks
      BY <3>1 DEF Justified
    <3>2. CASE a \notin rollbacks
      <4>1. PICK old \in cached \ {<<>>} : CachedSplit(old, tree) /\ a = [copy |-> tree, seen |-> old]
        BY <2>1, <2>3, <3>2
      <4>2. tree.top # old /\ Extends(tree.top, old)
        BY <2>1, <4>1, CachedAgrees
      <4> QED
        BY <4>1, <4>2
    <3> QED
      BY <3>1, <3>2
  <2> QED
    BY <2>2, <2>3 DEF Justified, HeadRecomputes, Comparable, Extends
<1>2. CASE ~Check
  <2>1. UNCHANGED <<splits, rollbacks>>
    BY <1>2, SomeStep, BeaconLeaves DEF lookers, clientVars, Looks, CIStart, CIEnd, Fetch, Clock, Judge, Round, vars
  <2> QED
    BY <2>1 DEF Justified, HeadRecomputes
<1> QED
  BY <1>1, <1>2

(***************************************************************************)
(* The theorems.                                                           *)
(***************************************************************************)
\* The parts of the invariant hold together, whatever the observers do.
THEOREM Inductive == Spec => []Invariant
<1>1. ASSUME Invariant, [Next]_vars PROVE Invariant'
  <2>1. Types' /\ Ordered' /\ Agreed' /\ Placed'
    BY <1>1, TypesKept, OrderedKept, AgreedKept, PlacedKept DEF Invariant
  <2>2. History' /\ Late' /\ Seen' /\ Justified' /\ ReceiptIsEarly'
    BY <1>1, HistoryKept, LateKept, SeenKept, JustifiedKept, ReceiptIsEarlyKept DEF Invariant
  <2> QED
    BY <2>1, <2>2 DEF Invariant
<1> QED
  BY <1>1, Start, PTL DEF Spec

\* `checkpoint` is one of the numbered heads; while it is not yet written, the newest
\* of them is the chain's (tlog.write_checkpoint).
THEOREM WellTyped == Spec => []ObserversTypeOK
<1>1. ASSUME Invariant PROVE ObserversTypeOK
  <2>1. watch.pc \in {"idle", "fetched", "clocked"}
    BY <1>1 DEF Invariant, Types, Watching, Idle
  <2>2. pc = "noted" => Newest(heads) = chain
    <3> SUFFICES ASSUME pc = "noted" PROVE Newest(heads) = chain
      OBVIOUS
    <3>1. Longest(chain, heads) /\ heads \in SUBSET Chains
      BY <1>1 DEF Invariant, Ordered, Types
    <3>2. ASSUME NEW g \in heads, Len(g) = Len(chain) PROVE g = chain
      <4>1. g \in Seq(Pulse) /\ chain \in Seq(Pulse) /\ Comparable(g, chain)
        BY <1>1, <3>1 DEF Invariant, Agreed, Longest, Types, Chains
      <4>2. Len(g) \in Nat
        BY <4>1
      <4>3. Extends(g, chain)
        BY <3>2, <4>1, <4>2, LongerExtends
      <4>4. \A i \in 1 .. Len(g) : g[i] = chain[i]
        BY <4>1, <4>3, ExtendsIs
      <4> QED
        BY <3>2, <4>1, <4>4
    <3> QED
      BY <3>1, <3>2, NewestIsOnly
  <2>3. \A p \in Pulses(chain) : p.v <= minted
    <3>1. Bonds(chain) /\ DOMAIN chain = 1 .. Len(chain)
      BY <1>1 DEF Invariant, Placed, Known, Types, Chains
    <3> QED
      BY <3>1 DEF Bonds, Pulses
  <2>4. Cardinality(ci) <= 1
    <3>1. CASE ci = {}
      BY <3>1, FS_EmptySet
    <3>2. CASE \E t : ci = {t}
      BY <3>2, FS_Singleton
    <3> QED
      BY <1>1, <3>1, <3>2 DEF Invariant, Types
  <2>5. now <= MaxTime /\ faults <= MaxFaults
    BY <1>1, Bounds DEF Invariant, Types, Assumed
  <2>6. \A e \in public : e.at <= now
    BY <1>1 DEF Invariant, History
  <2> QED
    BY <1>1, <2>1, <2>2, <2>3, <2>4, <2>5, <2>6 DEF ObserversTypeOK, Invariant, Types
<1> QED
  BY <1>1, Inductive, PTL

\* What was signed, what CI passed and what a client keeps are first parts of one
\* another, however often the checkout was damaged; and an alarm has a reason.
THEOREM SignedHeadsAgree == Spec => []HeadsAgree
<1>1. ASSUME Invariant PROVE HeadsAgree
  <2>1. ASSUME NEW C \in heads \cup {<<>>}, NEW D \in heads \cup {<<>>} PROVE Comparable(C, D)
    <3>1. CASE C \in heads /\ D \in heads
      BY <1>1, <3>1 DEF Invariant, Agreed
    <3>2. ASSUME NEW E \in heads \cup {<<>>} PROVE Extends(<<>>, E)
      <4>1. E \in Seq(Pulse)
        <5>1. <<>> \in Seq(Pulse)
          OBVIOUS
        <5>2. E \in heads => E \in Chains
          BY <1>1 DEF Invariant, Types
        <5>3. Chains \subseteq Seq(Pulse)
          BY DEF Chains
        <5> QED
          BY <3>2, <5>1, <5>2, <5>3
      <4> QED
        BY <4>1, NothingExtends
    <3> QED
      BY <2>1, <3>1, <3>2 DEF Comparable
  <2> QED
    BY <1>1, <2>1 DEF HeadsAgree, Invariant, Agreed, Justified
<1> QED
  BY <1>1, Inductive, PTL

\* Being overtaken by a resolution's push is not held against a host (ERR-026).
THEOREM OvertakenIsNotWithheld == Spec => []NoFalseWithheld
<1>1. ASSUME Invariant PROVE NoFalseWithheld
  BY <1>1 DEF Invariant, Late, NoFalseWithheld
<1> QED
  BY <1>1, Inductive, PTL

\* A receipt is for a commit that was public before its round, whatever the watcher's
\* clock and the log did between its two requests.
THEOREM ReceiptsAreEarly == Spec => []ReceiptIsEarly
<1>1. ASSUME Invariant PROVE ReceiptIsEarly
  BY <1>1 DEF Invariant
<1> QED
  BY <1>1, Inductive, PTL

\* Audit paths made from a log prove its leaves, each at its place, and no others.
THEOREM PathsAreRight ==
  ASSUME NEW A, NEW C \in Seq(A), NEW D \in Seq(A), Len(C) <= Len(D)
  PROVE  PathsDecide(C, D)
<1> SUFFICES ASSUME NEW i \in DOMAIN C
             PROVE  VerifyInclusion(Leaf(C[i]), i - 1, Len(D), InclusionPath(i - 1, D), MTH(D)) <=> C[i] = D[i]
  BY DEF PathsDecide
<1> DEFINE m == i - 1
           path == InclusionPath(m, D)
<1>1. m \in Nat /\ m \in 0 .. Len(D) - 1 /\ Len(D) \in Positive /\ m + 1 = i
  BY DEF Positive
<1>2. path \in Seq(Nodes(D))
  BY <1>1, ListsOfNodes DEF InclusionPath
<1> HIDE DEF m
<1>3. VerifyInclusion(Leaf(D[m + 1]), m, Len(D), path, MTH(D))
  BY <1>1, InclusionComplete
<1> HIDE DEF path
<1>4. VerifyInclusion(Leaf(C[i]), m, Len(D), path, MTH(D)) => C[i] = D[m + 1]
  BY <1>1, <1>2, InclusionSound
<1>5. VerifyInclusion(Leaf(C[i]), m, Len(D), path, MTH(D)) <=> C[i] = D[i]
  BY <1>1, <1>3, <1>4
<1> QED
  BY <1>5 DEF m, path

\* Every change of the chain, of any length: proofs are accepted exactly when they should be.
THEOREM ProofsDecide == Spec => TreeDecides
<1> DEFINE Decided ==
      chain' # chain =>
        /\ \A C \in heads \cup {chain'} : Len(C) <= Len(chain') => (Consistent(C, chain') <=> Extends(C, chain'))
        /\ \A C \in {chain, chain'} : Len(C) <= Len(chain') => PathsDecide(C, chain')
<1>1. ASSUME Invariant, Invariant' PROVE Decided
  <2>1. \A C \in heads \cup {chain, chain'} : C \in Seq(Pulse) /\ C # <<>>
    BY <1>1 DEF Invariant, Types, Chains
  <2>2. \A C \in heads \cup {chain'} : Consistent(C, chain') <=> Extends(C, chain')
    BY <2>1, ConsistentIsExtends
  <2>3. \A C \in {chain, chain'} : Len(C) <= Len(chain') => PathsDecide(C, chain')
    BY <2>1, PathsAreRight
  <2> QED
    BY <2>2, <2>3
<1> HIDE DEF Decided
<1>2. [Next]_vars /\ Invariant /\ Invariant' => [Decided]_vars
  BY <1>1
<1>3. Spec => [][Decided]_vars
  BY <1>2, Inductive, PTL DEF Spec
<1> QED
  BY <1>3 DEF TreeDecides, Decided
=============================================================================
