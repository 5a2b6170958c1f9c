--------------------------- MODULE DecisionLogProofs ---------------------------
(***************************************************************************)
(* Proofs about DecisionLog, for any Workers, namespaces, contracts and    *)
(* number of attempts (LogAssumption).                                     *)
(*                                                                         *)
(* The inductive invariant is LogInv.  That the indices stay dense and the *)
(* numbers of a namespace in order rests on what a Worker knows when it    *)
(* inserts (CountsOf): its index is not beyond the table, and if it is the *)
(* next one, so is its number in the namespace, because then nothing was   *)
(* appended between its two COUNTs and its INSERT.                         *)
(***************************************************************************)
EXTENDS DecisionLog, FiniteSetTheorems, TLAPS

-----------------------------------------------------------------------------
(* Rows and their numbers.                                                 *)

\* A numbering of a finite set without repetitions uses every number, and
\* below each element are as many as its number says.
LEMMA RanksCount ==
  ASSUME NEW S, IsFiniteSet(S), NEW a \in Int,
         NEW f \in [S -> a..a + Cardinality(S) - 1],
         \A q, r \in S : f[q] = f[r] => q = r
  PROVE  /\ \A i \in a..a + Cardinality(S) - 1 : \E r \in S : f[r] = i
         /\ \A r \in S : Cardinality({q \in S : f[q] < f[r]}) = f[r] - a
<1> DEFINE T == a..a + Cardinality(S) - 1
<1>1. Cardinality(S) \in Nat
  BY FS_CardinalityType
<1>2. IsFiniteSet(T) /\ Cardinality(T) = Cardinality(S)
  <2> DEFINE b == a + Cardinality(S) - 1
  <2>1. b \in Int
    BY <1>1
  <2>2. (IF a > b THEN 0 ELSE b - a + 1) = Cardinality(S)
    BY <1>1
  <2> HIDE DEF b
  <2>3. IsFiniteSet(a..b) /\ Cardinality(a..b) = Cardinality(S)
    BY <2>1, <2>2, FS_Interval
  <2> QED
    BY <2>3 DEF b
<1>3. f \in Injection(S, T)
  BY DEF Injection, IsInjective
<1>4. f \in Surjection(S, T)
  BY <1>2, <1>3, FS_Injection
<1>5. \A i \in T : \E r \in S : f[r] = i
  BY <1>4 DEF Surjection
<1>6. ASSUME NEW r \in S
      PROVE  Cardinality({q \in S : f[q] < f[r]}) = f[r] - a
  <2> DEFINE B == {q \in S : f[q] < f[r]}
  <2> DEFINE J == a..f[r] - 1
  <2> DEFINE g == [q \in B |-> f[q]]
  <2>1. f[r] \in T
    OBVIOUS
  <2>2. IsFiniteSet(B)
    BY FS_Subset
  <2>3. g \in [B -> J]
    BY <1>1, <2>1
  <2>4. \A q, p \in B : g[q] = g[p] => q = p
    OBVIOUS
  <2>5. ASSUME NEW i \in J PROVE \E q \in B : g[q] = i
    BY <1>1, <1>5, <2>1
  <2>6. g \in Bijection(B, J)
    BY <2>3, <2>4, <2>5 DEF Bijection, Injection, IsInjective, Surjection
  <2>7. Cardinality(J) = Cardinality(B)
    BY <2>2, <2>6, FS_Bijection DEF ExistsBijection
  <2>8. Cardinality(J) = f[r] - a
    BY <1>1, <2>1, FS_Interval
  <2> QED
    BY <2>7, <2>8
<1> QED
  BY <1>5, <1>6

\* The type of the table of entries.
RowsOK == entries \subseteq RowSet /\ IsFiniteSet(entries)

\* A sequence of rows of the log, in its order, from the first one on.
View(l) == \A i \in 1..Len(l) : l[i] \in entries /\ l[i].idx = i - 1

\* leafHashes returns every row, each at its index.
LEMMA LeavesAreView ==
  ASSUME RowsOK, DenseIndices
  PROVE  LeafHashes \in Seq(RowSet) /\ Len(LeafHashes) = Cardinality(entries) /\ View(LeafHashes)
<1> DEFINE f == [r \in entries |-> r.idx]
<1> DEFINE N == Cardinality(entries)
<1>1. N \in Nat
  BY FS_CardinalityType DEF RowsOK
<1>2. f \in [entries -> 0..0 + N - 1]
  BY <1>1 DEF DenseIndices
<1>3. \A q, r \in entries : f[q] = f[r] => q = r
  BY DEF DenseIndices
<1>4. /\ \A i \in 0..N - 1 : \E r \in entries : r.idx = i
      /\ \A r \in entries : Cardinality({q \in entries : q.idx < r.idx}) = r.idx
  <2> HIDE DEF f
  <2>1. /\ \A i \in 0..0 + N - 1 : \E r \in entries : f[r] = i
        /\ \A r \in entries : Cardinality({q \in entries : f[q] < f[r]}) = f[r] - 0
    BY <1>2, <1>3, RanksCount DEF RowsOK
  <2>2. ASSUME NEW r \in entries
        PROVE  {q \in entries : f[q] < f[r]} = {q \in entries : q.idx < r.idx}
    BY DEF f
  <2>3. \A r \in entries : f[r] = r.idx /\ r.idx \in Nat
    BY DEF f, RowsOK, RowSet
  <2>4. \A i \in 0..N - 1 : \E r \in entries : r.idx = i
    BY <1>1, <2>1, <2>3
  <2>5. ASSUME NEW r \in entries PROVE Cardinality({q \in entries : q.idx < r.idx}) = r.idx
    <3>1. Cardinality({q \in entries : f[q] < f[r]}) = f[r] - 0
      BY <2>1
    <3>2. Cardinality({q \in entries : f[q] < f[r]}) = r.idx
      BY <2>3, <3>1
    <3> QED
      BY <2>2, <3>2
  <2> QED
    BY <2>4, <2>5
<1>5. LeafHashes = [i \in 1..N |-> CHOOSE r \in entries : Cardinality({q \in entries : q.idx < r.idx}) = i - 1]
  BY DEF LeafHashes, Ordered
<1>6. ASSUME NEW i \in 1..N
      PROVE  LeafHashes[i] \in entries /\ LeafHashes[i].idx = i - 1
  <2> DEFINE Q(r) == Cardinality({q \in entries : q.idx < r.idx}) = i - 1
  <2>1. \E r \in entries : Q(r)
    BY <1>1, <1>4
  <2>2. LeafHashes[i] = CHOOSE r \in entries : Q(r)
    BY <1>5
  <2>3. LeafHashes[i] \in entries /\ Q(LeafHashes[i])
    BY <2>1, <2>2
  <2> QED
    BY <1>4, <2>3
<1>7. LeafHashes \in [1..N -> RowSet]
  BY <1>5, <1>6 DEF RowsOK
<1>8. LeafHashes \in Seq(RowSet) /\ Len(LeafHashes) = N
  BY <1>1, <1>7
<1> QED
  BY <1>6, <1>8 DEF View

\* The rows of a namespace come back in the order of their numbers 1, 2, ...
LEMMA RowsInOrder ==
  ASSUME RowsOK, DenseIndices, FirstIsAuthoritative, NEW ns
  PROVE  /\ ByNamespace(ns) \in Seq(RowSet)
         /\ Len(ByNamespace(ns)) = Cardinality(InNamespace(ns))
         /\ \A i \in 1..Cardinality(InNamespace(ns)) :
              ByNamespace(ns)[i] \in InNamespace(ns) /\ ByNamespace(ns)[i].seq = i
<1> DEFINE S == InNamespace(ns)
<1> DEFINE f == [r \in S |-> r.seq]
<1> DEFINE N == Cardinality(S)
<1>0. IsFiniteSet(S) /\ S \subseteq RowSet
  BY FS_Subset DEF RowsOK, InNamespace
<1>1. N \in Nat
  BY <1>0, FS_CardinalityType
<1>2. f \in [S -> 1..1 + N - 1]
  <2>1. \A r \in S : r \in entries /\ r.ns = ns
    BY DEF InNamespace
  <2>2. \A r \in S : r.seq \in 1..N
    BY <2>1 DEF FirstIsAuthoritative
  <2> QED
    BY <1>1, <2>2
<1>3. \A q, r \in S : f[q] = f[r] => q = r
  <2> SUFFICES ASSUME NEW q \in S, NEW r \in S, q.seq = r.seq PROVE q = r
    OBVIOUS
  <2>1. ~(q.seq < r.seq) /\ ~(r.seq < q.seq)
    BY <1>0 DEF RowSet
  <2>2. ~(q.idx < r.idx) /\ ~(r.idx < q.idx)
    BY <2>1 DEF FirstIsAuthoritative, InNamespace
  <2>3. q.idx = r.idx
    BY <1>0, <2>2 DEF RowSet
  <2> QED
    BY <2>3 DEF DenseIndices, InNamespace
<1>4. /\ \A i \in 1..N : \E r \in S : r.seq = i
      /\ \A r \in S : Cardinality({q \in S : q.seq < r.seq}) = r.seq - 1
  <2> HIDE DEF f
  <2> HIDE DEF S
  <2>1. /\ \A i \in 1..1 + N - 1 : \E r \in S : f[r] = i
        /\ \A r \in S : Cardinality({q \in S : f[q] < f[r]}) = f[r] - 1
    BY <1>0, <1>2, <1>3, RanksCount
  <2>2. ASSUME NEW r \in S
        PROVE  {q \in S : f[q] < f[r]} = {q \in S : q.seq < r.seq}
    BY DEF f
  <2>3. \A r \in S : f[r] = r.seq
    BY DEF f
  <2>4. \A i \in 1..N : \E r \in S : r.seq = i
    BY <1>1, <2>1, <2>3
  <2>5. ASSUME NEW r \in S PROVE Cardinality({q \in S : q.seq < r.seq}) = r.seq - 1
    <3>1. Cardinality({q \in S : f[q] < f[r]}) = f[r] - 1
      BY <2>1
    <3>2. Cardinality({q \in S : f[q] < f[r]}) = r.seq - 1
      BY <2>3, <3>1
    <3> QED
      BY <2>2, <3>2
  <2> QED
    BY <2>4, <2>5
<1>5. ByNamespace(ns) = [i \in 1..N |-> CHOOSE r \in S : Cardinality({q \in S : q.seq < r.seq}) = i - 1]
  BY DEF ByNamespace, Ordered
<1>6. ASSUME NEW i \in 1..N
      PROVE  ByNamespace(ns)[i] \in S /\ ByNamespace(ns)[i].seq = i
  <2> DEFINE Q(r) == Cardinality({q \in S : q.seq < r.seq}) = i - 1
  <2>1. \E r \in S : Q(r)
    BY <1>4
  <2>2. ByNamespace(ns)[i] = CHOOSE r \in S : Q(r)
    BY <1>5
  <2>3. ByNamespace(ns)[i] \in S /\ Q(ByNamespace(ns)[i])
    BY <2>1, <2>2
  <2>4. ByNamespace(ns)[i].seq \in Nat
    BY <1>0, <2>3 DEF RowSet
  <2> QED
    BY <1>4, <2>3, <2>4
<1>7. ByNamespace(ns) \in [1..N -> RowSet]
  BY <1>0, <1>5, <1>6
<1>8. ByNamespace(ns) \in Seq(RowSet) /\ Len(ByNamespace(ns)) = N
  BY <1>1, <1>7
<1> QED
  BY <1>6, <1>8

\* What holds of the table whatever the Workers do.
TableInv == RowsOK /\ DenseIndices /\ FirstIsAuthoritative /\ AppendedOnce

\* The only change of the table of entries: one row at the end.
Appends(row) ==
  /\ entries' = entries \cup {row}
  /\ row \in RowSet
  /\ row.idx = Cardinality(entries)
  /\ row.seq = Cardinality(InNamespace(row.ns)) + 1
  /\ \A r \in entries : r.ns = row.ns => r.contract # row.contract

\* An appended row is new, and counts once, in the log and in its namespace.
LEMMA AppendCounts ==
  ASSUME TableInv, NEW row, Appends(row)
  PROVE  /\ row \notin entries
         /\ Cardinality(entries) \in Nat
         /\ IsFiniteSet(entries') /\ Cardinality(entries') = Cardinality(entries) + 1
         /\ \A ns : /\ Cardinality(InNamespace(ns)) \in Nat
                    /\ ns # row.ns => InNamespace(ns)' = InNamespace(ns)
                    /\ ns = row.ns => Cardinality(InNamespace(ns)') = Cardinality(InNamespace(ns)) + 1
<1>1. Cardinality(entries) \in Nat
  BY FS_CardinalityType DEF TableInv, RowsOK
<1>2. row \notin entries
  BY <1>1 DEF Appends, TableInv, DenseIndices
<1>3. IsFiniteSet(entries') /\ Cardinality(entries') = Cardinality(entries) + 1
  BY <1>2, FS_AddElement DEF TableInv, RowsOK, Appends
<1>4. ASSUME NEW ns
      PROVE  /\ Cardinality(InNamespace(ns)) \in Nat
             /\ ns # row.ns => InNamespace(ns)' = InNamespace(ns)
             /\ ns = row.ns => Cardinality(InNamespace(ns)') = Cardinality(InNamespace(ns)) + 1
  <2>1. IsFiniteSet(InNamespace(ns))
    BY FS_Subset DEF TableInv, RowsOK, InNamespace
  <2>2. Cardinality(InNamespace(ns)) \in Nat
    BY <2>1, FS_CardinalityType
  <2>3. ASSUME ns # row.ns PROVE InNamespace(ns)' = InNamespace(ns)
    BY <2>3 DEF Appends, InNamespace
  <2>4. ASSUME ns = row.ns
        PROVE  Cardinality(InNamespace(ns)') = Cardinality(InNamespace(ns)) + 1
    <3>1. InNamespace(ns)' = InNamespace(ns) \cup {row}
      BY <2>4 DEF Appends, InNamespace
    <3>2. row \notin InNamespace(ns)
      BY <1>2 DEF InNamespace
    <3> QED
      BY <2>1, <3>1, <3>2, FS_AddElement
  <2> QED
    BY <2>2, <2>3, <2>4
<1> QED
  BY <1>1, <1>2, <1>3, <1>4

\* The order, density and uniqueness of the rows outlast an appended row.
LEMMA AppendKeepsTable ==
  ASSUME TableInv, NEW row, Appends(row)
  PROVE  TableInv'
<1> DEFINE N == Cardinality(entries)
<1>0. N \in Nat /\ row \notin entries /\ IsFiniteSet(entries') /\ Cardinality(entries') = N + 1
  BY AppendCounts
<1>1. RowsOK'
  BY <1>0 DEF TableInv, RowsOK, Appends
<1>2. \A r \in entries : r.idx \in 0..N - 1
  BY DEF TableInv, DenseIndices
<1>3. DenseIndices'
  <2>1. ASSUME NEW i \in 0..N PROVE \E r \in entries' : r.idx = i
    <3>1. CASE i = N
      BY <3>1 DEF Appends
    <3>2. CASE i # N
      <4>1. i \in 0..N - 1
        BY <1>0, <3>2
      <4>2. \E r \in entries : r.idx = i
        BY <4>1 DEF TableInv, DenseIndices
      <4> QED
        BY <4>2 DEF Appends
    <3> QED
      BY <3>1, <3>2
  <2>2. ASSUME NEW r \in entries' PROVE r.idx \in 0..N
    BY <1>0, <1>2 DEF Appends
  <2>3. {r.idx : r \in entries'} = 0..N
    BY <2>1, <2>2
  <2>4. 0..N = 0..Cardinality(entries') - 1
    BY <1>0
  <2>5. ASSUME NEW r \in entries', NEW q \in entries', r.idx = q.idx PROVE r = q
    BY <1>0, <1>2, <2>5 DEF Appends, TableInv, DenseIndices
  <2> QED
    BY <2>3, <2>4, <2>5 DEF DenseIndices
<1>4. FirstIsAuthoritative'
  <2>1. \A r \in entries : r.seq \in 1..Cardinality(InNamespace(r.ns))
    BY DEF TableInv, FirstIsAuthoritative
  <2>2. \A r \in entries : r.ns = row.ns => r.idx < row.idx /\ r.seq < row.seq
    BY <1>0, <1>2, <2>1, AppendCounts DEF Appends
  <2>3. row.idx \in Nat /\ row.seq \in Nat /\ \A r \in entries : r.idx \in Nat /\ r.seq \in Nat
    BY DEF Appends, TableInv, RowsOK, RowSet
  <2>4. ASSUME NEW r \in entries', NEW q \in entries', r.ns = q.ns
        PROVE  r.idx < q.idx <=> r.seq < q.seq
    <3>1. CASE r \in entries /\ q \in entries
      BY <2>4, <3>1 DEF TableInv, FirstIsAuthoritative
    <3>2. CASE r = row /\ q \in entries
      BY <2>2, <2>3, <2>4, <3>2
    <3>3. CASE r \in entries /\ q = row
      BY <2>2, <2>3, <2>4, <3>3
    <3>4. CASE r = row /\ q = row
      BY <2>3, <3>4
    <3> QED
      BY <3>1, <3>2, <3>3, <3>4 DEF Appends
  <2>5. ASSUME NEW r \in entries'
        PROVE  r.seq \in 1..Cardinality(InNamespace(r.ns)')
    <3>1. CASE r \in entries /\ r.ns # row.ns
      BY <2>1, <3>1, AppendCounts
    <3>2. CASE r \in entries /\ r.ns = row.ns
      BY <2>1, <3>2, AppendCounts
    <3>3. CASE r = row
      BY <3>3, AppendCounts DEF Appends
    <3> QED
      BY <3>1, <3>2, <3>3 DEF Appends
  <2> QED
    BY <2>4, <2>5 DEF FirstIsAuthoritative
<1>5. AppendedOnce'
  BY DEF TableInv, AppendedOnce, Appends
<1> QED
  BY <1>1, <1>3, <1>4, <1>5 DEF TableInv

-----------------------------------------------------------------------------
(* What the Workers may rely on.                                           *)

\* The counts a Worker read, against the table as it is.
CountsOf(w) ==
  /\ run[w].base + run[w].attempt <= Cardinality(entries)
  /\ run[w].pc \in {"countns", "insert"} =>
       run[w].base + run[w].attempt <= run[w].n /\ run[w].n <= Cardinality(entries)
  /\ run[w].pc = "insert" /\ run[w].n = Cardinality(entries) =>
       run[w].k = Cardinality(InNamespace(run[w].ask.ns)) + 1
  /\ run[w].pc = "again" /\ Existing(run[w].ask) = {} =>
       run[w].base + run[w].attempt < Cardinality(entries)

\* Submissions and lookups take different ways through the code.
PathOf(w) ==
  /\ run[w].pc \in {"find", "count", "countns", "insert", "again"} => run[w].ask \in Submissions
  /\ run[w].pc = "rows" => run[w].ask \in Lookups
  /\ run[w].pc \in {"leaves", "note", "sign"} => run[w].ask \in Submissions \cup Lookups

\* The rows and leaves a Worker read are rows of the log, and the authority
\* that was named before the request came is the first of them.
ReadsOf(w) ==
  /\ run[w].pc = "rows" =>
       \A r \in run[w].known : r \in entries /\ r.ns = run[w].ask.ns /\ r.seq = 1
  /\ run[w].pc \in {"leaves", "note", "sign"} =>
       /\ \A i \in 1..Len(run[w].rows) : run[w].rows[i] \in entries
       /\ run[w].ask \in Lookups =>
            /\ \A i \in 1..Len(run[w].rows) : run[w].rows[i].seq = i
            /\ \A r \in run[w].known : run[w].rows # <<>> /\ run[w].rows[1] = r
  /\ run[w].pc \in {"note", "sign"} =>
       /\ View(run[w].tree)
       /\ \A i \in 1..Len(run[w].rows) : run[w].rows[i].idx < Len(run[w].tree)

\* Notes, stored or not, are of the log; one is stored under its size.
NotesOfLog ==
  /\ \A s \in DOMAIN checkpoints : Len(checkpoints[s]) = s /\ View(checkpoints[s])
  /\ \A l \in signed : View(l)

\* Whatever was named an authority is number 1 of its namespace.
ToldIsFirst == \A r \in told : r \in entries /\ r.seq = 1

\* A lookup that came after an authority was named gets that one.
AuthorityRepeated ==
  answer.to.kind = "lookup" =>
    \A r \in answer.known : answer.rows # <<>> /\ answer.rows[1] = r

\* The invariant.
WorkersInv == \A w \in Workers : CountsOf(w) /\ PathOf(w) /\ ReadsOf(w)
AnswersInv == NotesOfLog /\ ToldIsFirst /\ AnswersVerify /\ AuthorityRepeated
LogInv == DecisionTypeOK /\ DenseIndices /\ FirstIsAuthoritative /\ AppendedOnce
          /\ WorkersInv /\ AnswersInv

\* The table's part of the invariant.
LEMMA InvTable ==
  ASSUME LogInv
  PROVE  TableInv
BY DEF LogInv, TableInv, DecisionTypeOK, RowsOK

-----------------------------------------------------------------------------
(* What a Worker holds outlasts the steps of the others.                   *)

\* The table of entries stays, or gets a row.
Grows == entries' = entries \/ \E row : Appends(row)

\* What is of the log stays of the log.
LEMMA ViewLasts ==
  ASSUME Grows, NEW l, View(l)
  PROVE  View(l)'
BY DEF Grows, Appends, View

\* An INSERT that no constraint refuses is of the next index.
LEMMA InsertGrows ==
  ASSUME LogInv, NEW w \in Workers, Insert(w)
  PROVE  Grows
<1>1. CASE entries' = entries
  BY <1>1 DEF Grows
<1>2. CASE entries' # entries
  <2>1. /\ entries' = entries \cup {NewRow(w)} /\ ~Conflicts(NewRow(w))
        /\ run[w].pc = "insert"
    BY <1>2 DEF Insert, At
  <2>2. run[w] \in RunStates /\ run[w].ask \in Submissions
    BY <2>1 DEF LogInv, DecisionTypeOK, WorkersInv, PathOf
  <2>3. /\ NewRow(w).idx = run[w].n /\ NewRow(w).ns = run[w].ask.ns
        /\ NewRow(w).seq = run[w].k /\ NewRow(w).contract = run[w].ask.contract
    BY DEF NewRow, Row, Asked
  <2>4. NewRow(w) \in RowSet
    BY <2>2 DEF NewRow, Row, Asked, RowSet, RunStates, Submissions
  <2>5. run[w].n = Cardinality(entries)
    <3>1. Cardinality(entries) \in Nat
      BY InvTable, FS_CardinalityType DEF TableInv, RowsOK
    <3>2. run[w].n \in Nat /\ run[w].n <= Cardinality(entries)
      BY <2>1, <2>2 DEF LogInv, WorkersInv, CountsOf, RunStates
    <3>3. \A r \in entries : r.idx # run[w].n
      BY <2>1, <2>3 DEF Conflicts
    <3>4. run[w].n \notin 0..Cardinality(entries) - 1
      BY <3>3 DEF LogInv, DenseIndices
    <3> QED
      BY <3>1, <3>2, <3>4
  <2>6. run[w].k = Cardinality(InNamespace(run[w].ask.ns)) + 1
    BY <2>1, <2>5 DEF LogInv, WorkersInv, CountsOf
  <2>7. \A r \in entries : r.ns = NewRow(w).ns => r.contract # NewRow(w).contract
    BY <2>1 DEF Conflicts
  <2>8. Appends(NewRow(w))
    BY <2>1, <2>3, <2>4, <2>5, <2>6, <2>7 DEF Appends
  <2> QED
    BY <2>8 DEF Grows
<1> QED
  BY <1>1, <1>2

\* Only Insert touches the table.
LEMMA StepGrows ==
  ASSUME LogInv, [Next]_vars
  PROVE  Grows
<1>1. ASSUME NEW w \in Workers, Insert(w) PROVE Grows
  BY <1>1, InsertGrows
<1>2. QED
  BY <1>1 DEF Next, Serve, Find, CountAll, CountNs, Again, LookupRows, ReadLeaves, ReadNote,
    SignNote, SignError, Vanish, Submit, Lookup, vars, tables, Grows

\* The table keeps its invariant and only gets larger.
LEMMA GrowsKeepsTable ==
  ASSUME TableInv, Grows
  PROVE  /\ TableInv' /\ entries \subseteq entries'
         /\ Cardinality(entries) \in Nat /\ Cardinality(entries') \in Nat
         /\ Cardinality(entries) <= Cardinality(entries')
         /\ Cardinality(entries) = Cardinality(entries') => entries' = entries
<1>1. Cardinality(entries) \in Nat
  BY FS_CardinalityType DEF TableInv, RowsOK
<1>2. CASE entries' = entries
  BY <1>1, <1>2 DEF TableInv, RowsOK, DenseIndices, FirstIsAuthoritative, AppendedOnce, InNamespace
<1>3. ASSUME NEW row, Appends(row)
      PROVE  /\ TableInv' /\ entries \subseteq entries'
             /\ Cardinality(entries') = Cardinality(entries) + 1
  BY <1>3, AppendKeepsTable, AppendCounts DEF Appends
<1> QED
  BY <1>1, <1>2, <1>3 DEF Grows

\* A Worker that does not move keeps what it relies on.
LEMMA BystanderKept ==
  ASSUME LogInv, Grows, NEW v \in Workers, run'[v] = run[v]
  PROVE  CountsOf(v)' /\ PathOf(v)' /\ ReadsOf(v)'
<1>0. /\ CountsOf(v) /\ PathOf(v) /\ ReadsOf(v) /\ run[v] \in RunStates /\ entries \subseteq entries'
      /\ Cardinality(entries) \in Nat /\ Cardinality(entries') \in Nat
      /\ Cardinality(entries) <= Cardinality(entries')
      /\ Cardinality(entries) = Cardinality(entries') => entries' = entries
  BY InvTable, GrowsKeepsTable DEF LogInv, WorkersInv, DecisionTypeOK
<1>1. run[v].base \in Nat /\ run[v].attempt \in Nat /\ run[v].n \in Nat
  BY <1>0, LogAssumption DEF RunStates
<1>2. CountsOf(v)'
  <2>1. run[v].base + run[v].attempt <= Cardinality(entries')
    BY <1>0, <1>1 DEF CountsOf
  <2>2. run[v].pc \in {"countns", "insert"} =>
          run[v].base + run[v].attempt <= run[v].n /\ run[v].n <= Cardinality(entries')
    BY <1>0, <1>1 DEF CountsOf
  <2>3. run[v].pc = "insert" /\ run[v].n = Cardinality(entries') =>
          run[v].k = Cardinality(InNamespace(run[v].ask.ns)') + 1
    <3>1. SUFFICES ASSUME run[v].pc = "insert", run[v].n = Cardinality(entries')
                   PROVE  run[v].k = Cardinality(InNamespace(run[v].ask.ns)') + 1
      OBVIOUS
    <3>2. run[v].n <= Cardinality(entries)
      BY <1>0, <3>1 DEF CountsOf
    <3>3. entries' = entries
      BY <1>0, <3>1, <3>2
    <3>4. InNamespace(run[v].ask.ns)' = InNamespace(run[v].ask.ns)
      BY <3>3 DEF InNamespace
    <3> QED
      BY <1>0, <3>1, <3>3, <3>4 DEF CountsOf
  <2>4. run[v].pc = "again" /\ Existing(run[v].ask)' = {} =>
          run[v].base + run[v].attempt < Cardinality(entries')
    <3>1. Existing(run[v].ask)' = {} => Existing(run[v].ask) = {}
      BY <1>0 DEF Existing, InNamespace
    <3> QED
      BY <1>0, <1>1, <3>1 DEF CountsOf
  <2> QED
    BY <2>1, <2>2, <2>3, <2>4 DEF CountsOf
<1>3. PathOf(v)'
  BY <1>0 DEF PathOf
<1>4. ReadsOf(v)'
  <2>1. View(run[v].tree) => View(run[v].tree)'
    BY ViewLasts
  <2> QED
    BY <1>0, <2>1 DEF ReadsOf
<1> QED
  BY <1>2, <1>3, <1>4

-----------------------------------------------------------------------------
(* Types.                                                                  *)

\* The states and answers that the actions write are of their types: at rest,
LEMMA IdleIsState == Idle \in RunStates /\ NoAnswer.to.kind = "none"
<1>1. NoRequest \in Asks /\ 0 \in 0..MaxAttempts /\ <<>> \in Seq(RowSet)
  BY LogAssumption DEF Asks
<1>2. Idle \in RunStates
  BY <1>1 DEF Idle, RunStates, Labels
<1>3. NoAnswer.to.kind = "none"
  BY DEF NoAnswer, NoRequest
<1> QED
  BY <1>2, <1>3

\* at the start of a request,
LEMMA StartIsState ==
  ASSUME NEW q \in Submissions \cup Lookups, NEW b \in Nat, NEW known \in SUBSET RowSet
  PROVE  /\ [Idle EXCEPT !.pc = "find", !.ask = q, !.base = b] \in RunStates
         /\ [Idle EXCEPT !.pc = "rows", !.ask = q, !.known = known] \in RunStates
<1>1. q \in Asks /\ 0 \in 0..MaxAttempts /\ <<>> \in Seq(RowSet)
  BY LogAssumption DEF Asks
<1> QED
  BY <1>1 DEF Idle, RunStates, Labels

\* and with rows to answer about.
LEMMA FoundIsState ==
  ASSUME NEW x \in RunStates, NEW rs \in Seq(RowSet)
  PROVE  [Idle EXCEPT !.pc = "leaves", !.ask = x.ask, !.known = x.known, !.rows = rs] \in RunStates
<1>1. x.ask \in Asks /\ x.known \in SUBSET RowSet /\ 0 \in 0..MaxAttempts /\ <<>> \in Seq(RowSet)
  BY LogAssumption DEF RunStates
<1> QED
  BY <1>1 DEF Idle, RunStates, Labels

\* A step that gives one Worker a new state.
LEMMA BecomesTyped ==
  ASSUME run \in [Workers -> RunStates], NEW w \in Workers, NEW x \in RunStates,
         run' = [run EXCEPT ![w] = x]
  PROVE  /\ run' \in [Workers -> RunStates] /\ run'[w] = x
         /\ \A v \in Workers : v # w => run'[v] = run[v]
OBVIOUS

\* Found answers about the rows it is given.
LEMMA FoundStep ==
  ASSUME LogInv, NEW w \in Workers, NEW rs \in Seq(RowSet), Found(w, rs)
  PROVE  /\ run' \in [Workers -> RunStates]
         /\ run'[w].pc = "leaves" /\ run'[w].ask = run[w].ask /\ run'[w].known = run[w].known
         /\ run'[w].rows = rs /\ run'[w].base = 0 /\ run'[w].attempt = 0
         /\ \A v \in Workers : v # w => run'[v] = run[v]
<1> DEFINE x == [Idle EXCEPT !.pc = "leaves", !.ask = run[w].ask, !.known = run[w].known, !.rows = rs]
<1>1. x \in RunStates
  BY FoundIsState DEF LogInv, DecisionTypeOK
<1>2. /\ x.pc = "leaves" /\ x.ask = run[w].ask /\ x.known = run[w].known
      /\ x.rows = rs /\ x.base = 0 /\ x.attempt = 0
  BY DEF Idle
<1>3. run' = [run EXCEPT ![w] = x]
  BY DEF Found, Becomes, Asked
<1> HIDE DEF x
<1> QED
  BY <1>1, <1>2, <1>3, BecomesTyped DEF LogInv, DecisionTypeOK

-----------------------------------------------------------------------------
(* The Worker that takes the step.                                         *)

\* The step keeps the types of all Workers, leaves the others alone and its
\* Worker with what its place in the code relies on.
Relied(w) ==
  /\ run' \in [Workers -> RunStates]
  /\ \A v \in Workers : v # w => run'[v] = run[v]
  /\ CountsOf(w)' /\ PathOf(w)' /\ ReadsOf(w)'

\* A Worker that becomes idle relies on nothing.
LEMMA RestRelies ==
  ASSUME LogInv, Grows, NEW w \in Workers, Becomes(w, Idle)
  PROVE  Relied(w)
<1>1. Cardinality(entries') \in Nat
  BY InvTable, GrowsKeepsTable
<1>2. /\ run' \in [Workers -> RunStates] /\ run'[w] = Idle
      /\ \A v \in Workers : v # w => run'[v] = run[v]
  BY IdleIsState, BecomesTyped DEF LogInv, DecisionTypeOK, Becomes
<1> QED
  BY <1>1, <1>2 DEF Relied, Idle, CountsOf, PathOf, ReadsOf

\* A row of the table that answers a submission.
LEMMA FoundRelies ==
  ASSUME LogInv, Grows, NEW w \in Workers, run[w].ask \in Submissions,
         NEW r \in entries', Found(w, <<r>>)
  PROVE  Relied(w)
<1>1. /\ Cardinality(entries') \in Nat
      /\ r \in RowSet
  BY InvTable, GrowsKeepsTable DEF TableInv, RowsOK
<1>2. <<r>> \in Seq(RowSet) /\ Len(<<r>>) = 1 /\ <<r>>[1] = r
  BY <1>1
<1>3. /\ run' \in [Workers -> RunStates]
      /\ run'[w].pc = "leaves" /\ run'[w].ask = run[w].ask /\ run'[w].rows = <<r>>
      /\ run'[w].base = 0 /\ run'[w].attempt = 0
      /\ \A v \in Workers : v # w => run'[v] = run[v]
  BY <1>2, FoundStep
<1>4. run[w].ask \notin Lookups
  BY DEF Submissions, Lookups
<1>5. CountsOf(w)' /\ PathOf(w)'
  BY <1>1, <1>3 DEF CountsOf, PathOf
<1>6. ReadsOf(w)'
  BY <1>2, <1>3, <1>4 DEF ReadsOf
<1> QED
  BY <1>3, <1>5, <1>6 DEF Relied

\* A submission starts with the size of the table.
LEMMA SubmitRelies ==
  ASSUME LogInv, NEW w \in Workers, NEW q \in Submissions, Submit(w, q)
  PROVE  Relied(w)
<1> DEFINE x == [Idle EXCEPT !.pc = "find", !.ask = q, !.base = Cardinality(entries)]
<1>1. Cardinality(entries) \in Nat
  BY InvTable, FS_CardinalityType DEF TableInv, RowsOK
<1>2. x \in RunStates
  BY <1>1, StartIsState
<1>3. x.pc = "find" /\ x.ask = q /\ x.base = Cardinality(entries) /\ x.attempt = 0
  BY DEF Idle
<1>4. run' = [run EXCEPT ![w] = x] /\ entries' = entries
  BY DEF Submit, Becomes, tables
<1> HIDE DEF x
<1>5. /\ run' \in [Workers -> RunStates] /\ run'[w] = x
      /\ \A v \in Workers : v # w => run'[v] = run[v]
  BY <1>2, <1>4, BecomesTyped DEF LogInv, DecisionTypeOK
<1> QED
  BY <1>1, <1>3, <1>4, <1>5 DEF Relied, CountsOf, PathOf, ReadsOf

\* A lookup starts with what had been told of its namespace.
LEMMA LookupRelies ==
  ASSUME LogInv, NEW w \in Workers, NEW q \in Lookups, Lookup(w, q)
  PROVE  Relied(w)
<1> DEFINE known == {r \in told : r.ns = q.ns}
<1> DEFINE x == [Idle EXCEPT !.pc = "rows", !.ask = q, !.known = known]
<1>1. Cardinality(entries) \in Nat
  BY InvTable, FS_CardinalityType DEF TableInv, RowsOK
<1>2. known \in SUBSET RowSet
  BY DEF LogInv, DecisionTypeOK
<1>3. x \in RunStates
  BY <1>2, StartIsState
<1>4. x.pc = "rows" /\ x.ask = q /\ x.known = known /\ x.base = 0 /\ x.attempt = 0
  BY DEF Idle
<1>5. run' = [run EXCEPT ![w] = x] /\ entries' = entries
  BY DEF Lookup, Becomes, tables
<1>6. \A r \in known : r \in entries /\ r.ns = q.ns /\ r.seq = 1
  BY DEF LogInv, AnswersInv, ToldIsFirst
<1> HIDE DEF x, known
<1>7. /\ run' \in [Workers -> RunStates] /\ run'[w] = x
      /\ \A v \in Workers : v # w => run'[v] = run[v]
  BY <1>3, <1>5, BecomesTyped DEF LogInv, DecisionTypeOK
<1> QED
  BY <1>1, <1>4, <1>5, <1>6, <1>7 DEF Relied, CountsOf, PathOf, ReadsOf

\* The statement is there, or the counts come next.
LEMMA FindRelies ==
  ASSUME LogInv, NEW w \in Workers, Find(w)
  PROVE  Relied(w)
<1>0. /\ run[w].pc = "find" /\ run[w].ask \in Submissions /\ run[w] \in RunStates
      /\ entries' = entries /\ CountsOf(w)
  BY DEF Find, At, LogInv, WorkersInv, PathOf, DecisionTypeOK, tables
<1>1. ASSUME NEW r \in Existing(run[w].ask), Found(w, <<r>>) PROVE Relied(w)
  BY <1>0, <1>1, FoundRelies DEF Grows, Existing, InNamespace
<1>2. ASSUME run' = [run EXCEPT ![w].pc = "count"] PROVE Relied(w)
  <2> DEFINE x == [run[w] EXCEPT !.pc = "count"]
  <2>1. x \in RunStates
    BY <1>0 DEF RunStates, Labels
  <2>2. /\ x.pc = "count" /\ x.ask = run[w].ask /\ x.base = run[w].base
        /\ x.attempt = run[w].attempt
    BY <1>0 DEF RunStates
  <2>3. run' = [run EXCEPT ![w] = x]
    BY <1>2
  <2> HIDE DEF x
  <2>4. /\ run' \in [Workers -> RunStates] /\ run'[w] = x
        /\ \A v \in Workers : v # w => run'[v] = run[v]
    BY <2>1, <2>3, BecomesTyped DEF LogInv, DecisionTypeOK
  <2> QED
    BY <1>0, <2>2, <2>4 DEF Relied, CountsOf, PathOf, ReadsOf
<1> QED
  BY <1>1, <1>2 DEF Find, Asked

\* The first COUNT is the size of the table.
LEMMA CountAllRelies ==
  ASSUME LogInv, NEW w \in Workers, CountAll(w)
  PROVE  Relied(w)
<1> DEFINE x == [run[w] EXCEPT !.n = Cardinality(entries), !.pc = "countns"]
<1>0. /\ run[w].pc = "count" /\ run[w].ask \in Submissions /\ run[w] \in RunStates
      /\ entries' = entries /\ CountsOf(w) /\ Cardinality(entries) \in Nat
  BY InvTable, FS_CardinalityType
  DEF CountAll, At, LogInv, WorkersInv, PathOf, DecisionTypeOK, tables, TableInv, RowsOK
<1>1. x \in RunStates
  BY <1>0 DEF RunStates, Labels
<1>2. /\ x.pc = "countns" /\ x.ask = run[w].ask /\ x.base = run[w].base
      /\ x.attempt = run[w].attempt /\ x.n = Cardinality(entries)
  BY <1>0 DEF RunStates
<1>3. run' = [run EXCEPT ![w] = x]
  BY DEF CountAll
<1> HIDE DEF x
<1>4. /\ run' \in [Workers -> RunStates] /\ run'[w] = x
      /\ \A v \in Workers : v # w => run'[v] = run[v]
  BY <1>1, <1>3, BecomesTyped DEF LogInv, DecisionTypeOK
<1> QED
  BY <1>0, <1>2, <1>4 DEF Relied, CountsOf, PathOf, ReadsOf

\* The second COUNT is right if nothing was appended since the first.
LEMMA CountNsRelies ==
  ASSUME LogInv, NEW w \in Workers, CountNs(w)
  PROVE  Relied(w)
<1> DEFINE k == Cardinality(InNamespace(run[w].ask.ns)) + 1
<1> DEFINE x == [run[w] EXCEPT !.k = k, !.pc = "insert"]
<1>0. /\ run[w].pc = "countns" /\ run[w].ask \in Submissions /\ run[w] \in RunStates
      /\ entries' = entries /\ CountsOf(w)
  BY DEF CountNs, At, LogInv, WorkersInv, PathOf, DecisionTypeOK, tables
<1>1. k \in Nat
  <2>1. IsFiniteSet(InNamespace(run[w].ask.ns))
    BY InvTable, FS_Subset DEF TableInv, RowsOK, InNamespace
  <2> QED
    BY <2>1, FS_CardinalityType
<1>3. x.pc = "insert" /\ x.ask = run[w].ask /\ x.base = run[w].base
      /\ x.attempt = run[w].attempt /\ x.n = run[w].n /\ x.k = k
  BY <1>0 DEF RunStates
<1>4. run' = [run EXCEPT ![w] = x]
  BY DEF CountNs, Asked
<1>5. x \in RunStates
  <2> HIDE DEF k
  <2> QED
    BY <1>0, <1>1 DEF RunStates, Labels
<1> HIDE DEF x
<1>6. /\ run' \in [Workers -> RunStates] /\ run'[w] = x
      /\ \A v \in Workers : v # w => run'[v] = run[v]
  BY <1>4, <1>5, BecomesTyped DEF LogInv, DecisionTypeOK
<1>7. k = Cardinality(InNamespace(run[w].ask.ns)') + 1
  BY <1>0, <1>3, <1>6 DEF InNamespace
<1>8. CountsOf(w)'
  <2> HIDE DEF k
  <2> QED
    BY <1>0, <1>3, <1>6, <1>7 DEF CountsOf
<1> QED
  BY <1>0, <1>3, <1>6, <1>8 DEF Relied, PathOf, ReadsOf

\* An INSERT that conflicts was overtaken, or is of a statement that is there.
LEMMA ConflictMeansLess ==
  ASSUME LogInv, NEW w \in Workers, run[w].pc = "insert", Conflicts(NewRow(w)),
         Existing(run[w].ask) = {}
  PROVE  run[w].n < Cardinality(entries)
<1>0. /\ run[w].ask \in Submissions /\ run[w] \in RunStates
      /\ CountsOf(w) /\ Cardinality(entries) \in Nat
  BY InvTable, FS_CardinalityType
  DEF LogInv, WorkersInv, PathOf, DecisionTypeOK, TableInv, RowsOK
<1>1. /\ NewRow(w).idx = run[w].n /\ NewRow(w).ns = run[w].ask.ns
      /\ NewRow(w).seq = run[w].k /\ NewRow(w).contract = run[w].ask.contract
  BY DEF NewRow, Row, Asked
<1>2. PICK r \in entries :
        \/ r.idx = run[w].n
        \/ r.ns = run[w].ask.ns /\ (r.seq = run[w].k \/ r.contract = run[w].ask.contract)
  BY <1>1 DEF Conflicts
<1>3. ~(r.ns = run[w].ask.ns /\ r.contract = run[w].ask.contract)
  BY DEF Existing, InNamespace
<1>4. run[w].n \in Nat /\ run[w].n <= Cardinality(entries)
  BY <1>0 DEF CountsOf, RunStates
<1>5. CASE run[w].n = Cardinality(entries)
  <2>1. run[w].k = Cardinality(InNamespace(run[w].ask.ns)) + 1
    BY <1>0, <1>5 DEF CountsOf
  <2>2. r.idx # run[w].n
    <3>1. r.idx \in 0..Cardinality(entries) - 1
      BY DEF LogInv, DenseIndices
    <3> QED
      BY <1>0, <1>5, <3>1
  <2>3. r.ns = run[w].ask.ns /\ r.seq = run[w].k
    BY <1>2, <1>3, <2>2
  <2>4. r.seq \in 1..Cardinality(InNamespace(r.ns))
    BY DEF LogInv, FirstIsAuthoritative
  <2>5. Cardinality(InNamespace(r.ns)) \in Nat
    <3>1. IsFiniteSet(InNamespace(r.ns))
      BY InvTable, FS_Subset DEF TableInv, RowsOK, InNamespace
    <3> QED
      BY <3>1, FS_CardinalityType
  <2> QED
    BY <2>1, <2>3, <2>4, <2>5
<1> QED
  BY <1>0, <1>4, <1>5

\* An INSERT that is refused without the statement being there was overtaken.
LEMMA InsertRelies ==
  ASSUME LogInv, NEW w \in Workers, Insert(w)
  PROVE  Relied(w)
<1>0. /\ run[w].pc = "insert" /\ run[w].ask \in Submissions /\ run[w] \in RunStates /\ CountsOf(w)
      /\ Cardinality(entries) \in Nat
  BY InvTable, FS_CardinalityType
  DEF Insert, At, LogInv, WorkersInv, PathOf, DecisionTypeOK, TableInv, RowsOK
<1>1. CASE Conflicts(NewRow(w))
  <2> DEFINE x == [run[w] EXCEPT !.pc = "again"]
  <2>1. x \in RunStates
    BY <1>0 DEF RunStates, Labels
  <2>2. /\ x.pc = "again" /\ x.ask = run[w].ask /\ x.base = run[w].base
        /\ x.attempt = run[w].attempt
    BY <1>0 DEF RunStates
  <2>3. run' = [run EXCEPT ![w] = x] /\ entries' = entries
    BY <1>1 DEF Insert
  <2>4. Existing(run[w].ask) = {} => run[w].base + run[w].attempt < Cardinality(entries)
    <3>1. /\ run[w].base + run[w].attempt <= run[w].n
          /\ run[w].base \in Nat /\ run[w].attempt \in Nat /\ run[w].n \in Nat
      BY <1>0, LogAssumption DEF CountsOf, RunStates
    <3>2. Existing(run[w].ask) = {} => run[w].n < Cardinality(entries)
      BY <1>0, <1>1, ConflictMeansLess
    <3> QED
      BY <1>0, <3>1, <3>2
  <2> HIDE DEF x
  <2>5. /\ run' \in [Workers -> RunStates] /\ run'[w] = x
        /\ \A v \in Workers : v # w => run'[v] = run[v]
    BY <2>1, <2>3, BecomesTyped DEF LogInv, DecisionTypeOK
  <2>6. Existing(run[w].ask)' = Existing(run[w].ask)
    BY <2>2, <2>3, <2>5 DEF Existing, InNamespace
  <2>7. CountsOf(w)'
    BY <1>0, <2>2, <2>3, <2>4, <2>5, <2>6 DEF CountsOf
  <2> QED
    BY <1>0, <2>2, <2>5, <2>7 DEF Relied, PathOf, ReadsOf
<1>2. CASE ~Conflicts(NewRow(w))
  BY <1>0, <1>2, InsertGrows, FoundRelies DEF Insert
<1> QED
  BY <1>1, <1>2

\* A turn that is lost is paid for by that append.
LEMMA AgainRelies ==
  ASSUME LogInv, NEW w \in Workers, Again(w)
  PROVE  Relied(w)
<1>0. /\ run[w].pc = "again" /\ run[w].ask \in Submissions /\ run[w] \in RunStates
      /\ entries' = entries /\ CountsOf(w) /\ Cardinality(entries) \in Nat
  BY InvTable, FS_CardinalityType
  DEF Again, At, LogInv, WorkersInv, PathOf, DecisionTypeOK, tables, TableInv, RowsOK
<1>1. ASSUME NEW r \in Existing(run[w].ask), Found(w, <<r>>) PROVE Relied(w)
  BY <1>0, <1>1, FoundRelies DEF Grows, Existing, InNamespace
<1>2. /\ run[w].base \in Nat /\ run[w].attempt \in 0..MaxAttempts
      /\ run[w].attempt \in Nat /\ MaxAttempts \in Nat
  BY <1>0, LogAssumption DEF RunStates
<1>3. ASSUME Existing(run[w].ask) = {}, run[w].attempt + 1 < MaxAttempts,
             run' = [run EXCEPT ![w].attempt = @ + 1, ![w].n = 0, ![w].k = 0, ![w].pc = "count"]
      PROVE  Relied(w)
  <2> DEFINE x == [run[w] EXCEPT !.attempt = @ + 1, !.n = 0, !.k = 0, !.pc = "count"]
  <2>1. x \in RunStates
    <3>1. run[w].attempt + 1 \in 0..MaxAttempts
      BY <1>2, <1>3
    <3> QED
      BY <1>0, <3>1 DEF RunStates, Labels
  <2>2. /\ x.pc = "count" /\ x.ask = run[w].ask /\ x.base = run[w].base
        /\ x.attempt = run[w].attempt + 1
    BY <1>0 DEF RunStates
  <2>3. run' = [run EXCEPT ![w] = x]
    BY <1>3
  <2> HIDE DEF x
  <2>4. /\ run' \in [Workers -> RunStates] /\ run'[w] = x
        /\ \A v \in Workers : v # w => run'[v] = run[v]
    BY <2>1, <2>3, BecomesTyped DEF LogInv, DecisionTypeOK
  <2>5. run[w].base + (run[w].attempt + 1) <= Cardinality(entries)
    <3>1. run[w].base + run[w].attempt < Cardinality(entries)
      BY <1>0, <1>3 DEF CountsOf
    <3> QED
      BY <1>0, <1>2, <3>1
  <2>6. CountsOf(w)'
    BY <1>0, <2>2, <2>4, <2>5 DEF CountsOf
  <2> QED
    BY <1>0, <2>2, <2>4, <2>6 DEF Relied, PathOf, ReadsOf
<1>4. ASSUME Existing(run[w].ask) = {}, run[w].attempt + 1 = MaxAttempts,
             run' = [run EXCEPT ![w].attempt = @ + 1, ![w].pc = "raced"]
      PROVE  Relied(w)
  <2> DEFINE x == [run[w] EXCEPT !.attempt = @ + 1, !.pc = "raced"]
  <2>1. x \in RunStates
    <3>1. run[w].attempt + 1 \in 0..MaxAttempts
      BY <1>2, <1>4
    <3> QED
      BY <1>0, <3>1 DEF RunStates, Labels
  <2>2. x.pc = "raced" /\ x.base = run[w].base /\ x.attempt = run[w].attempt + 1
    BY <1>0 DEF RunStates
  <2>3. run' = [run EXCEPT ![w] = x]
    BY <1>4
  <2> HIDE DEF x
  <2>4. /\ run' \in [Workers -> RunStates] /\ run'[w] = x
        /\ \A v \in Workers : v # w => run'[v] = run[v]
    BY <2>1, <2>3, BecomesTyped DEF LogInv, DecisionTypeOK
  <2>5. run[w].base + (run[w].attempt + 1) <= Cardinality(entries)
    <3>1. run[w].base + run[w].attempt < Cardinality(entries)
      BY <1>0, <1>4 DEF CountsOf
    <3> QED
      BY <1>0, <1>2, <3>1
  <2> QED
    BY <1>0, <2>2, <2>4, <2>5 DEF Relied, CountsOf, PathOf, ReadsOf
<1> QED
  BY <1>1, <1>3, <1>4 DEF Again, Asked

\* The first row of a lookup is the authority, and the one told before.
LEMMA LookupRowsRelies ==
  ASSUME LogInv, NEW w \in Workers, LookupRows(w)
  PROVE  Relied(w)
<1> DEFINE ns == run[w].ask.ns
<1> DEFINE rs == ByNamespace(ns)
<1>0. /\ run[w].pc = "rows" /\ run[w].ask \in Lookups /\ entries' = entries
      /\ ReadsOf(w) /\ Cardinality(entries) \in Nat /\ TableInv
  BY InvTable, FS_CardinalityType
  DEF LookupRows, At, LogInv, WorkersInv, PathOf, tables, TableInv, RowsOK
<1>1. /\ rs \in Seq(RowSet) /\ Len(rs) = Cardinality(InNamespace(ns))
      /\ \A i \in 1..Len(rs) : rs[i] \in InNamespace(ns) /\ rs[i].seq = i
  BY <1>0, RowsInOrder DEF TableInv
<1>2. \A i \in 1..Len(rs) : rs[i] \in entries
  BY <1>1 DEF InNamespace
<1>3. Found(w, rs)
  BY DEF LookupRows, Asked
<1>4. ASSUME NEW r \in run[w].known PROVE rs # <<>> /\ rs[1] = r
  <2>1. r \in entries /\ r.ns = ns /\ r.seq = 1
    BY <1>0 DEF ReadsOf
  <2>2. r \in InNamespace(ns) /\ IsFiniteSet(InNamespace(ns))
    BY <1>0, <2>1, FS_Subset DEF InNamespace, TableInv, RowsOK
  <2>3. Cardinality(InNamespace(ns)) \in Nat /\ Cardinality(InNamespace(ns)) # 0
    BY <2>2, FS_CardinalityType, FS_EmptySet
  <2>4. 1 \in 1..Len(rs)
    BY <1>1, <2>3
  <2>5. rs[1] \in entries /\ rs[1].ns = ns /\ rs[1].seq = 1
    BY <1>1, <2>4 DEF InNamespace
  <2>6. rs[1].idx = r.idx
    <3>1. ~(rs[1].idx < r.idx) /\ ~(r.idx < rs[1].idx)
      BY <1>0, <2>1, <2>5 DEF TableInv, FirstIsAuthoritative
    <3>2. rs[1].idx \in Nat /\ r.idx \in Nat
      BY <1>0, <2>1, <2>5 DEF TableInv, RowsOK, RowSet
    <3> QED
      BY <3>1, <3>2
  <2>7. rs[1] = r
    BY <1>0, <2>1, <2>5, <2>6 DEF TableInv, DenseIndices
  <2> QED
    BY <1>1, <2>4, <2>7
<1> HIDE DEF rs
<1>5. /\ run' \in [Workers -> RunStates]
      /\ run'[w].pc = "leaves" /\ run'[w].ask = run[w].ask /\ run'[w].known = run[w].known
      /\ run'[w].rows = rs /\ run'[w].base = 0 /\ run'[w].attempt = 0
      /\ \A v \in Workers : v # w => run'[v] = run[v]
  BY <1>1, <1>3, FoundStep
<1>6. CountsOf(w)' /\ PathOf(w)'
  BY <1>0, <1>5 DEF CountsOf, PathOf
<1>7. ReadsOf(w)'
  BY <1>0, <1>1, <1>2, <1>4, <1>5 DEF ReadsOf
<1> QED
  BY <1>5, <1>6, <1>7 DEF Relied

\* The leaves cover every row the answer is about.
LEMMA ReadLeavesRelies ==
  ASSUME LogInv, NEW w \in Workers, ReadLeaves(w)
  PROVE  Relied(w)
<1> DEFINE l == LeafHashes
<1> DEFINE x == [run[w] EXCEPT !.tree = l, !.pc = "note"]
<1>0. /\ run[w].pc = "leaves" /\ run[w].ask \in Submissions \cup Lookups /\ run[w] \in RunStates
      /\ entries' = entries /\ CountsOf(w) /\ ReadsOf(w) /\ TableInv
  BY InvTable DEF ReadLeaves, At, LogInv, WorkersInv, PathOf, DecisionTypeOK, tables
<1>1. l \in Seq(RowSet) /\ Len(l) = Cardinality(entries) /\ View(l)
  BY <1>0, LeavesAreView DEF TableInv
<1>2. run' = [run EXCEPT ![w] = x]
  BY DEF ReadLeaves
<1> HIDE DEF l
<1>3. x \in RunStates
  BY <1>0, <1>1 DEF RunStates, Labels
<1>4. /\ x.pc = "note" /\ x.ask = run[w].ask /\ x.base = run[w].base /\ x.tree = l
      /\ x.attempt = run[w].attempt /\ x.rows = run[w].rows /\ x.known = run[w].known
  BY <1>0 DEF RunStates
<1> HIDE DEF x
<1>5. /\ run' \in [Workers -> RunStates] /\ run'[w] = x
      /\ \A v \in Workers : v # w => run'[v] = run[v]
  BY <1>2, <1>3, BecomesTyped DEF LogInv, DecisionTypeOK
<1>6. \A i \in 1..Len(l) : l[i] \in entries' /\ l[i].idx = i - 1
  BY <1>0, <1>1 DEF View
<1>7. \A i \in 1..Len(run[w].rows) : run[w].rows[i].idx < Len(l)
  <2>1. \A r \in entries : r.idx \in 0..Cardinality(entries) - 1
    BY <1>0 DEF TableInv, DenseIndices
  <2>2. Cardinality(entries) \in Nat
    BY <1>0, FS_CardinalityType DEF TableInv, RowsOK
  <2>3. \A r \in entries : r.idx < Len(l)
    BY <1>1, <2>1, <2>2
  <2> QED
    BY <1>0, <2>3 DEF ReadsOf
<1>8. CountsOf(w)' /\ PathOf(w)'
  BY <1>0, <1>4, <1>5 DEF CountsOf, PathOf
<1>9. ReadsOf(w)'
  BY <1>0, <1>4, <1>5, <1>6, <1>7 DEF ReadsOf, View
<1> QED
  BY <1>5, <1>8, <1>9 DEF Relied

-----------------------------------------------------------------------------
(* Answers and notes.                                                      *)

HistoryTyped ==
  /\ DOMAIN checkpoints \subseteq Nat
  /\ \A s \in DOMAIN checkpoints : checkpoints[s] \in Seq(RowSet)
  /\ answer \in [to : Asks, known : SUBSET RowSet, rows : Seq(RowSet),
                 note : Seq(RowSet), proof : Seq(RowSet)]
  /\ signed \subseteq Seq(RowSet) /\ told \subseteq RowSet

\* Two sequences that are of the log agree as far as both go.
LEMMA ViewsAgree ==
  ASSUME RowsOK, DenseIndices, NEW l \in Seq(RowSet), NEW m \in Seq(RowSet), View(l), View(m)
  PROVE  /\ \A i \in 1..Len(l) : i <= Len(m) => l[i] = m[i]
         /\ Len(l) = Len(m) => l = m
<1>1. ASSUME NEW i \in 1..Len(l), i <= Len(m) PROVE l[i] = m[i]
  <2>1. i \in 1..Len(m)
    BY <1>1
  <2>2. l[i] \in entries /\ m[i] \in entries /\ l[i].idx = m[i].idx
    BY <2>1 DEF View
  <2> QED
    BY <2>2 DEF DenseIndices
<1>2. ASSUME Len(l) = Len(m) PROVE l = m
  BY <1>1, <1>2
<1> QED
  BY <1>1, <1>2

\* A step that neither signs, stores nor answers.
LEMMA SilentKeeps ==
  ASSUME LogInv, Grows, checkpoints' = checkpoints, Silent
  PROVE  HistoryTyped' /\ AnswersInv'
<1>0. /\ signed' = signed /\ told' = told /\ answer' = NoAnswer
      /\ entries \subseteq entries'
  BY InvTable, GrowsKeepsTable DEF Silent, history
<1>1. HistoryTyped'
  <2>1. NoRequest \in Asks /\ <<>> \in Seq(RowSet)
    BY DEF Asks
  <2>2. NoAnswer \in [to : Asks, known : SUBSET RowSet, rows : Seq(RowSet),
                      note : Seq(RowSet), proof : Seq(RowSet)]
    BY <2>1 DEF NoAnswer
  <2> QED
    BY <1>0, <2>2 DEF HistoryTyped, LogInv, DecisionTypeOK
<1>2. NotesOfLog'
  <2>1. \A s \in DOMAIN checkpoints : View(checkpoints[s])'
    BY ViewLasts DEF LogInv, AnswersInv, NotesOfLog
  <2>2. \A l \in signed : View(l)'
    BY ViewLasts DEF LogInv, AnswersInv, NotesOfLog
  <2> QED
    BY <1>0, <2>1, <2>2 DEF LogInv, AnswersInv, NotesOfLog
<1>3. ToldIsFirst'
  BY <1>0 DEF LogInv, AnswersInv, ToldIsFirst
<1>4. AnswersVerify' /\ AuthorityRepeated'
  BY <1>0, IdleIsState DEF AnswersVerify, AuthorityRepeated, NoAnswer
<1> QED
  BY <1>1, <1>2, <1>3, <1>4 DEF AnswersInv

\* An answer with a note that is of the tree the Worker read.
LEMMA AnswerKeeps ==
  ASSUME LogInv, NEW w \in Workers, run[w].pc \in {"note", "sign"}, entries' = entries,
         Answer(w, run[w].tree)
  PROVE  /\ answer' \in [to : Asks, known : SUBSET RowSet, rows : Seq(RowSet),
                         note : Seq(RowSet), proof : Seq(RowSet)]
         /\ told' \subseteq RowSet
         /\ ToldIsFirst' /\ AnswersVerify' /\ AuthorityRepeated'
<1> DEFINE rows == run[w].rows
<1> DEFINE tree == run[w].tree
<1>0. /\ run[w] \in RunStates /\ PathOf(w) /\ ReadsOf(w) /\ RowsOK /\ DenseIndices
      /\ told \subseteq RowSet
  BY InvTable DEF LogInv, DecisionTypeOK, WorkersInv, TableInv
<1>1. /\ run[w].ask \in Asks /\ run[w].known \in SUBSET RowSet
      /\ rows \in Seq(RowSet) /\ tree \in Seq(RowSet)
  BY <1>0 DEF RunStates
<1>2. /\ run[w].ask \in Submissions \cup Lookups
      /\ \A i \in 1..Len(rows) : rows[i] \in entries /\ rows[i].idx < Len(tree)
      /\ View(tree)
      /\ run[w].ask \in Lookups =>
           /\ \A i \in 1..Len(rows) : rows[i].seq = i
           /\ \A r \in run[w].known : rows # <<>> /\ rows[1] = r
  BY <1>0 DEF PathOf, ReadsOf
<1>3. answer' = [to |-> run[w].ask, known |-> run[w].known, rows |-> rows,
                 note |-> tree, proof |-> tree]
  BY DEF Answer, Asked
<1>4. told' = told \cup Authorities(w)
  BY DEF Answer
<1>5. DOMAIN rows = 1..Len(rows)
  BY <1>1
<1>6. \A r \in Authorities(w) : r \in entries /\ r.seq = 1
  <2>1. run[w].ask.kind = "submit" <=> run[w].ask \notin Lookups
    BY <1>2 DEF Submissions, Lookups
  <2>2. ASSUME NEW j \in 1..Len(rows),
               IF run[w].ask.kind = "submit" THEN rows[j].seq = 1 ELSE j = 1
        PROVE  rows[j] \in entries /\ rows[j].seq = 1
    BY <1>2, <2>1, <2>2
  <2> QED
    BY <1>5, <2>2 DEF Authorities, Asked
<1> HIDE DEF rows, tree
<1>7. answer' \in [to : Asks, known : SUBSET RowSet, rows : Seq(RowSet),
                   note : Seq(RowSet), proof : Seq(RowSet)]
  BY <1>1, <1>3
<1>8. told' \subseteq RowSet /\ ToldIsFirst'
  BY <1>0, <1>4, <1>6 DEF RowsOK, ToldIsFirst, LogInv, AnswersInv
<1>9. AnswersVerify'
  <2>1. ASSUME NEW i \in 1..Len(rows)
        PROVE  rows[i].idx < Len(tree) /\ tree[rows[i].idx + 1] = rows[i]
    <3>1. rows[i] \in entries /\ rows[i].idx < Len(tree) /\ rows[i].idx \in Nat
      BY <1>0, <1>2 DEF RowsOK, RowSet
    <3>2. rows[i].idx + 1 \in 1..Len(tree)
      BY <1>1, <3>1
    <3>3. tree[rows[i].idx + 1] \in entries /\ tree[rows[i].idx + 1].idx = rows[i].idx
      BY <1>2, <3>1, <3>2 DEF View
    <3> QED
      BY <1>0, <3>1, <3>3 DEF DenseIndices
  <2> QED
    BY <1>3, <1>5, <2>1 DEF AnswersVerify
<1>10. AuthorityRepeated'
  <2>1. run[w].ask.kind = "lookup" => run[w].ask \in Lookups
    BY <1>2 DEF Submissions, Lookups
  <2> QED
    BY <1>2, <1>3, <2>1 DEF AuthorityRepeated
<1> QED
  BY <1>7, <1>8, <1>9, <1>10

\* A stored note of the size of the leaves is of these leaves.
LEMMA ReadNoteKeeps ==
  ASSUME LogInv, NEW w \in Workers, ReadNote(w)
  PROVE  Relied(w) /\ HistoryTyped' /\ AnswersInv'
<1> DEFINE tree == run[w].tree
<1>0. /\ run[w].pc = "note" /\ run[w] \in RunStates /\ PathOf(w) /\ ReadsOf(w) /\ CountsOf(w)
      /\ entries' = entries /\ checkpoints' = checkpoints
      /\ RowsOK /\ DenseIndices /\ HistoryTyped /\ NotesOfLog
  BY InvTable
  DEF ReadNote, At, tables, LogInv, DecisionTypeOK, WorkersInv, TableInv, HistoryTyped, AnswersInv
<1>1. Grows
  BY <1>0 DEF Grows
<1>2. ASSUME NEW note \in StoredNotes(w), Answer(w, note), signed' = signed
      PROVE  Relied(w) /\ HistoryTyped' /\ AnswersInv'
  <2>1. note = tree
    <3>1. note \in Seq(RowSet) /\ View(note) /\ Len(note) = Len(tree)
      BY <1>0 DEF StoredNotes, HistoryTyped, NotesOfLog
    <3>2. tree \in Seq(RowSet) /\ View(tree)
      BY <1>0 DEF RunStates, ReadsOf
    <3> QED
      BY <1>0, <3>1, <3>2, ViewsAgree
  <2>2. /\ answer' \in [to : Asks, known : SUBSET RowSet, rows : Seq(RowSet),
                        note : Seq(RowSet), proof : Seq(RowSet)]
        /\ told' \subseteq RowSet
        /\ ToldIsFirst' /\ AnswersVerify' /\ AuthorityRepeated'
    BY <1>0, <1>2, <2>1, AnswerKeeps
  <2>3. HistoryTyped'
    BY <1>0, <1>2, <2>2 DEF HistoryTyped
  <2>4. NotesOfLog'
    BY <1>0, <1>2 DEF NotesOfLog, View
  <2>5. Relied(w)
    BY <1>1, <1>2, RestRelies DEF Answer
  <2> QED
    BY <2>2, <2>3, <2>4, <2>5 DEF AnswersInv
<1>3. ASSUME run' = [run EXCEPT ![w].pc = "sign"], Silent
      PROVE  Relied(w) /\ HistoryTyped' /\ AnswersInv'
  <2> DEFINE x == [run[w] EXCEPT !.pc = "sign"]
  <2>1. x \in RunStates
    BY <1>0 DEF RunStates, Labels
  <2>2. /\ x.pc = "sign" /\ x.ask = run[w].ask /\ x.base = run[w].base
        /\ x.attempt = run[w].attempt /\ x.rows = run[w].rows /\ x.known = run[w].known
        /\ x.tree = run[w].tree
    BY <1>0 DEF RunStates
  <2>3. run' = [run EXCEPT ![w] = x]
    BY <1>3
  <2> HIDE DEF x
  <2>4. /\ run' \in [Workers -> RunStates] /\ run'[w] = x
        /\ \A v \in Workers : v # w => run'[v] = run[v]
    BY <2>1, <2>3, BecomesTyped DEF LogInv, DecisionTypeOK
  <2>5. CountsOf(w)' /\ PathOf(w)'
    BY <1>0, <2>2, <2>4 DEF CountsOf, PathOf
  <2>6. ReadsOf(w)'
    BY <1>0, <2>2, <2>4 DEF ReadsOf, View
  <2>7. Relied(w)
    BY <2>4, <2>5, <2>6 DEF Relied
  <2> QED
    BY <1>0, <1>1, <1>3, <2>7, SilentKeeps
<1> QED
  BY <1>2, <1>3 DEF ReadNote

\* A note that was signed is of the log, whether it was stored or not.
LEMMA SignKeeps ==
  ASSUME LogInv, NEW w \in Workers, run[w].pc = "sign", entries' = entries,
         signed' = signed \cup {run[w].tree},
         \/ checkpoints' = checkpoints
         \/ checkpoints' = [s \in DOMAIN checkpoints \cup {Len(run[w].tree)} |->
                              IF s \in DOMAIN checkpoints THEN checkpoints[s] ELSE run[w].tree]
  PROVE  /\ NotesOfLog' /\ DOMAIN checkpoints' \subseteq Nat
         /\ \A s \in DOMAIN checkpoints' : checkpoints'[s] \in Seq(RowSet)
         /\ signed' \subseteq Seq(RowSet)
<1> DEFINE tree == run[w].tree
<1>0. /\ tree \in Seq(RowSet) /\ View(tree) /\ NotesOfLog
      /\ DOMAIN checkpoints \subseteq Nat /\ signed \subseteq Seq(RowSet)
      /\ \A s \in DOMAIN checkpoints : checkpoints[s] \in Seq(RowSet)
  BY DEF LogInv, DecisionTypeOK, WorkersInv, ReadsOf, AnswersInv, RunStates
<1> HIDE DEF tree
<1>1. ASSUME NEW s \in DOMAIN checkpoints'
      PROVE  \/ s \in DOMAIN checkpoints /\ checkpoints'[s] = checkpoints[s]
             \/ s = Len(tree) /\ checkpoints'[s] = tree
  BY DEF tree
<1>2. \A s \in DOMAIN checkpoints' :
        /\ s \in Nat /\ checkpoints'[s] \in Seq(RowSet)
        /\ Len(checkpoints'[s]) = s /\ View(checkpoints'[s])
  BY <1>0, <1>1 DEF NotesOfLog
<1>3. \A l \in signed' : l \in Seq(RowSet) /\ View(l)
  BY <1>0 DEF NotesOfLog, tree
<1> QED
  BY <1>2, <1>3 DEF NotesOfLog, View

\* A note is signed, stored and given out,
LEMMA SignNoteKeeps ==
  ASSUME LogInv, NEW w \in Workers, SignNote(w)
  PROVE  Relied(w) /\ HistoryTyped' /\ AnswersInv'
<1>1. /\ run[w].pc = "sign" /\ entries' = entries
      /\ signed' = signed \cup {run[w].tree} /\ Answer(w, run[w].tree)
      /\ checkpoints' = [s \in DOMAIN checkpoints \cup {Len(run[w].tree)} |->
                           IF s \in DOMAIN checkpoints THEN checkpoints[s] ELSE run[w].tree]
  BY DEF SignNote, At
<1>2. /\ NotesOfLog' /\ DOMAIN checkpoints' \subseteq Nat
      /\ \A s \in DOMAIN checkpoints' : checkpoints'[s] \in Seq(RowSet)
      /\ signed' \subseteq Seq(RowSet)
  BY <1>1, SignKeeps
<1>3. /\ answer' \in [to : Asks, known : SUBSET RowSet, rows : Seq(RowSet),
                      note : Seq(RowSet), proof : Seq(RowSet)]
      /\ told' \subseteq RowSet
      /\ ToldIsFirst' /\ AnswersVerify' /\ AuthorityRepeated'
  BY <1>1, AnswerKeeps
<1>4. Relied(w)
  BY <1>1, RestRelies DEF Answer, Grows
<1> QED
  BY <1>2, <1>3, <1>4 DEF HistoryTyped, AnswersInv

\* or signed and lost.
LEMMA SignErrorKeeps ==
  ASSUME LogInv, NEW w \in Workers, SignError(w)
  PROVE  Relied(w) /\ HistoryTyped' /\ AnswersInv'
<1>1. /\ run[w].pc = "sign" /\ entries' = entries /\ checkpoints' = checkpoints
      /\ signed' = signed \cup {run[w].tree}
      /\ Becomes(w, Idle) /\ answer' = NoAnswer /\ told' = told
  BY DEF SignError, At, tables
<1>2. /\ NotesOfLog' /\ DOMAIN checkpoints' \subseteq Nat
      /\ \A s \in DOMAIN checkpoints' : checkpoints'[s] \in Seq(RowSet)
      /\ signed' \subseteq Seq(RowSet)
  BY <1>1, SignKeeps
<1>3. /\ answer' \in [to : Asks, known : SUBSET RowSet, rows : Seq(RowSet),
                      note : Seq(RowSet), proof : Seq(RowSet)]
      /\ AnswersVerify' /\ AuthorityRepeated'
  <2>1. NoRequest \in Asks /\ <<>> \in Seq(RowSet)
    BY DEF Asks
  <2> QED
    BY <1>1, <2>1, IdleIsState DEF NoAnswer, AnswersVerify, AuthorityRepeated
<1>4. told' \subseteq RowSet /\ ToldIsFirst'
  BY <1>1 DEF LogInv, DecisionTypeOK, AnswersInv, ToldIsFirst
<1>5. Relied(w)
  BY <1>1, RestRelies DEF Grows
<1> QED
  BY <1>2, <1>3, <1>4, <1>5 DEF HistoryTyped, AnswersInv

\* Every action keeps what its own Worker relies on, and what was answered.
LEMMA ActionKeeps ==
  ASSUME LogInv, Next
  PROVE  HistoryTyped' /\ AnswersInv' /\ \E w \in Workers : Relied(w)
<1>0. Grows
  BY StepGrows
<1>1. PICK w \in Workers :
        \/ Serve(w) \/ Vanish(w)
        \/ \E q \in Submissions : Submit(w, q)
        \/ \E q \in Lookups : Lookup(w, q)
  BY DEF Next
<1> DEFINE Done == Relied(w) /\ HistoryTyped' /\ AnswersInv'
<1>2. ASSUME Relied(w), checkpoints' = checkpoints, Silent PROVE Done
  BY <1>0, <1>2, SilentKeeps
<1>3. ASSUME Find(w) PROVE Done
  BY <1>2, <1>3, FindRelies DEF Find, tables
<1>4. ASSUME CountAll(w) PROVE Done
  BY <1>2, <1>4, CountAllRelies DEF CountAll, tables
<1>5. ASSUME CountNs(w) PROVE Done
  BY <1>2, <1>5, CountNsRelies DEF CountNs, tables
<1>6. ASSUME Insert(w) PROVE Done
  BY <1>2, <1>6, InsertRelies DEF Insert
<1>7. ASSUME Again(w) PROVE Done
  BY <1>2, <1>7, AgainRelies DEF Again, tables
<1>8. ASSUME LookupRows(w) PROVE Done
  BY <1>2, <1>8, LookupRowsRelies DEF LookupRows, tables
<1>9. ASSUME ReadLeaves(w) PROVE Done
  BY <1>2, <1>9, ReadLeavesRelies DEF ReadLeaves, tables
<1>10. ASSUME Vanish(w) PROVE Done
  BY <1>0, <1>2, <1>10, RestRelies DEF Vanish, tables
<1>11. ASSUME NEW q \in Submissions, Submit(w, q) PROVE Done
  BY <1>2, <1>11, SubmitRelies DEF Submit, tables
<1>12. ASSUME NEW q \in Lookups, Lookup(w, q) PROVE Done
  BY <1>2, <1>12, LookupRelies DEF Lookup, tables
<1>13. CASE ReadNote(w) \/ SignNote(w) \/ SignError(w)
  BY <1>13, ReadNoteKeeps, SignNoteKeeps, SignErrorKeeps
<1> QED
  BY <1>1, <1>3, <1>4, <1>5, <1>6, <1>7, <1>8, <1>9, <1>10, <1>11, <1>12, <1>13 DEF Serve

\* Every step keeps the invariant.
LEMMA LogInvKept ==
  ASSUME LogInv, [Next]_vars
  PROVE  LogInv'
<1>1. Grows /\ TableInv'
  BY InvTable, StepGrows, GrowsKeepsTable
<1>2. CASE Next
  <2>1. HistoryTyped' /\ AnswersInv'
    BY <1>2, ActionKeeps
  <2>2. PICK w \in Workers : Relied(w)
    BY <1>2, ActionKeeps
  <2>3. \A v \in Workers : CountsOf(v)' /\ PathOf(v)' /\ ReadsOf(v)'
    BY <1>1, <2>2, BystanderKept DEF Relied
  <2>4. DecisionTypeOK'
    BY <1>1, <2>1, <2>2 DEF DecisionTypeOK, HistoryTyped, TableInv, RowsOK, Relied
  <2> QED
    BY <1>1, <2>1, <2>3, <2>4 DEF LogInv, TableInv, WorkersInv
<1>3. CASE UNCHANGED vars
  <2>0. /\ entries' = entries /\ checkpoints' = checkpoints /\ run' = run /\ answer' = answer
        /\ signed' = signed /\ told' = told
    BY <1>3 DEF vars, tables, history
  <2>1. WorkersInv'
    BY <1>1, <2>0, BystanderKept DEF WorkersInv
  <2>2. AnswersInv'
    BY <2>0 DEF LogInv, AnswersInv, NotesOfLog, View, ToldIsFirst, AnswersVerify, AuthorityRepeated
  <2>3. DecisionTypeOK'
    BY <2>0 DEF LogInv, DecisionTypeOK
  <2> QED
    BY <1>1, <2>1, <2>2, <2>3 DEF LogInv, TableInv
<1> QED
  BY <1>2, <1>3

\* The empty log has it.
LEMMA LogInvInit ==
  ASSUME Init
  PROVE  LogInv
<1>0. entries = {} /\ IsFiniteSet({}) /\ Cardinality({}) = 0
  BY FS_EmptySet DEF Init
<1>1. DecisionTypeOK
  <2>1. NoRequest \in Asks /\ <<>> \in Seq(RowSet)
    BY DEF Asks
  <2>2. NoAnswer \in [to : Asks, known : SUBSET RowSet, rows : Seq(RowSet),
                      note : Seq(RowSet), proof : Seq(RowSet)]
    BY <2>1 DEF NoAnswer
  <2>3. run \in [Workers -> RunStates]
    BY IdleIsState DEF Init
  <2> QED
    BY <1>0, <2>2, <2>3 DEF Init, DecisionTypeOK
<1>2. DenseIndices /\ FirstIsAuthoritative /\ AppendedOnce
  BY <1>0 DEF DenseIndices, FirstIsAuthoritative, AppendedOnce
<1>3. WorkersInv
  BY <1>0 DEF Init, Idle, WorkersInv, CountsOf, PathOf, ReadsOf
<1>4. AnswersInv
  BY IdleIsState DEF Init, AnswersInv, NotesOfLog, ToldIsFirst, AnswersVerify, AuthorityRepeated, NoAnswer
<1> QED
  BY <1>1, <1>2, <1>3, <1>4 DEF LogInv

-----------------------------------------------------------------------------
(* The theorems.                                                           *)

\* The invariant holds always.
LEMMA LogAlways == Spec => []LogInv
BY LogInvInit, LogInvKept, PTL DEF Spec

\* Every variable of the Workers and tables keeps its type.
THEOREM DecisionTypes == Spec => []DecisionTypeOK
BY LogAlways, PTL DEF LogInv

\* However many requests race (appendEntry), the indices have no gap and no
\* repetition.
THEOREM IndicesStayDense == Spec => []DenseIndices
BY LogAlways, PTL DEF LogInv

\* The rows of a namespace are numbered 1, 2, ... in the order of the log.
THEOREM FirstStaysAuthoritative == Spec => []FirstIsAuthoritative
BY LogAlways, PTL DEF LogInv

\* A statement submitted again, concurrently or after a lost answer, is not
\* appended again.
THEOREM RetriesAppendOnce == Spec => []AppendedOnce
BY LogAlways, PTL DEF LogInv

\* Every receipt and every lookup proves inclusion in the tree of its note.
THEOREM ReceiptsVerify == Spec => []AnswersVerify
BY LogAlways, PTL DEF LogInv, AnswersInv

\* Any two notes ever signed (latestCheckpoint) are of one sequence.
THEOREM NotesNeverSplit == Spec => []NoSplitView
<1>1. LogInv => NoSplitView
  <2> SUFFICES ASSUME LogInv, NEW l \in signed, NEW m \in signed
               PROVE  Extends(l, m) \/ Extends(m, l)
    BY DEF NoSplitView
  <2>1. /\ l \in Seq(RowSet) /\ m \in Seq(RowSet) /\ View(l) /\ View(m)
        /\ RowsOK /\ DenseIndices
    BY InvTable DEF LogInv, DecisionTypeOK, AnswersInv, NotesOfLog, TableInv
  <2>2. ASSUME NEW x \in Seq(RowSet), NEW y \in Seq(RowSet), View(x), View(y), Len(x) <= Len(y)
        PROVE  Extends(x, y)
    <3>1. \A i \in 1..Len(x) : x[i] = y[i]
      BY <2>1, <2>2, ViewsAgree
    <3>2. SubSeq(y, 1, Len(x)) = x
      BY <2>2, <3>1
    <3> QED
      BY <2>2, <3>2 DEF Extends
  <2>3. Len(l) <= Len(m) \/ Len(m) <= Len(l)
    BY <2>1
  <2> QED
    BY <2>1, <2>2, <2>3
<1> QED
  BY <1>1, LogAlways, PTL

\* No two answers name two authorities of a namespace, and a lookup after one
\* was named gets that one.
THEOREM AuthorityIsUnique == Spec => []OneAuthority
<1>1. LogInv => OneAuthority
  <2> SUFFICES ASSUME LogInv, NEW r \in told, NEW q \in told, r.ns = q.ns
               PROVE  r = q
    BY DEF OneAuthority, LogInv, AnswersInv, AuthorityRepeated
  <2>1. r \in entries /\ q \in entries /\ r.seq = 1 /\ q.seq = 1
    BY DEF LogInv, AnswersInv, ToldIsFirst
  <2>2. r.idx \in Nat /\ q.idx \in Nat
    BY <2>1 DEF LogInv, DecisionTypeOK, RowSet
  <2>3. ~(r.idx < q.idx) /\ ~(q.idx < r.idx)
    BY <2>1 DEF LogInv, FirstIsAuthoritative
  <2> QED
    BY <2>1, <2>2, <2>3 DEF LogInv, DenseIndices
<1> QED
  BY <1>1, LogAlways, PTL

\* A turn of the retry loop of appendEntry is lost only to an append of
\* somebody else.
THEOREM RetriesArePaid == Spec => []RetriesMeanProgress
<1>1. LogInv => RetriesMeanProgress
  <2> SUFFICES ASSUME LogInv, NEW w \in Workers
               PROVE  run[w].attempt <= Cardinality(entries) - run[w].base
    BY DEF RetriesMeanProgress
  <2>1. run[w].base + run[w].attempt <= Cardinality(entries)
    BY DEF LogInv, WorkersInv, CountsOf
  <2>2. run[w].base \in Nat /\ run[w].attempt \in Nat
    BY LogAssumption DEF LogInv, DecisionTypeOK, RunStates
  <2>3. Cardinality(entries) \in Nat
    BY FS_CardinalityType DEF LogInv, DecisionTypeOK
  <2> QED
    BY <2>1, <2>2, <2>3
<1> QED
  BY <1>1, LogAlways, PTL

-----------------------------------------------------------------------------
(* The write-once promise.                                                 *)

\* In the order of the log, the row with number 1 is the first of its namespace.
LEMMA FirstOfIsAuthority ==
  ASSUME TableInv, NEW r \in entries, r.seq = 1
  PROVE  r \in Promise!FirstOf(r.ns, LeafHashes)
<1> DEFINE l == LeafHashes
<1>1. l \in Seq(RowSet) /\ Len(l) = Cardinality(entries) /\ View(l)
  BY LeavesAreView DEF TableInv
<1>2. r.idx \in Nat /\ r.idx + 1 \in 1..Len(l)
  <2>1. r.idx \in 0..Cardinality(entries) - 1 /\ Cardinality(entries) \in Nat
    BY FS_CardinalityType DEF TableInv, DenseIndices, RowsOK
  <2> QED
    BY <1>1, <2>1
<1>3. l[r.idx + 1] = r
  <2>1. l[r.idx + 1] \in entries /\ l[r.idx + 1].idx = r.idx
    BY <1>1, <1>2 DEF View
  <2> QED
    BY <2>1 DEF TableInv, DenseIndices
<1>4. ASSUME NEW k \in 1..(r.idx + 1) - 1 PROVE l[k].ns # r.ns
  <2>1. k \in 1..Len(l)
    BY <1>2
  <2>2. l[k] \in entries /\ l[k].idx < r.idx
    BY <1>1, <1>2, <2>1 DEF View
  <2>3. SUFFICES ASSUME l[k].ns = r.ns PROVE FALSE
    OBVIOUS
  <2>4. l[k].seq < 1 /\ l[k].seq \in 1..Cardinality(InNamespace(l[k].ns))
    BY <2>2, <2>3 DEF TableInv, FirstIsAuthoritative
  <2> QED
    BY <2>4
<1> HIDE DEF l
<1>5. r.idx + 1 \in DOMAIN l
  BY <1>1, <1>2
<1>6. r \in Promise!FirstOf(r.ns, l)
  BY <1>3, <1>4, <1>5 DEF Promise!FirstOf
<1> QED
  BY <1>6 DEF l

\* An INSERT that takes effect registers one more statement.
LEMMA AppendRegisters ==
  ASSUME TableInv, NEW row, Appends(row), signed' = signed, told' = told,
         LeafHashes' \in Seq(RowSet), Len(LeafHashes') = Cardinality(entries'), View(LeafHashes)'
  PROVE  Promise!Register
<1> DEFINE l == LeafHashes
<1> DEFINE m == LeafHashes'
<1> DEFINE N == Cardinality(entries)
<1>1. l \in Seq(RowSet) /\ Len(l) = N /\ View(l) /\ N \in Nat
  BY LeavesAreView, AppendCounts DEF TableInv
<1>2. m \in Seq(RowSet) /\ Len(m) = N + 1
  BY AppendCounts
<1>3. \A i \in 1..N + 1 : m[i] \in entries' /\ m[i].idx = i - 1
  BY <1>2 DEF View
<1>4. TableInv'
  BY AppendKeepsTable
<1>5. \A i \in 1..N : m[i] = l[i]
  <2> SUFFICES ASSUME NEW i \in 1..N PROVE m[i] = l[i]
    OBVIOUS
  <2>1. i \in 1..N + 1
    BY <1>1
  <2>2. m[i] \in entries' /\ m[i].idx = i - 1
    BY <1>3, <2>1
  <2>3. l[i] \in entries' /\ l[i].idx = i - 1
    BY <1>1 DEF View, Appends
  <2> QED
    BY <1>4, <2>2, <2>3 DEF TableInv, DenseIndices
<1>6. m[N + 1] = row
  <2>1. N + 1 \in 1..N + 1
    BY <1>1
  <2>2. m[N + 1] \in entries' /\ m[N + 1].idx = N
    BY <1>1, <1>3, <2>1
  <2>3. row \in entries' /\ row.idx = N
    BY DEF Appends
  <2> QED
    BY <1>4, <2>2, <2>3 DEF TableInv, DenseIndices
<1>7. \A i \in DOMAIN l : l[i].ns = row.ns => l[i].contract # row.contract
  BY <1>1 DEF View, Appends
<1> HIDE DEF l, m, N
<1>8. SubSeq(m, 1, Len(l)) = l
  BY <1>1, <1>2, <1>5
<1>9. /\ Len(m) = Len(l) + 1 /\ SubSeq(m, 1, Len(l)) = l
      /\ \A i \in DOMAIN l : l[i].ns = m[Len(m)].ns => m[Len(m)].contract # l[i].contract
  BY <1>1, <1>2, <1>6, <1>7, <1>8
<1> QED
  BY <1>9 DEF Promise!Register, l, m

\* Steps that leave the table alone sign what is of the log and name firsts.
LEMMA SameTableCertifies ==
  ASSUME LogInv, LogInv', entries' = entries, signed \subseteq signed', told \subseteq told'
  PROVE  Promise!Certify
<1>1. LeafHashes' = LeafHashes
  BY DEF LeafHashes, Ordered
<1>2. ASSUME NEW l \in signed' PROVE Promise!IsView(l)
  <2>1. l \in Seq(RowSet) /\ \A i \in 1..Len(l) : l[i] \in entries /\ l[i].idx = i - 1
    BY DEF LogInv, DecisionTypeOK, AnswersInv, NotesOfLog, View
  <2>2. View(l)
    BY <2>1 DEF View
  <2>3. /\ RowsOK /\ DenseIndices /\ Cardinality(entries) \in Nat
        /\ LeafHashes \in Seq(RowSet) /\ Len(LeafHashes) = Cardinality(entries)
        /\ View(LeafHashes)
    BY InvTable, LeavesAreView, FS_CardinalityType DEF TableInv, RowsOK
  <2>4. Len(l) <= Len(LeafHashes)
    <3>1. CASE Len(l) = 0
      BY <2>3, <3>1
    <3>2. CASE Len(l) # 0
      <4>1. Len(l) \in 1..Len(l)
        BY <2>1, <3>2
      <4>2. l[Len(l)] \in entries /\ l[Len(l)].idx = Len(l) - 1
        BY <2>1, <4>1
      <4>3. l[Len(l)].idx \in 0..Cardinality(entries) - 1
        BY <2>3, <4>2 DEF DenseIndices
      <4> QED
        BY <2>1, <2>3, <4>2, <4>3
    <3> QED
      BY <3>1, <3>2
  <2>5. \A i \in 1..Len(l) : l[i] = LeafHashes[i]
    BY <2>1, <2>2, <2>3, <2>4, ViewsAgree
  <2>6. l = SubSeq(LeafHashes, 1, Len(l))
    <3> DEFINE m == LeafHashes
    <3>1. /\ m \in Seq(RowSet) /\ Len(l) <= Len(m) /\ \A i \in 1..Len(l) : l[i] = m[i]
      BY <2>3, <2>4, <2>5
    <3> HIDE DEF m
    <3>2. l = SubSeq(m, 1, Len(l))
      BY <2>1, <3>1
    <3> QED
      BY <3>2 DEF m
  <2> QED
    BY <2>4, <2>6 DEF Promise!IsView
<1>3. ASSUME NEW r \in told' PROVE r \in Promise!FirstOf(r.ns, LeafHashes)
  <2>1. r \in entries /\ r.seq = 1
    BY DEF LogInv, AnswersInv, ToldIsFirst
  <2> QED
    BY <2>1, InvTable, FirstOfIsAuthority
<1> QED
  BY <1>1, <1>2, <1>3 DEF Promise!Certify

\* Only an INSERT changes the table, and it neither signs nor answers.
LEMMA StepKinds ==
  ASSUME LogInv, [Next]_vars
  PROVE  \/ entries' = entries /\ signed \subseteq signed' /\ told \subseteq told'
         \/ (\E row : Appends(row)) /\ signed' = signed /\ told' = told
<1>1. ASSUME NEW w \in Workers, Insert(w)
      PROVE  Grows /\ signed' = signed /\ told' = told
  BY <1>1, InsertGrows DEF Insert, Silent, history
<1>2. CASE \E w \in Workers : Insert(w)
  BY <1>1, <1>2 DEF Grows
<1>3. CASE ~ \E w \in Workers : Insert(w)
  BY <1>3 DEF Next, Serve, Find, CountAll, CountNs, Again, LookupRows, ReadLeaves, ReadNote,
    SignNote, SignError, Vanish, Submit, Lookup, Answer, Silent, vars, tables, history
<1> QED
  BY <1>2, <1>3

\* The Workers on their database (decisions.js, schema.sql) implement the
\* write-once log of DECISION-LOG.md.
THEOREM LogKeepsPromise == Spec => KeepsPromise
<1>1. Init => Promise!Init
  <2> SUFFICES ASSUME Init PROVE LeafHashes = <<>> /\ signed = {} /\ told = {}
    BY DEF Promise!Init
  <2>1. TableInv /\ Cardinality(entries) = 0
    BY LogInvInit, InvTable, FS_EmptySet DEF Init
  <2>2. LeafHashes \in Seq(RowSet) /\ Len(LeafHashes) = 0
    BY <2>1, LeavesAreView DEF TableInv
  <2> QED
    BY <2>2 DEF Init
<1>2. (RowsOK /\ DenseIndices =>
         LeafHashes \in Seq(RowSet) /\ Len(LeafHashes) = Cardinality(entries) /\ View(LeafHashes))'
  BY LeavesAreView, PTL
<1>3. LogInv /\ LogInv' /\ [Next]_vars => [Promise!Next]_(Promise!logVars)
  <2> SUFFICES ASSUME LogInv, LogInv', [Next]_vars PROVE Promise!Next
    OBVIOUS
  <2>1. ASSUME NEW row, Appends(row), signed' = signed, told' = told PROVE Promise!Next
    <3>1. TableInv /\ TableInv'
      BY <2>1, InvTable, AppendKeepsTable
    <3> QED
      BY <1>2, <2>1, <3>1, AppendRegisters DEF TableInv, Promise!Next
  <2>2. ASSUME entries' = entries, signed \subseteq signed', told \subseteq told'
        PROVE  Promise!Next
    BY <2>2, SameTableCertifies DEF Promise!Next
  <2> QED
    BY <2>1, <2>2, StepKinds
<1> QED
  BY <1>1, <1>3, LogAlways, PTL DEF Spec, KeepsPromise, Promise!Spec

\* What clients are told (decisions.js: receipts and lookups) verifies against its
\* note and names one authority per namespace, for any Workers and requests.
THEOREM AnswersStaySound == Spec => []AnswersSound
<1>1. AnswersVerify /\ OneAuthority => AnswersSound
  BY DEF AnswersSound
<1> QED
  BY <1>1, ReceiptsVerify, AuthorityIsUnique, PTL

\* The log is one sequence, and what clients are told is a part of it.
THEOREM LogStaysSound == Spec => [](LogSound /\ AnswersSound)
<1>1. DenseIndices /\ FirstIsAuthoritative /\ AppendedOnce /\ NoSplitView /\ AnswersVerify /\ OneAuthority
        => LogSound /\ AnswersSound
  BY DEF LogSound, AnswersSound
<1> QED
  BY <1>1, IndicesStayDense, FirstStaysAuthoritative, RetriesAppendOnce, NotesNeverSplit,
     ReceiptsVerify, AuthorityIsUnique, PTL
=============================================================================
