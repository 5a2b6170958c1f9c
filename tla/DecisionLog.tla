----------------------------- MODULE DecisionLog -----------------------------
(***************************************************************************)
(* notbefore.net/decisions: worker/decisions.js on a D1 database with the  *)
(* tables of worker/schema.sql.                                            *)
(*                                                                         *)
(* Workers are stateless; each one serves one request at a time and any    *)
(* number run at once.  Every `await` on the database is a step of its     *)
(* own, so requests interleave between any two SQL statements; a single    *)
(* statement is atomic.  A hash of a tree is the sequence of its leaves,   *)
(* which is what the hash commits to; a signature of a note is determined  *)
(* by the note (Ed25519).                                                  *)
(*                                                                         *)
(* Failures covered: a Worker is stopped, or its answer lost, anywhere     *)
(* (the client then asks again); the database fails a statement for        *)
(* another reason than a constraint.                                       *)
(* Left out: validation of bodies (a request here is one that passed it),  *)
(* proof / consistency / entry / leaves (reads of what is modelled, with   *)
(* no effect; GET /checkpoint is a lookup that finds no rows).             *)
(***************************************************************************)
EXTENDS Integers, FiniteSets, Sequences

CONSTANTS
  Namespaces,  \* pairs (key_id, decision_id)
  Contracts,   \* contract hashes
  Workers,     \* requests served at the same time
  MaxAttempts, \* 4 in appendEntry
  MaxRows      \* bound: statements in the log

ASSUME LogAssumption == MaxAttempts \in Nat \ {0} /\ MaxRows \in Nat

VARIABLES
  entries,      \* the rows of table entries
  checkpoints,  \* the rows of table checkpoints: size -> note
  run,          \* what each Worker is doing, and what it read so far
  answer,       \* the answer given in the last step, if one was
  signed,       \* history: every note signed
  told          \* history: rows reported as authoritative, in whatever answer

tables  == <<entries, checkpoints>>
history == <<signed, told>>
vars    == <<tables, run, answer, history>>

Row(i, ns, s, c) == [idx |-> i, ns |-> ns, seq |-> s, contract |-> c]
Submissions == [kind : {"submit"}, ns : Namespaces, contract : Contracts]
Lookups     == [kind : {"lookup"}, ns : Namespaces]
NoRequest   == [kind |-> "none"]
NoAnswer    == [to |-> NoRequest, known |-> {}, rows |-> <<>>, note |-> <<>>, proof |-> <<>>]
\* A Worker: its place, its request, the two COUNTs, its turns of the retry
\* loop, the rows its answer is about and the leaves H; base and known are
\* history, the size of the table and what had been told when it started.
Idle == [pc |-> "idle", ask |-> NoRequest, n |-> 0, k |-> 0, attempt |-> 0,
         rows |-> <<>>, tree |-> <<>>, base |-> 0, known |-> {}]

\* ORDER BY of a set of rows on the numbers that rank gives them.
Ordered(rs, rank(_)) ==
  [i \in 1..Cardinality(rs) |->
     CHOOSE r \in rs : Cardinality({q \in rs : rank(q) < rank(r)}) = i - 1]
InNamespace(ns) == {r \in entries : r.ns = ns}
\* leafHashes: SELECT leaf_hash FROM entries ORDER BY idx
LeafHashes == LET idx(r) == r.idx IN Ordered(entries, idx)
\* Mutant: ORDER BY seq_in_ns DESC
ByNamespaceDescending(ns) == LET seq(r) == -r.seq IN Ordered(InNamespace(ns), seq)
\* SELECT ... WHERE key_id = ? AND decision_id = ? ORDER BY seq_in_ns
ByNamespace(ns) == LET seq(r) == r.seq IN Ordered(InNamespace(ns), seq)
\* SELECT ... WHERE key_id = ? AND decision_id = ? AND contract_sha256 = ?
Existing(q) == {r \in InNamespace(q.ns) : r.contract = q.contract}

\* Mutant: no PRIMARY KEY (idx), no UNIQUE (ns, seq_in_ns).
ConflictsOnContractOnly(row) == \E r \in entries : r.ns = row.ns /\ r.contract = row.contract
\* PRIMARY KEY (idx), UNIQUE (ns, seq_in_ns), UNIQUE (ns, contract_sha256)
Conflicts(row) ==
  \E r \in entries : \/ r.idx = row.idx
                     \/ r.ns = row.ns /\ (r.seq = row.seq \/ r.contract = row.contract)

Init ==
  /\ entries = {} /\ checkpoints = [s \in {} |-> <<>>]
  /\ run = [w \in Workers |-> Idle] /\ answer = NoAnswer
  /\ signed = {} /\ told = {}

-----------------------------------------------------------------------------
At(w, l) == run[w].pc = l
Asked(w) == run[w].ask
\* The row a Worker inserts, from the counts it read.
NewRow(w) == Row(run[w].n, Asked(w).ns, run[w].k, Asked(w).contract)
Becomes(w, r) == run' = [run EXCEPT ![w] = r]
\* A step that answers nothing.
Silent == answer' = NoAnswer /\ UNCHANGED history
\* The rows to answer about are known; the counts are of no use any more.
Found(w, rs) ==
  Becomes(w, [Idle EXCEPT !.pc = "leaves", !.ask = Asked(w), !.known = run[w].known, !.rows = rs])

\* A request arrives at a free Worker.
Submit(w, q) ==
  /\ At(w, "idle")
  /\ Cardinality(entries) + Cardinality({v \in Workers : Asked(v).kind = "submit"}) < MaxRows
  /\ Becomes(w, [Idle EXCEPT !.pc = "find", !.ask = q, !.base = Cardinality(entries)])
  /\ Silent /\ UNCHANGED tables
Lookup(w, q) ==
  /\ At(w, "idle")
  /\ Becomes(w, [Idle EXCEPT !.pc = "rows", !.ask = q, !.known = {r \in told : r.ns = q.ns}])
  /\ Silent /\ UNCHANGED tables

\* appendEntry: is the statement already there?
Find(w) ==
  /\ At(w, "find")
  /\ \/ \E r \in Existing(Asked(w)) : Found(w, <<r>>)
     \/ Existing(Asked(w)) = {} /\ run' = [run EXCEPT ![w].pc = "count"]
  /\ Silent /\ UNCHANGED tables

\* Mutant: the index of the last row, not of the next.
CountLast(w) ==
  /\ At(w, "count")
  /\ run' = [run EXCEPT ![w].n = Cardinality(entries) - 1, ![w].pc = "countns"]
  /\ Silent /\ UNCHANGED tables
\* appendEntry: SELECT COUNT(*) FROM entries
CountAll(w) ==
  /\ At(w, "count")
  /\ run' = [run EXCEPT ![w].n = Cardinality(entries), ![w].pc = "countns"]
  /\ Silent /\ UNCHANGED tables

\* appendEntry: SELECT COUNT(*) ... of the namespace, + 1
CountNs(w) ==
  /\ At(w, "countns")
  /\ run' = [run EXCEPT ![w].k = Cardinality(InNamespace(Asked(w).ns)) + 1,
                        ![w].pc = "insert"]
  /\ Silent /\ UNCHANGED tables

\* appendEntry: INSERT.  The constraints are the only arbiter of the race.
Insert(w) ==
  /\ At(w, "insert")
  /\ IF Conflicts(NewRow(w))
       THEN run' = [run EXCEPT ![w].pc = "again"] /\ UNCHANGED entries
       ELSE entries' = entries \cup {NewRow(w)} /\ Found(w, <<NewRow(w)>>)
  /\ Silent /\ UNCHANGED checkpoints

\* Mutant: the index is not read again.
AgainWithOldIndex(w) ==
  /\ At(w, "again")
  /\ \/ \E r \in Existing(Asked(w)) : Found(w, <<r>>)
     \/ /\ Existing(Asked(w)) = {} /\ run[w].attempt + 1 < MaxAttempts
        /\ run' = [run EXCEPT ![w].attempt = @ + 1, ![w].k = 0, ![w].pc = "countns"]
     \/ /\ Existing(Asked(w)) = {} /\ run[w].attempt + 1 = MaxAttempts
        /\ run' = [run EXCEPT ![w].attempt = @ + 1, ![w].pc = "raced"]
  /\ Silent /\ UNCHANGED tables
\* appendEntry: after a constraint failed, somebody may have appended this
\* very statement; otherwise recompute and retry.
Again(w) ==
  /\ At(w, "again")
  /\ \/ \E r \in Existing(Asked(w)) : Found(w, <<r>>)
     \/ /\ Existing(Asked(w)) = {} /\ run[w].attempt + 1 < MaxAttempts
        /\ run' = [run EXCEPT ![w].attempt = @ + 1, ![w].n = 0, ![w].k = 0, ![w].pc = "count"]
     \/ /\ Existing(Asked(w)) = {} /\ run[w].attempt + 1 = MaxAttempts
        /\ run' = [run EXCEPT ![w].attempt = @ + 1, ![w].pc = "raced"]
  /\ Silent /\ UNCHANGED tables

\* lookup: the rows of the namespace, before the checkpoint is read.
LookupRows(w) ==
  /\ At(w, "rows")
  /\ Found(w, ByNamespace(Asked(w).ns))
  /\ Silent /\ UNCHANGED tables

\* latestCheckpoint: all leaf hashes.
ReadLeaves(w) ==
  /\ At(w, "leaves")
  /\ run' = [run EXCEPT ![w].tree = LeafHashes, ![w].pc = "note"]
  /\ Silent /\ UNCHANGED tables

\* submit: authoritative: seq_in_ns === 1; lookup: the first row is.
Authorities(w) ==
  LET rows == run[w].rows IN
    {rows[i] : i \in {j \in DOMAIN rows : IF Asked(w).kind = "submit" THEN rows[j].seq = 1 ELSE j = 1}}
\* What the client gets: its rows, a note, and inclusion paths in H.
Answer(w, note) ==
  /\ answer' = [to |-> Asked(w), known |-> run[w].known, rows |-> run[w].rows,
                note |-> note, proof |-> run[w].tree]
  /\ told' = told \cup Authorities(w)
  /\ Becomes(w, Idle)

\* Mutant: any stored note, not the one of the size just read.
AnyStoredNote(w) == {checkpoints[s] : s \in DOMAIN checkpoints}
\* latestCheckpoint: SELECT note FROM checkpoints WHERE size = ?
StoredNotes(w) == {checkpoints[s] : s \in DOMAIN checkpoints \cap {Len(run[w].tree)}}
ReadNote(w) ==
  /\ At(w, "note")
  /\ \/ \E note \in StoredNotes(w) : Answer(w, note) /\ UNCHANGED signed
     \/ StoredNotes(w) = {} /\ run' = [run EXCEPT ![w].pc = "sign"] /\ Silent
  /\ UNCHANGED tables

\* latestCheckpoint: sign, INSERT OR IGNORE, and answer with the own note.
SignNote(w) ==
  /\ At(w, "sign")
  /\ LET tree == run[w].tree IN
       /\ signed' = signed \cup {tree}
       /\ checkpoints' = [s \in DOMAIN checkpoints \cup {Len(tree)} |->
                            IF s \in DOMAIN checkpoints THEN checkpoints[s] ELSE tree]
       /\ Answer(w, tree)
  /\ UNCHANGED entries

\* The INSERT fails: the note is signed, not stored, and nobody gets it.
SignError(w) ==
  /\ At(w, "sign")
  /\ signed' = signed \cup {run[w].tree}
  /\ Becomes(w, Idle) /\ answer' = NoAnswer
  /\ UNCHANGED <<tables, told>>

\* The platform stops the Worker, the database reports an error (an INSERT
\* that reports one may have taken effect: then the Worker is past it), or the
\* loop ends with throw new Error("append raced too many times").
Vanish(w) ==
  /\ ~At(w, "idle")
  /\ Becomes(w, Idle) /\ Silent /\ UNCHANGED tables

Serve(w) ==
  \/ Find(w) \/ CountAll(w) \/ CountNs(w) \/ Insert(w) \/ Again(w)
  \/ LookupRows(w) \/ ReadLeaves(w) \/ ReadNote(w) \/ SignNote(w) \/ SignError(w)

Next ==
  \E w \in Workers :
    \/ Serve(w) \/ Vanish(w)
    \/ \E q \in Submissions : Submit(w, q)
    \/ \E q \in Lookups : Lookup(w, q)
Spec == Init /\ [][Next]_vars

-----------------------------------------------------------------------------
(* Properties                                                              *)

Labels == {"idle", "find", "count", "countns", "insert", "again", "raced",
           "rows", "leaves", "note", "sign"}
RowSet == [idx : Nat, ns : Namespaces, seq : Nat, contract : Contracts]
Asks == Submissions \cup Lookups \cup {NoRequest}
RunStates ==
  [pc : Labels, ask : Asks, n : Nat, k : Nat, attempt : 0..MaxAttempts, rows : Seq(RowSet),
   tree : Seq(RowSet), base : Nat, known : SUBSET RowSet]

\* Every variable has its type.
DecisionTypeOK ==
  /\ entries \subseteq RowSet /\ IsFiniteSet(entries)
  /\ run \in [Workers -> RunStates]
  /\ DOMAIN checkpoints \subseteq Nat
  /\ \A s \in DOMAIN checkpoints : checkpoints[s] \in Seq(RowSet)
  /\ answer \in [to : Asks, known : SUBSET RowSet, rows : Seq(RowSet),
                 note : Seq(RowSet), proof : Seq(RowSet)]
  /\ signed \subseteq Seq(RowSet) /\ told \subseteq RowSet

\* RFC 6962 needs leaf indices without gaps or repetitions: whatever raced,
\* the indices are 0 .. size-1.
DenseIndices ==
  /\ {r.idx : r \in entries} = 0..Cardinality(entries) - 1
  /\ \A r, q \in entries : r.idx = q.idx => r = q

\* Write-once: within a namespace seq_in_namespace counts 1, 2, ... in the
\* order of the log, so what has number 1 is what came first.
FirstIsAuthoritative ==
  /\ \A r, q \in entries : r.ns = q.ns => (r.idx < q.idx <=> r.seq < q.seq)
  /\ \A r \in entries : r.seq \in 1..Cardinality(InNamespace(r.ns))

\* However often and however concurrently a statement is submitted, its
\* namespace holds its contract once.
AppendedOnce == \A r, q \in entries : r.ns = q.ns /\ r.contract = q.contract => r = q

\* What a client verifies of a submit receipt or of an authoritative entry
\* always verifies: its leaf is in the tree of the note, at its index.
AnswersVerify ==
  /\ answer.proof = answer.note
  /\ \A i \in DOMAIN answer.rows :
       LET r == answer.rows[i] IN r.idx < Len(answer.note) /\ answer.note[r.idx + 1] = r

\* No split view: all notes ever signed are views of one sequence.
Extends(l, m) == Len(l) <= Len(m) /\ SubSeq(m, 1, Len(l)) = l
NoSplitView == \A l, m \in signed : Extends(l, m) \/ Extends(m, l)

\* Two answers, receipts or lookups, never name two authorities; and who asks
\* after one was named gets that one, not "none yet".
OneAuthority ==
  /\ \A r, q \in told : r.ns = q.ns => r = q
  /\ answer.to.kind = "lookup" =>
       \A r \in answer.known : answer.rows # <<>> /\ answer.rows[1] = r

\* What clients are told verifies, and they are all told the same.
AnswersSound == AnswersVerify /\ OneAuthority

\* The log is one sequence, whoever races to extend it: dense indices, the first
\* statement of a namespace stays the first, a retry appends nothing, and every
\* note is of a part of it.
LogSound == DenseIndices /\ FirstIsAuthoritative /\ AppendedOnce /\ NoSplitView

\* A turn of the retry loop is only lost to somebody who appended meanwhile,
\* so giving up means that MaxAttempts others got through.
RetriesMeanProgress ==
  \A w \in Workers : run[w].attempt <= Cardinality(entries) - run[w].base

\* The database and the Workers together keep the write-once promise.
Promise == INSTANCE WriteOnceLog WITH
  log <- LeafHashes, notes <- signed, told <- told
KeepsPromise == Promise!Spec
=============================================================================
