-------------------------- MODULE DecisionMirrorProofs --------------------------
(***************************************************************************)
(* What the mirror of the decision log guarantees for any leaves, any trees*)
(* that the log signs, any size of a page and any number of killed runs,   *)
(* failed requests and failed pushes.                                      *)
(***************************************************************************)
EXTENDS DecisionMirror, SequenceTheorems, FiniteSetTheorems, TLAPS

\* A prefix, leaf by leaf.
Begins(l, m) == Len(l) <= Len(m) /\ \A i \in 1 .. Len(l) : l[i] = m[i]

\* Types.
NoteFiles == Notes \cup {Torn}
StoredFiles == UNION {[D -> NoteFiles] : D \in SUBSET Nat}
FilesSet == [entries : Seq(Contents), stored : StoredFiles, latest : SUBSET NoteFiles, index : SUBSET (Nat \cup {Torn})]
RunSet == [pc : {"idle", "note", "pages", "entries", "stored", "latest", "index", "commit", "push"},
           leaves : Seq(Contents), note : Notes, at : Nat, changed : BOOLEAN, tries : 0 .. 2]
OneFile(f) == (\A x, y \in f.latest : x = y) /\ (\A x, y \in f.index : x = y)
GitTyped ==
  /\ head \in FilesSet /\ origin \in FilesSet /\ OneFile(head) /\ OneFile(origin)
  /\ behind \in BOOLEAN
SourceTyped == honest \in BOOLEAN /\ log \in Trees /\ faults \in 0 .. MaxFaults
DiskTyped == disk \in FilesSet /\ OneFile(disk) /\ dirty \in BOOLEAN
Typed == SourceTyped /\ DiskTyped /\ GitTyped /\ run \in RunSet

\* What a run has done so far: what it holds begins with the entries on the disk,
\* and once it is checked it is the tree it will write.
RunTrue ==
  /\ run.pc \in {"note", "pages"} => Begins(disk.entries, run.leaves)
  /\ run.pc \in {"entries", "stored", "latest", "index", "commit"} =>
       run.leaves = run.note.tree /\ Begins(disk.entries, run.leaves)
  /\ run.pc = "entries" => run.at = Len(disk.entries)
  /\ run.pc \in {"stored", "latest", "index", "commit"} => Len(disk.entries) = Size
  /\ run.pc \in {"latest", "index", "commit"} => Size \in DOMAIN disk.stored
  /\ run.pc \in {"index", "commit"} => disk.latest = {run.note}
  /\ run.pc = "commit" => disk.index = {Size}

\* The whole checkpoints in the mirror are of parts of its entries.
Views ==
  \A s \in DOMAIN disk.stored :
    disk.stored[s] # Torn => Len(disk.stored[s].tree) = s /\ Begins(disk.stored[s].tree, disk.entries)

\* A commit is of one tree, or there is none.
Coherent(f) ==
  f # NoFiles =>
    /\ \E note \in Notes : f.latest = {note} /\ note.tree = f.entries
    /\ Len(f.entries) \in DOMAIN f.stored /\ f.index = {Len(f.entries)}

\* Entries are only added, and come to main through the commits.
Extended ==
  /\ Coherent(head) /\ Coherent(origin)
  /\ Begins(head.entries, disk.entries) /\ Begins(origin.entries, head.entries)

\* The inductive invariant.
MirrorInv == Typed /\ RunTrue /\ Views /\ Extended

-----------------------------------------------------------------------------
(* Prefixes. *)

\* The two forms say the same.
LEMMA PrefixIsBegins ==
  ASSUME NEW S, NEW l \in Seq(S), NEW m \in Seq(S)
  PROVE  IsPrefixOf(l, m) <=> Begins(l, m)
<1>1. Len(l) \in Nat /\ Len(m) \in Nat
  BY LenProperties
<1>2. CASE Len(l) <= Len(m)
  <2> DEFINE n == Len(l)
             p == SubSeq(m, 1, n)
  <2>1. \A i \in 1 .. n : m[i] \in S
    BY <1>1, <1>2, ElementOfSeq
  <2>2. n \in Int /\ 1 \in Int
    BY <1>1
  <2> HIDE DEF n
  <2>3. /\ p \in Seq(S) /\ Len(p) = IF 1 <= n THEN n - 1 + 1 ELSE 0
        /\ \A i \in 1 .. n - 1 + 1 : p[i] = m[1 + i - 1]
    BY <2>1, <2>2, SubSeqProperties
  <2>4. Len(p) = Len(l) /\ \A i \in 1 .. Len(l) : p[i] = m[i]
    <3>1. n \in Nat /\ n = Len(l)
      BY <1>1 DEF n
    <3> HIDE DEF p
    <3> QED
      BY <2>3, <3>1
  <2>5. p = l <=> \A i \in 1 .. Len(l) : l[i] = m[i]
    <3> HIDE DEF p
    <3> QED
      BY <2>3, <2>4, SeqEqual
  <2> QED
    BY <1>2, <2>5 DEF IsPrefixOf, Begins, n
<1>3. CASE ~(Len(l) <= Len(m))
  BY <1>3 DEF IsPrefixOf, Begins
<1> QED
  BY <1>2, <1>3

\* Prefixes of prefixes.
LEMMA BeginsTransitive ==
  ASSUME NEW S, NEW k \in Seq(S), NEW l \in Seq(S), NEW m \in Seq(S), Begins(k, l), Begins(l, m)
  PROVE  Begins(k, m)
<1>1. Len(k) \in Nat /\ Len(l) \in Nat /\ Len(m) \in Nat
  BY LenProperties
<1> QED
  BY <1>1 DEF Begins

LEMMA BeginsItself == ASSUME NEW S, NEW l \in Seq(S) PROVE Begins(l, l)
BY LenProperties DEF Begins

\* A prefix of the same length.
LEMMA BeginsEqual ==
  ASSUME NEW S, NEW l \in Seq(S), NEW m \in Seq(S), Begins(l, m), Len(l) = Len(m)
  PROVE  l = m
BY SeqEqual DEF Begins

\* Trees are sequences of whole leaves.
LEMMA TreesAreSequences ==
  /\ \A t \in Trees : t \in Seq(Leaves) /\ t \in Seq(Contents) /\ Len(t) \in Nat
  /\ <<>> \in Trees
<1>1. \A t \in Trees : t \in Seq(Leaves)
  BY MirrorAssumption
<1>2. Leaves \subseteq Contents
  BY DEF Contents
<1> QED
  BY <1>1, <1>2, SeqMonotonic, LenProperties, MirrorAssumption

\* The types, one by one.
LEMMA Parts ==
  ASSUME Typed
  PROVE  /\ disk.entries \in Seq(Contents) /\ head.entries \in Seq(Contents) /\ origin.entries \in Seq(Contents)
         /\ Len(disk.entries) \in Nat /\ run.leaves \in Seq(Contents) /\ Len(run.leaves) \in Nat
         /\ run.note \in Notes /\ run.note.tree \in Trees /\ run.note.tree \in Seq(Contents) /\ Size \in Nat
         /\ run.at \in Nat
<1>1. /\ disk.entries \in Seq(Contents) /\ head.entries \in Seq(Contents) /\ origin.entries \in Seq(Contents)
      /\ run.leaves \in Seq(Contents) /\ run.note \in Notes /\ run.at \in Nat
  BY DEF Typed, DiskTyped, GitTyped, FilesSet, RunSet
<1>2. run.note.tree \in Trees
  BY <1>1 DEF Notes
<1>3. run.note.tree \in Seq(Contents) /\ Size \in Nat
  BY <1>2, TreesAreSequences DEF Size
<1>4. Len(disk.entries) \in Nat /\ Len(run.leaves) \in Nat
  BY <1>1, LenProperties
<1> QED
  BY <1>1, <1>2, <1>3, <1>4

-----------------------------------------------------------------------------
(* Steps by what they touch. *)

\* Only the run moves, or the log.
LEMMA RunStep ==
  ASSUME MirrorInv, UNCHANGED <<files, head, origin>>, SourceTyped', behind' \in BOOLEAN, run' \in RunSet, RunTrue'
  PROVE  MirrorInv'
<1>1. UNCHANGED <<disk, dirty, head, origin>>
  BY DEF files
<1>2. Typed'
  BY <1>1 DEF MirrorInv, Typed, DiskTyped, GitTyped, OneFile, FilesSet, Contents, StoredFiles, NoteFiles, Notes, RunSet
<1>3. Views' /\ Extended'
  BY <1>1 DEF MirrorInv, Views, Extended, Coherent, Begins, NoFiles, NoNote, Note, Notes
<1> QED
  BY <1>2, <1>3 DEF MirrorInv

\* A run that ends leaves everything as it is.
LEMMA NothingRuns == NoRun \in RunSet /\ (run' = NoRun => RunTrue')
<1>1. NoNote \in Notes /\ <<>> \in Seq(Contents)
  BY TreesAreSequences DEF NoNote, Note, Notes
<1> QED
  BY <1>1 DEF NoRun, RunSet, RunTrue

-----------------------------------------------------------------------------
(* The steps before the files. *)

\* A run starts from what is on the disk.
LEMMA Starts == ASSUME MirrorInv, Start PROVE MirrorInv'
<1>1. /\ run' = [NoRun EXCEPT !.pc = "note", !.leaves = disk.entries]
      /\ UNCHANGED <<files, head, origin, source, faults>> /\ behind' = FALSE
  BY DEF Start
<1>2. disk.entries \in Seq(Contents) /\ UNCHANGED disk
  BY <1>1, Parts DEF MirrorInv, files
<1>3. run' \in RunSet /\ run'.pc = "note" /\ run'.leaves = disk.entries
  BY <1>1, <1>2, NothingRuns DEF RunSet, NoRun
<1>4. Begins(disk.entries, disk.entries)
  BY <1>2, BeginsItself
<1>5. RunTrue'
  BY <1>2, <1>3, <1>4 DEF RunTrue, Begins
<1>6. SourceTyped'
  BY <1>1 DEF source, SourceTyped, MirrorInv, Typed
<1> QED
  BY <1>1, <1>3, <1>5, <1>6, RunStep

\* A request fails, a push is given up, or the log and others move on.
LEMMA NothingWritten ==
  ASSUME MirrorInv, UNCHANGED <<files, head, origin>>, SourceTyped', behind' \in BOOLEAN,
         run' = run \/ run' = NoRun
  PROVE  MirrorInv'
<1>1. UNCHANGED disk
  BY DEF files
<1>2. run' \in RunSet
  BY NothingRuns DEF MirrorInv, Typed
<1>3. RunTrue'
  <2>1. CASE run' = run
    BY <1>1, <2>1 DEF MirrorInv, RunTrue, Begins, Size
  <2>2. CASE run' = NoRun
    BY <2>2, NothingRuns
  <2> QED
    BY <2>1, <2>2
<1> QED
  BY <1>2, <1>3, RunStep

\* An exit with a message.
LEMMA Failing == ASSUME MirrorInv, Fails, SourceTyped' PROVE MirrorInv'
<1>1. UNCHANGED <<files, head, origin, behind>> /\ run' = NoRun
  BY DEF Fails, Ends, git
<1>2. behind' \in BOOLEAN
  BY <1>1 DEF MirrorInv, Typed, GitTyped
<1> QED
  BY <1>1, <1>2, NothingWritten

\* What is served is a tree.
LEMMA ServedTrees == ASSUME MirrorInv PROVE Served \subseteq Trees
BY DEF MirrorInv, Typed, SourceTyped, Served

LEMMA QuietKeeps == ASSUME MirrorInv, Quiet PROVE SourceTyped'
BY DEF MirrorInv, Typed, SourceTyped, Quiet, source

LEMMA BehindKeeps == ASSUME MirrorInv, UNCHANGED git PROVE behind' \in BOOLEAN /\ UNCHANGED <<head, origin>>
BY DEF MirrorInv, Typed, GitTyped, git

LEMMA GetsNote == ASSUME MirrorInv, GetNote PROVE MirrorInv'
<1>1. SourceTyped' /\ At("note")
  BY QuietKeeps DEF GetNote
<1>2. CASE Fails
  BY <1>1, <1>2, Failing
<1>3. CASE ~Fails
  <2>1. PICK tree \in Served : /\ run' = [run EXCEPT !.pc = "pages", !.note = Note(tree, FALSE)]
                               /\ UNCHANGED <<files, git>>
    BY <1>3 DEF GetNote
  <2>2. Note(tree, FALSE) \in Notes
    BY <2>1, ServedTrees DEF Note, Notes
  <2>3. run' \in RunSet /\ run'.pc = "pages" /\ run'.leaves = run.leaves
    BY <2>1, <2>2 DEF MirrorInv, Typed, RunSet
  <2>4. Begins(disk.entries, run.leaves) /\ UNCHANGED disk
    BY <1>1, <2>1 DEF MirrorInv, RunTrue, At, files
  <2>5. RunTrue'
    BY <2>3, <2>4 DEF RunTrue, Begins
  <2> QED
    BY <1>1, <2>1, <2>3, <2>5, RunStep, BehindKeeps
<1> QED
  BY <1>2, <1>3

\* A page comes after what the run holds.
LEMMA GetsPage == ASSUME MirrorInv, GetPage PROVE MirrorInv'
<1>1. SourceTyped' /\ At("pages") /\ Len(run.leaves) < Size
  BY QuietKeeps DEF GetPage
<1>2. CASE Fails
  BY <1>1, <1>2, Failing
<1>3. CASE ~Fails
  <2>1. PICK tree \in Served :
          /\ run' = [run EXCEPT !.leaves = run.leaves \o
                       SubSeq(tree, Len(run.leaves) + 1, IF Len(tree) < LastOfPage THEN Len(tree) ELSE LastOfPage)]
          /\ UNCHANGED <<files, git>>
    BY <1>3 DEF GetPage
  <2> DEFINE m == Len(run.leaves) + 1
             n == IF Len(tree) < LastOfPage THEN Len(tree) ELSE LastOfPage
             got == SubSeq(tree, m, n)
  <2>2. tree \in Seq(Contents) /\ Len(tree) \in Nat
    BY <2>1, ServedTrees, TreesAreSequences
  <2>3. Len(run.leaves) \in Nat /\ Size \in Nat /\ Page \in Nat /\ run.leaves \in Seq(Contents)
        /\ disk.entries \in Seq(Contents) /\ Len(disk.entries) \in Nat
    BY Parts, MirrorAssumption DEF MirrorInv
  <2>4. m \in Int /\ n \in Int /\ m >= 1 /\ n <= Len(tree)
    BY <2>2, <2>3 DEF LastOfPage
  <2> HIDE DEF m, n
  <2>5. \A i \in m .. n : tree[i] \in Contents
    <3> SUFFICES ASSUME NEW i \in m .. n PROVE tree[i] \in Contents
      OBVIOUS
    <3>1. i \in 1 .. Len(tree)
      BY <2>2, <2>4
    <3> QED
      BY <2>2, <3>1, ElementOfSeq
  <2>6. got \in Seq(Contents)
    BY <2>4, <2>5, SubSeqProperties
  <2>7. run' = [run EXCEPT !.leaves = run.leaves \o got]
    BY <2>1 DEF m, n
  <2> HIDE DEF got
  <2>8. run.leaves \o got \in Seq(Contents) /\ Begins(run.leaves, run.leaves \o got)
    <3>1. Len(got) \in Nat
      BY <2>6, LenProperties
    <3>2. /\ run.leaves \o got \in Seq(Contents)
          /\ Len(run.leaves \o got) = Len(run.leaves) + Len(got)
          /\ \A i \in 1 .. Len(run.leaves) + Len(got) :
               (run.leaves \o got)[i] = IF i <= Len(run.leaves) THEN run.leaves[i] ELSE got[i - Len(run.leaves)]
      BY <2>3, <2>6, ConcatProperties
    <3>3. \A i \in 1 .. Len(run.leaves) : (run.leaves \o got)[i] = run.leaves[i]
      BY <2>3, <3>1, <3>2
    <3> QED
      BY <2>3, <3>1, <3>2, <3>3 DEF Begins
  <2>9. Begins(disk.entries, run.leaves) /\ UNCHANGED disk
    BY <1>1, <2>1 DEF MirrorInv, RunTrue, At, files
  <2>10. Begins(disk.entries, run.leaves \o got)
    BY <2>3, <2>8, <2>9, BeginsTransitive
  <2>11. run' \in RunSet /\ run'.pc = "pages" /\ run'.leaves = run.leaves \o got
    BY <1>1, <2>7, <2>8 DEF MirrorInv, Typed, RunSet, At
  <2>12. RunTrue'
    BY <2>9, <2>10, <2>11 DEF RunTrue, Begins
  <2> QED
    BY <1>1, <2>1, <2>11, <2>12, RunStep, BehindKeeps
<1> QED
  BY <1>2, <1>3

\* A tree that recomputes to its root is what the run holds; nothing torn is in it.
LEMMA Checks == ASSUME MirrorInv, Check PROVE MirrorInv'
<1>1. SourceTyped' /\ At("pages")
  BY QuietKeeps DEF Check
<1>2. CASE Fails
  BY <1>1, <1>2, Failing
<1>3. CASE ~Fails
  <2>1. RootOK /\ run' = [run EXCEPT !.pc = "entries", !.at = Len(disk.entries)] /\ UNCHANGED <<files, git>>
    BY <1>3 DEF Check
  <2>2. Len(disk.entries) \in Nat
    BY Parts DEF MirrorInv
  <2>3. /\ run' \in RunSet /\ run'.pc = "entries" /\ run'.leaves = run.leaves /\ run'.note = run.note
        /\ run'.at = Len(disk.entries)
    BY <2>1, <2>2 DEF MirrorInv, Typed, RunSet
  <2>4. Begins(disk.entries, run.leaves) /\ UNCHANGED disk /\ run.leaves = run.note.tree
    BY <1>1, <2>1 DEF MirrorInv, RunTrue, At, files, RootOK
  <2>5. RunTrue'
    BY <2>3, <2>4 DEF RunTrue, Begins
  <2> QED
    BY <1>1, <2>1, <2>3, <2>5, RunStep, BehindKeeps
<1> QED
  BY <1>2, <1>3

\* All entries are written when the witnesses are asked.
LEMMA Gathers == ASSUME MirrorInv, Gather PROVE MirrorInv'
<1>1. SourceTyped' /\ At("entries") /\ run.at = Size /\ UNCHANGED <<files, git>>
  BY QuietKeeps DEF Gather
<1>2. PICK cosigned \in BOOLEAN : run' = [run EXCEPT !.pc = "stored", !.note.cosigned = cosigned]
  BY DEF Gather
<1>3. /\ run' \in RunSet /\ run'.pc = "stored" /\ run'.leaves = run.leaves /\ run'.note.tree = run.note.tree
  BY <1>2 DEF MirrorInv, Typed, RunSet, Notes
<1>4. Begins(disk.entries, run.leaves) /\ UNCHANGED disk /\ run.leaves = run.note.tree /\ Len(disk.entries) = Size
  BY <1>1 DEF MirrorInv, RunTrue, At, files
<1>5. RunTrue'
  BY <1>3, <1>4 DEF RunTrue, Begins, Size
<1> QED
  BY <1>1, <1>3, <1>5, RunStep, BehindKeeps

-----------------------------------------------------------------------------
(* The files. *)

\* A file is written, or torn: entries are only added.
LEMMA DiskStep ==
  ASSUME MirrorInv, UNCHANGED <<head, origin, behind>>, SourceTyped', DiskTyped', run' \in RunSet, RunTrue',
         Views', Begins(disk.entries, disk'.entries)
  PROVE  MirrorInv'
<1>1. Typed'
  BY DEF MirrorInv, Typed, GitTyped, OneFile, FilesSet, Contents, StoredFiles, NoteFiles, Notes, RunSet
<1>2. Begins(head.entries, disk'.entries)
  <2>1. head.entries \in Seq(Contents) /\ disk.entries \in Seq(Contents) /\ disk'.entries \in Seq(Contents)
    BY Parts DEF MirrorInv, DiskTyped, FilesSet, Contents
  <2> QED
    BY <2>1, BeginsTransitive DEF MirrorInv, Extended
<1>3. Extended'
  BY <1>2 DEF MirrorInv, Extended, Coherent, Begins, NoFiles, NoNote, Note, Notes
<1> QED
  BY <1>1, <1>3 DEF MirrorInv

\* One entry more.
LEMMA EntryPut ==
  ASSUME MirrorInv, run.pc = "entries", NEW x \in Contents, PutEntry(x), dirty' \in BOOLEAN
  PROVE  /\ DiskTyped' /\ Views' /\ Begins(disk.entries, disk'.entries)
         /\ Len(disk'.entries) = Len(disk.entries) + 1 /\ disk'.entries[Len(disk.entries) + 1] = x
<1> DEFINE es == disk.entries
           n == Len(es)
           ns == [i \in 1 .. n + 1 |-> IF i = n + 1 THEN x ELSE es[i]]
<1>1. es \in Seq(Contents) /\ n \in Nat /\ DOMAIN es = 1 .. n /\ run.at = n
      /\ \A i \in 1 .. n : es[i] \in Contents
  BY Parts, LenProperties, ElementOfSeq DEF MirrorInv, RunTrue
<1>2. DOMAIN es \cup {run.at + 1} = 1 .. n + 1
  BY <1>1
<1>3. disk' = [disk EXCEPT !.entries = ns]
  BY <1>1, <1>2 DEF PutEntry
<1>4. ns \in [1 .. n + 1 -> Contents]
  BY <1>1
<1>5. ns \in Seq(Contents) /\ Len(ns) = n + 1 /\ (\A i \in 1 .. n : ns[i] = es[i]) /\ ns[n + 1] = x
  <2>1. \A i \in 1 .. n : ns[i] = es[i]
    BY <1>1
  <2>2. ns[n + 1] = x
    BY <1>1
  <2> HIDE DEF ns
  <2>3. ns \in Seq(Contents)
    BY <1>1, <1>4, SeqDef
  <2>4. Len(ns) \in Nat /\ 1 .. Len(ns) = 1 .. n + 1
    BY <1>4, <2>3, LenProperties
  <2>5. Len(ns) = n + 1
    BY <1>1, <2>4
  <2> QED
    BY <2>1, <2>2, <2>3, <2>5
<1> HIDE DEF ns
<1>6. disk \in FilesSet /\ OneFile(disk)
  BY DEF MirrorInv, Typed, DiskTyped
<1>7. /\ disk' \in FilesSet /\ disk'.entries = ns /\ disk'.stored = disk.stored /\ disk'.latest = disk.latest
      /\ disk'.index = disk.index
  BY <1>3, <1>5, <1>6 DEF FilesSet
<1>8. DiskTyped'
  BY <1>6, <1>7 DEF DiskTyped, OneFile, FilesSet, Contents, StoredFiles, NoteFiles, Notes
<1>9. Begins(es, ns)
  BY <1>1, <1>5 DEF Begins
<1>10. Views'
  <2> SUFFICES ASSUME NEW s \in DOMAIN disk.stored, disk.stored[s] # Torn
               PROVE  Len(disk.stored[s].tree) = s /\ Begins(disk.stored[s].tree, ns)
    BY <1>7 DEF Views, Begins
  <2>1. Len(disk.stored[s].tree) = s /\ Begins(disk.stored[s].tree, es)
    BY DEF MirrorInv, Views
  <2>2. disk.stored[s] \in NoteFiles
    <3>1. PICK D \in SUBSET Nat : disk.stored \in [D -> NoteFiles]
      BY <1>6 DEF FilesSet, StoredFiles
    <3> QED
      BY <3>1
  <2>3. disk.stored[s].tree \in Seq(Contents)
    BY <2>2, TreesAreSequences DEF NoteFiles, Notes
  <2> QED
    BY <1>1, <1>5, <1>9, <2>1, <2>3, BeginsTransitive
<1> QED
  BY <1>5, <1>7, <1>8, <1>9, <1>10

\* The numbered checkpoint is of all that is on the disk.
LEMMA StoredPut ==
  ASSUME MirrorInv, run.pc = "stored", NEW x \in {run.note, Torn}, PutStored(x), dirty' \in BOOLEAN
  PROVE  DiskTyped' /\ Views' /\ disk'.entries = disk.entries /\ Size \in DOMAIN disk'.stored
<1> DEFINE st == disk.stored
           ns == [s \in DOMAIN st \cup {Size} |-> IF s = Size THEN x ELSE st[s]]
<1>1. /\ disk \in FilesSet /\ OneFile(disk) /\ Size \in Nat /\ run.note \in Notes
  BY Parts DEF MirrorInv, Typed, DiskTyped
<1>2. PICK D \in SUBSET Nat : st \in [D -> NoteFiles]
  BY <1>1 DEF FilesSet, StoredFiles
<1>3. x \in NoteFiles /\ DOMAIN st = D /\ D \cup {Size} \in SUBSET Nat
  BY <1>1, <1>2 DEF NoteFiles
<1>4. ns \in [D \cup {Size} -> NoteFiles]
  BY <1>2, <1>3
<1>5. ns \in StoredFiles
  BY <1>3, <1>4 DEF StoredFiles
<1>6. /\ DOMAIN ns = DOMAIN st \cup {Size} /\ ns[Size] = x
      /\ \A s \in DOMAIN st : s # Size => ns[s] = st[s]
  OBVIOUS
<1>7. disk' = [disk EXCEPT !.stored = ns]
  BY DEF PutStored
<1> HIDE DEF ns
<1>8. /\ disk' \in FilesSet /\ disk'.entries = disk.entries /\ disk'.stored = ns /\ disk'.latest = disk.latest
      /\ disk'.index = disk.index
  BY <1>1, <1>5, <1>7 DEF FilesSet
<1>9. DiskTyped'
  BY <1>1, <1>8 DEF DiskTyped, OneFile, FilesSet, Contents, StoredFiles, NoteFiles, Notes
<1>10. Len(run.note.tree) = Size /\ Begins(run.note.tree, disk.entries)
  <2>1. run.leaves = run.note.tree /\ Begins(disk.entries, run.leaves) /\ Len(disk.entries) = Size
    BY DEF MirrorInv, RunTrue
  <2>2. disk.entries \in Seq(Contents) /\ run.leaves \in Seq(Contents)
    BY Parts DEF MirrorInv
  <2>3. disk.entries = run.leaves
    BY <2>1, <2>2, BeginsEqual DEF Size
  <2> QED
    BY <2>1, <2>2, <2>3, BeginsItself DEF Size
<1>11. Views'
  <2> SUFFICES ASSUME NEW s \in DOMAIN ns, ns[s] # Torn
               PROVE  Len(ns[s].tree) = s /\ Begins(ns[s].tree, disk.entries)
    BY <1>8 DEF Views, Begins
  <2>1. CASE s = Size
    BY <1>6, <1>10, <2>1
  <2>2. CASE s # Size
    BY <1>6, <2>2 DEF MirrorInv, Views
  <2> QED
    BY <2>1, <2>2
<1> QED
  BY <1>6, <1>8, <1>9, <1>11

\* The other two files are of one content.
LEMMA LatestPut ==
  ASSUME MirrorInv, NEW x \in NoteFiles, PutLatest(x), dirty' \in BOOLEAN
  PROVE  DiskTyped' /\ Views' /\ disk'.entries = disk.entries /\ disk'.stored = disk.stored /\ disk'.latest = {x}
<1>1. disk \in FilesSet /\ OneFile(disk)
  BY DEF MirrorInv, Typed, DiskTyped
<1>2. {x} \in SUBSET NoteFiles /\ disk' = [disk EXCEPT !.latest = {x}]
  BY DEF PutLatest
<1>3. /\ disk' \in FilesSet /\ disk'.entries = disk.entries /\ disk'.stored = disk.stored /\ disk'.latest = {x}
      /\ disk'.index = disk.index
  BY <1>1, <1>2 DEF FilesSet
<1>4. DiskTyped'
  BY <1>1, <1>3 DEF DiskTyped, OneFile, FilesSet, Contents, StoredFiles, NoteFiles, Notes
<1>5. Views'
  BY <1>3 DEF MirrorInv, Views, Begins
<1> QED
  BY <1>3, <1>4, <1>5

LEMMA IndexPut ==
  ASSUME MirrorInv, NEW x \in Nat \cup {Torn}, PutIndex(x), dirty' \in BOOLEAN
  PROVE  /\ DiskTyped' /\ Views' /\ disk'.entries = disk.entries /\ disk'.stored = disk.stored
         /\ disk'.latest = disk.latest /\ disk'.index = {x}
<1>1. disk \in FilesSet /\ OneFile(disk)
  BY DEF MirrorInv, Typed, DiskTyped
<1>2. {x} \in SUBSET (Nat \cup {Torn}) /\ disk' = [disk EXCEPT !.index = {x}]
  BY DEF PutIndex
<1>3. /\ disk' \in FilesSet /\ disk'.entries = disk.entries /\ disk'.stored = disk.stored /\ disk'.latest = disk.latest
      /\ disk'.index = {x}
  BY <1>1, <1>2 DEF FilesSet
<1>4. DiskTyped'
  BY <1>1, <1>3 DEF DiskTyped, OneFile, FilesSet, Contents, StoredFiles, NoteFiles, Notes
<1>5. Views'
  BY <1>3 DEF MirrorInv, Views, Begins
<1> QED
  BY <1>3, <1>4, <1>5

\* What is on the disk begins with itself.
LEMMA SameEntries == ASSUME MirrorInv, disk'.entries = disk.entries PROVE Begins(disk.entries, disk'.entries)
BY Parts, BeginsItself DEF MirrorInv

-----------------------------------------------------------------------------
(* The steps that write, and those that end a run. *)

\* A leaf of the tree is written as the next entry.
LEMMA WritesEntry == ASSUME MirrorInv, WriteEntry PROVE MirrorInv'
<1>1. /\ SourceTyped' /\ run.pc = "entries" /\ run.at < Size /\ dirty' \in BOOLEAN
      /\ PutEntry(run.leaves[run.at + 1]) /\ run' = [run EXCEPT !.at = run.at + 1, !.changed = TRUE]
  BY QuietKeeps DEF WriteEntry, At
<1>2. /\ run.leaves = run.note.tree /\ Begins(disk.entries, run.leaves) /\ run.at = Len(disk.entries)
      /\ Len(disk.entries) \in Nat /\ Size \in Nat /\ Size = Len(run.leaves) /\ run.leaves \in Seq(Contents)
  BY <1>1, Parts DEF MirrorInv, RunTrue, Size
<1>3. run.at + 1 \in 1 .. Len(run.leaves)
  BY <1>1, <1>2
<1>4. run.leaves[run.at + 1] \in Contents
  BY <1>2, <1>3, ElementOfSeq
<1>5. /\ DiskTyped' /\ Views' /\ Begins(disk.entries, disk'.entries)
      /\ Len(disk'.entries) = Len(disk.entries) + 1
      /\ disk'.entries[Len(disk.entries) + 1] = run.leaves[run.at + 1]
  BY <1>1, <1>4, EntryPut
<1>6. /\ run' \in RunSet /\ run'.pc = "entries" /\ run'.leaves = run.leaves /\ run'.note = run.note
      /\ run'.at = run.at + 1
  <2>1. run.at + 1 \in Nat /\ run \in RunSet
    BY <1>2 DEF MirrorInv, Typed
  <2> DEFINE m == run.at + 1
  <2>2. m \in Nat /\ run' = [run EXCEPT !.at = m, !.changed = TRUE] /\ run.pc = "entries"
    BY <1>1, <2>1
  <2> HIDE DEF m
  <2>3. /\ run' \in RunSet /\ run'.pc = "entries" /\ run'.leaves = run.leaves /\ run'.note = run.note
        /\ run'.at = m
    BY <2>1, <2>2 DEF RunSet
  <2> QED
    BY <2>3 DEF m
<1>7. Begins(disk'.entries, run.leaves)
  <2> SUFFICES ASSUME NEW i \in 1 .. Len(disk.entries) + 1 PROVE disk'.entries[i] = run.leaves[i]
    BY <1>1, <1>2, <1>5 DEF Begins
  <2>1. CASE i = Len(disk.entries) + 1
    BY <1>2, <1>5, <2>1
  <2>2. CASE i \in 1 .. Len(disk.entries)
    BY <1>2, <1>5, <2>2 DEF Begins
  <2> QED
    BY <1>2, <2>1, <2>2
<1>8. RunTrue'
  BY <1>2, <1>5, <1>6, <1>7 DEF RunTrue, Begins
<1>9. UNCHANGED <<head, origin, behind>>
  BY DEF WriteEntry, git
<1> QED
  BY <1>1, <1>5, <1>6, <1>8, <1>9, DiskStep

\* What a run knows from the moment its entries are on the disk.
LEMMA Writing ==
  ASSUME MirrorInv, run.pc \in {"stored", "latest", "index", "commit"}
  PROVE  /\ run.leaves = run.note.tree /\ Begins(disk.entries, run.leaves) /\ Len(disk.entries) = Size
         /\ run.note \in Notes /\ Size \in Nat /\ disk.entries = run.note.tree
<1>1. /\ run.leaves = run.note.tree /\ Begins(disk.entries, run.leaves) /\ Len(disk.entries) = Size
      /\ disk.entries \in Seq(Contents) /\ run.leaves \in Seq(Contents) /\ run.note \in Notes /\ Size \in Nat
  BY Parts DEF MirrorInv, RunTrue
<1>2. disk.entries = run.leaves
  BY <1>1, BeginsEqual DEF Size
<1> QED
  BY <1>1, <1>2

\* The run goes on to its next file.
LEMMA GoesOn ==
  ASSUME MirrorInv, NEW l \in {"latest", "index", "commit", "push"},
         Goto(l) \/ run' = [run EXCEPT !.pc = l, !.changed = TRUE]
  PROVE  run' \in RunSet /\ run'.pc = l /\ run'.leaves = run.leaves /\ run'.note = run.note
BY DEF MirrorInv, Typed, RunSet, Goto

LEMMA WritesStored == ASSUME MirrorInv, WriteStored PROVE MirrorInv'
<1>1. SourceTyped' /\ run.pc = "stored" /\ UNCHANGED <<head, origin, behind>>
  BY QuietKeeps DEF WriteStored, At, git
<1>2. /\ run.leaves = run.note.tree /\ Begins(disk.entries, run.leaves) /\ Len(disk.entries) = Size
  BY <1>1, Writing
<1>3. CASE NoteIsNew
  <2>1. PutStored(run.note) /\ dirty' \in BOOLEAN /\ run' = [run EXCEPT !.pc = "latest", !.changed = TRUE]
    BY <1>3 DEF WriteStored
  <2>2. DiskTyped' /\ Views' /\ disk'.entries = disk.entries /\ Size \in DOMAIN disk'.stored
    BY <1>1, <2>1, StoredPut
  <2>3. run' \in RunSet /\ run'.pc = "latest" /\ run'.leaves = run.leaves /\ run'.note = run.note
    BY <2>1, GoesOn
  <2>4. RunTrue'
    BY <1>2, <2>2, <2>3 DEF RunTrue, Begins, Size
  <2> QED
    BY <1>1, <2>2, <2>3, <2>4, SameEntries, DiskStep
<1>4. CASE ~NoteIsNew
  <2>1. Goto("index") /\ UNCHANGED files
    BY <1>4 DEF WriteStored
  <2>2. Size \in DOMAIN disk.stored /\ disk.latest = {run.note} /\ UNCHANGED disk
    BY <1>4, <2>1 DEF NoteIsNew, files
  <2>3. run' \in RunSet /\ run'.pc = "index" /\ run'.leaves = run.leaves /\ run'.note = run.note
    BY <2>1, GoesOn
  <2>4. RunTrue'
    BY <1>2, <2>2, <2>3 DEF RunTrue, Begins, Size
  <2>5. behind' \in BOOLEAN
    BY <1>1 DEF MirrorInv, Typed, GitTyped
  <2> QED
    BY <1>1, <2>1, <2>3, <2>4, <2>5, RunStep
<1> QED
  BY <1>3, <1>4

LEMMA WritesLatest == ASSUME MirrorInv, WriteLatest PROVE MirrorInv'
<1>1. /\ SourceTyped' /\ run.pc = "latest" /\ UNCHANGED <<head, origin, behind>>
      /\ PutLatest(run.note) /\ dirty' \in BOOLEAN /\ Goto("index")
  BY QuietKeeps DEF WriteLatest, At, git
<1>2. /\ run.leaves = run.note.tree /\ Begins(disk.entries, run.leaves) /\ Len(disk.entries) = Size
      /\ run.note \in NoteFiles /\ Size \in DOMAIN disk.stored
  BY <1>1, Writing DEF NoteFiles, MirrorInv, RunTrue
<1>3. DiskTyped' /\ Views' /\ disk'.entries = disk.entries /\ disk'.stored = disk.stored /\ disk'.latest = {run.note}
  BY <1>1, <1>2, LatestPut
<1>4. run' \in RunSet /\ run'.pc = "index" /\ run'.leaves = run.leaves /\ run'.note = run.note
  BY <1>1, GoesOn
<1>5. RunTrue'
  BY <1>2, <1>3, <1>4 DEF RunTrue, Begins, Size
<1> QED
  BY <1>1, <1>3, <1>4, <1>5, SameEntries, DiskStep

LEMMA WritesIndex == ASSUME MirrorInv, WriteIndex PROVE MirrorInv'
<1>1. SourceTyped' /\ run.pc = "index"
  BY QuietKeeps DEF WriteIndex, At
<1>2. /\ run.leaves = run.note.tree /\ Begins(disk.entries, run.leaves) /\ Len(disk.entries) = Size /\ Size \in Nat
      /\ Size \in DOMAIN disk.stored /\ disk.latest = {run.note}
  BY <1>1, Writing DEF MirrorInv, RunTrue
<1>3. CASE Fails
  BY <1>1, <1>3, Failing
<1>4. CASE ~Fails /\ disk.index = {Size}
  <2>1. Goto("commit") /\ UNCHANGED files /\ UNCHANGED git
    BY <1>4 DEF WriteIndex
  <2>2. run' \in RunSet /\ run'.pc = "commit" /\ run'.leaves = run.leaves /\ run'.note = run.note
    BY <2>1, GoesOn
  <2>3. RunTrue'
    BY <1>2, <1>4, <2>1, <2>2 DEF RunTrue, Begins, Size, files
  <2> QED
    BY <1>1, <2>1, <2>2, <2>3, BehindKeeps, RunStep
<1>5. CASE ~Fails /\ disk.index # {Size}
  <2>1. PutIndex(Size) /\ dirty' \in BOOLEAN /\ run' = [run EXCEPT !.pc = "commit", !.changed = TRUE] /\ UNCHANGED git
    BY <1>5 DEF WriteIndex
  <2>2. /\ DiskTyped' /\ Views' /\ disk'.entries = disk.entries /\ disk'.stored = disk.stored
        /\ disk'.latest = disk.latest /\ disk'.index = {Size}
    BY <1>2, <2>1, IndexPut
  <2>3. run' \in RunSet /\ run'.pc = "commit" /\ run'.leaves = run.leaves /\ run'.note = run.note
    BY <2>1, GoesOn
  <2>4. RunTrue'
    BY <1>2, <2>2, <2>3 DEF RunTrue, Begins, Size
  <2>5. UNCHANGED <<head, origin, behind>>
    BY <2>1 DEF git
  <2> QED
    BY <1>1, <2>2, <2>3, <2>4, <2>5, SameEntries, DiskStep
<1> QED
  BY <1>3, <1>4, <1>5

\* A kill leaves the file that was being written torn, or nothing.
LEMMA Killing == ASSUME MirrorInv, Killed PROVE MirrorInv'
<1>1. run' = NoRun /\ UNCHANGED <<source, head, origin, behind>> /\ Fault
  BY DEF Killed, Ends, git
<1>2. SourceTyped' /\ run' \in RunSet /\ RunTrue' /\ behind' \in BOOLEAN /\ Torn \in Contents /\ Torn \in NoteFiles
  <2>1. faults' \in 0 .. MaxFaults
    BY <1>1, MirrorAssumption DEF Fault, MirrorInv, Typed, SourceTyped
  <2> QED
    BY <1>1, <2>1, NothingRuns DEF MirrorInv, Typed, SourceTyped, GitTyped, source, Contents, NoteFiles
<1>3. CASE UNCHANGED files
  BY <1>1, <1>2, <1>3, RunStep
<1>4. CASE At("entries") /\ run.at < Size /\ PutEntry(Torn) /\ dirty' = TRUE
  <2>1. DiskTyped' /\ Views' /\ Begins(disk.entries, disk'.entries)
    BY <1>2, <1>4, EntryPut DEF At
  <2> QED
    BY <1>1, <1>2, <2>1, DiskStep
<1>5. CASE At("stored") /\ NoteIsNew /\ PutStored(Torn) /\ dirty' = TRUE
  <2>1. DiskTyped' /\ Views' /\ disk'.entries = disk.entries
    BY <1>5, StoredPut DEF At
  <2> QED
    BY <1>1, <1>2, <2>1, SameEntries, DiskStep
<1>6. CASE At("latest") /\ PutLatest(Torn) /\ dirty' = TRUE
  <2>1. DiskTyped' /\ Views' /\ disk'.entries = disk.entries
    BY <1>2, <1>6, LatestPut
  <2> QED
    BY <1>1, <1>2, <2>1, SameEntries, DiskStep
<1>7. CASE At("index") /\ disk.index \notin {{Size}, {Torn}} /\ PutIndex(Torn) /\ dirty' = TRUE
  <2>1. DiskTyped' /\ Views' /\ disk'.entries = disk.entries
    BY <1>7, IndexPut
  <2> QED
    BY <1>1, <1>2, <2>1, SameEntries, DiskStep
<1> QED
  BY <1>3, <1>4, <1>5, <1>6, <1>7 DEF Killed

-----------------------------------------------------------------------------
(* git. *)

\* A commit is of the tree that was written, all of it.
LEMMA Commits == ASSUME MirrorInv, Commit PROVE MirrorInv'
<1>1. SourceTyped' /\ run.pc = "commit"
  BY QuietKeeps DEF Commit, At
<1>2. CASE Ends /\ UNCHANGED <<files, git>>
  <2>1. Fails
    BY <1>2 DEF Fails
  <2> QED
    BY <1>1, <2>1, Failing
<1>3. CASE head' = disk /\ dirty' = FALSE /\ Goto("push") /\ UNCHANGED <<disk, origin, behind>>
  <2>1. run' \in RunSet /\ run'.pc = "push"
    BY <1>3, GoesOn
  <2>2. RunTrue'
    BY <2>1 DEF RunTrue
  <2>3. Typed'
    BY <1>1, <1>3, <2>1
       DEF MirrorInv, Typed, DiskTyped, GitTyped, OneFile, FilesSet, Contents, StoredFiles, NoteFiles, Notes, RunSet
  <2>4. Views'
    BY <1>3 DEF MirrorInv, Views, Begins
  <2>5. /\ run.note \in Notes /\ disk.latest = {run.note} /\ run.note.tree = disk.entries
        /\ Len(disk.entries) \in DOMAIN disk.stored /\ disk.index = {Len(disk.entries)}
    BY <1>1, Writing DEF MirrorInv, RunTrue
  <2>6. Coherent(disk)
    BY <2>5 DEF Coherent
  <2>7. Begins(disk.entries, disk.entries) /\ Begins(origin.entries, disk.entries)
    BY Parts, BeginsItself, BeginsTransitive DEF MirrorInv, Extended
  <2>8. Extended'
    BY <1>3, <2>6, <2>7 DEF MirrorInv, Extended, Coherent, Begins, NoFiles, NoNote, Note, Notes
  <2> QED
    BY <2>2, <2>3, <2>4, <2>8 DEF MirrorInv
<1> QED
  BY <1>2, <1>3 DEF Commit

\* A push that is accepted publishes the commits.
LEMMA Pushes == ASSUME MirrorInv, Push PROVE MirrorInv'
<1>1. SourceTyped' /\ origin' = head /\ run' = NoRun /\ UNCHANGED <<disk, dirty, head, behind>>
  BY QuietKeeps DEF Push, Ends, files
<1>2. run' \in RunSet /\ RunTrue'
  BY <1>1, NothingRuns
<1>3. Typed'
  BY <1>1, <1>2
     DEF MirrorInv, Typed, DiskTyped, GitTyped, OneFile, FilesSet, Contents, StoredFiles, NoteFiles, Notes, RunSet
<1>4. Views'
  BY <1>1 DEF MirrorInv, Views, Begins
<1>5. Begins(head.entries, head.entries)
  BY Parts, BeginsItself DEF MirrorInv
<1>6. Extended'
  BY <1>1, <1>5 DEF MirrorInv, Extended, Coherent, Begins, NoFiles, NoNote, Note, Notes
<1> QED
  BY <1>2, <1>3, <1>4, <1>6 DEF MirrorInv

\* One that is rejected is tried three times.
LEMMA IsRejected == ASSUME MirrorInv, PushRejected PROVE MirrorInv'
<1>1. SourceTyped' /\ run.pc = "push" /\ UNCHANGED <<files, head, origin>> /\ behind' = FALSE
  BY QuietKeeps DEF PushRejected, At
<1>2. run' \in RunSet /\ RunTrue'
  <2>1. CASE Ends
    BY <2>1, NothingRuns DEF Ends
  <2>2. CASE ~Ends
    <3>1. run.tries # 2 /\ run' = [run EXCEPT !.tries = run.tries + 1]
      BY <2>2 DEF PushRejected
    <3>2. run \in RunSet
      BY DEF MirrorInv, Typed
    <3>3. run.tries + 1 \in 0 .. 2
      BY <3>1, <3>2 DEF RunSet
    <3> DEFINE m == run.tries + 1
    <3>4. m \in 0 .. 2 /\ run' = [run EXCEPT !.tries = m]
      BY <3>1, <3>3
    <3> HIDE DEF m
    <3>5. run' \in RunSet /\ run'.pc = "push"
      BY <1>1, <3>2, <3>4 DEF RunSet
    <3> QED
      BY <3>5 DEF RunTrue
  <2> QED
    BY <2>1, <2>2
<1> QED
  BY <1>1, <1>2, RunStep

-----------------------------------------------------------------------------
(* The invariant. *)

\* Initially there is nothing in the mirror.
LEMMA InitInv == Init => MirrorInv
<1> SUFFICES ASSUME Init PROVE MirrorInv
  OBVIOUS
<1>1. /\ honest \in BOOLEAN /\ log = <<>> /\ disk = NoFiles /\ head = NoFiles /\ origin = NoFiles
      /\ dirty = FALSE /\ behind = FALSE /\ run = NoRun /\ faults = 0
  BY DEF Init
<1>2. SourceTyped
  BY <1>1, MirrorAssumption, TreesAreSequences DEF SourceTyped
<1>3. NoFiles \in FilesSet
  <2>1. <<>> \in Seq(Contents)
    BY TreesAreSequences
  <2>2. [s \in {} |-> NoNote] \in [{} -> NoteFiles]
    OBVIOUS
  <2>3. [s \in {} |-> NoNote] \in StoredFiles
    BY <2>2 DEF StoredFiles
  <2> QED
    BY <2>1, <2>3 DEF NoFiles, FilesSet
<1>4. OneFile(NoFiles)
  BY DEF OneFile, NoFiles
<1>5. Typed
  BY <1>1, <1>2, <1>3, <1>4, NothingRuns DEF Typed, DiskTyped, GitTyped
<1>6. RunTrue
  BY <1>1 DEF RunTrue, NoRun
<1>7. Views
  BY <1>1 DEF Views, NoFiles
<1>8. Extended
  <2>1. NoFiles.entries = <<>> /\ Begins(<<>>, <<>>)
    BY TreesAreSequences, BeginsItself DEF NoFiles
  <2> QED
    BY <1>1, <2>1 DEF Extended, Coherent
<1> QED
  BY <1>5, <1>6, <1>7, <1>8 DEF MirrorInv

\* Every step keeps it.
LEMMA NextInv == MirrorInv /\ [Next]_vars => MirrorInv'
<1> SUFFICES ASSUME MirrorInv, [Next]_vars PROVE MirrorInv'
  OBVIOUS
<1>0. SourceTyped /\ behind \in BOOLEAN
  BY DEF MirrorInv, Typed, GitTyped
<1>1. CASE Step
  BY <1>1, Starts, GetsNote, GetsPage, Checks, WritesEntry, Gathers, WritesStored, WritesLatest, WritesIndex,
     Commits, Pushes, IsRejected DEF Step
<1>2. CASE NetworkFails
  <2>1. SourceTyped'
    BY <1>0, <1>2, MirrorAssumption DEF NetworkFails, Fault, source, SourceTyped
  <2> QED
    BY <1>2, <2>1, Failing DEF NetworkFails
<1>3. CASE Killed
  BY <1>3, Killing
<1>4. CASE Grow
  <2>1. SourceTyped' /\ UNCHANGED <<files, head, origin, behind, run>>
    BY <1>0, <1>4 DEF Grow, SourceTyped, git
  <2> QED
    BY <1>0, <2>1, NothingWritten
<1>5. CASE OtherPush
  <2>1. SourceTyped' /\ UNCHANGED <<files, head, origin, run>> /\ behind' \in BOOLEAN
    BY <1>0, <1>5, MirrorAssumption DEF OtherPush, Fault, SourceTyped, source
  <2> QED
    BY <2>1, NothingWritten
<1>6. CASE UNCHANGED vars
  <2>1. SourceTyped' /\ UNCHANGED <<files, head, origin, behind, run>>
    BY <1>0, <1>6 DEF vars, SourceTyped, git, source
  <2> QED
    BY <1>0, <2>1, NothingWritten
<1> QED
  BY <1>1, <1>2, <1>3, <1>4, <1>5, <1>6 DEF Next

\* The inductive invariant.
THEOREM MirrorAlways == Spec => []MirrorInv
<1> QED
  BY InitInv, NextInv, PTL DEF Spec

-----------------------------------------------------------------------------
(* What follows. *)

\* A set of one element at most.
LEMMA OneAtMost == ASSUME NEW S, \A x, y \in S : x = y PROVE Cardinality(S) <= 1
<1>1. CASE S = {}
  BY <1>1, FS_EmptySet
<1>2. CASE S # {}
  <2>1. PICK x \in S : TRUE
    BY <1>2
  <2>2. S = {x}
    BY <2>1
  <2> QED
    BY <2>2, FS_Singleton
<1> QED
  BY <1>1, <1>2

\* Types: a run counts its attempts to push to three, and every file has one
\* content or none (decisions_mirror.py).
THEOREM MirrorTypes == Spec => []MirrorTypeOK
<1>1. MirrorInv => MirrorTypeOK
  <2> SUFFICES ASSUME MirrorInv PROVE MirrorTypeOK
    OBVIOUS
  <2>1. ASSUME NEW f \in FilesSet, OneFile(f) PROVE FilesOK(f)
    <3>1. Cardinality(f.latest) <= 1 /\ Cardinality(f.index) <= 1
      BY <2>1, OneAtMost DEF OneFile
    <3>2. PICK D \in SUBSET Nat : f.stored \in [D -> NoteFiles]
      BY <2>1 DEF FilesSet, StoredFiles
    <3> QED
      BY <2>1, <3>1, <3>2 DEF FilesOK, FilesSet, NoteFiles
  <2>2. \A f \in {disk, head, origin} : FilesOK(f)
    BY <2>1 DEF MirrorInv, Typed, DiskTyped, GitTyped
  <2> QED
    BY <2>2 DEF MirrorInv, Typed, SourceTyped, DiskTyped, GitTyped, RunSet, MirrorTypeOK
<1> QED
  BY <1>1, MirrorAlways, PTL

\* What is committed is one whole tree, and no checkpoint beside it is of another,
\* whatever the log served and wherever runs were killed (decisions_mirror.py).
THEOREM MirrorStaysSound == Spec => []MirrorSound
<1>1. MirrorInv => CommittedCoherent
  <2> SUFFICES ASSUME MirrorInv, head # NoFiles PROVE CommittedCoherent
    BY DEF CommittedCoherent
  <2>1. PICK note \in Notes : head.latest = {note} /\ note.tree = head.entries
    BY DEF MirrorInv, Extended, Coherent
  <2>2. Len(head.entries) \in DOMAIN head.stored /\ head.index = {Len(head.entries)}
    BY DEF MirrorInv, Extended, Coherent
  <2> QED
    BY <2>1, <2>2 DEF CommittedCoherent
<1>2. MirrorInv => CheckpointsAreViews
  <2> SUFFICES ASSUME MirrorInv, NEW s \in DOMAIN disk.stored, disk.stored[s] # Torn
               PROVE  Len(disk.stored[s].tree) = s /\ IsPrefixOf(disk.stored[s].tree, disk.entries)
    BY DEF CheckpointsAreViews
  <2>1. Len(disk.stored[s].tree) = s /\ Begins(disk.stored[s].tree, disk.entries)
    BY DEF MirrorInv, Views
  <2>2. disk.stored[s] \in NoteFiles
    <3>1. PICK D \in SUBSET Nat : disk.stored \in [D -> NoteFiles]
      BY DEF MirrorInv, Typed, DiskTyped, FilesSet, StoredFiles
    <3> QED
      BY <3>1
  <2>3. disk.stored[s].tree \in Seq(Contents) /\ disk.entries \in Seq(Contents)
    BY <2>2, TreesAreSequences, Parts DEF NoteFiles, Notes, MirrorInv
  <2> QED
    BY <2>1, <2>3, PrefixIsBegins
<1>3. MirrorInv => MirrorSound
  BY <1>1, <1>2 DEF MirrorSound
<1> QED
  BY <1>3, MirrorAlways, PTL

\* What is published is only ever extended, entries and checkpoint both, whatever
\* the log signs later (decisions_mirror.py).
THEOREM MirrorOnlyGrows == Spec => MirrorAppendOnly
<1>1. MirrorInv /\ MirrorInv' /\ [Next]_vars =>
        [/\ IsPrefixOf(origin.entries, origin'.entries)
         /\ \A old \in origin.latest, new \in origin'.latest : IsPrefixOf(old.tree, new.tree)]_vars
  <2> SUFFICES ASSUME MirrorInv, MirrorInv', [Next]_vars
               PROVE  /\ IsPrefixOf(origin.entries, origin'.entries)
                      /\ \A old \in origin.latest, new \in origin'.latest : IsPrefixOf(old.tree, new.tree)
    OBVIOUS
  <2>1. origin' = origin \/ origin' = head
    BY DEF Next, Step, vars, git, Fails, Start, GetNote, GetPage, Check, WriteEntry, Gather, WriteStored, WriteLatest,
           WriteIndex, Commit, Push, PushRejected, NetworkFails, Killed, Grow, OtherPush
  <2>2. origin.entries \in Seq(Contents) /\ head.entries \in Seq(Contents)
    BY Parts DEF MirrorInv
  <2>3. Begins(origin.entries, origin.entries) /\ Begins(origin.entries, head.entries)
    BY <2>2, BeginsItself DEF MirrorInv, Extended
  <2>4. IsPrefixOf(origin.entries, origin.entries) /\ IsPrefixOf(origin.entries, head.entries)
    BY <2>2, <2>3, PrefixIsBegins
  <2>5. ASSUME NEW f \in {head, origin}, NEW note \in f.latest PROVE note.tree = f.entries
    BY <2>5 DEF MirrorInv, Extended, Coherent, NoFiles
  <2>6. IsPrefixOf(origin.entries, origin'.entries)
    BY <2>1, <2>4
  <2>7. ASSUME NEW old \in origin.latest, NEW new \in origin'.latest PROVE IsPrefixOf(old.tree, new.tree)
    <3>1. old.tree = origin.entries
      BY <2>5
    <3>2. new.tree = origin'.entries
      BY <2>1, <2>5, <2>7
    <3> QED
      BY <2>6, <3>1, <3>2
  <2> QED
    BY <2>6, <2>7
<1> QED
  BY <1>1, MirrorAlways, PTL DEF Spec, MirrorAppendOnly
===============================================================================
