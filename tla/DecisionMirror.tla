---------------------------- MODULE DecisionMirror ----------------------------
(***************************************************************************)
(* decisions_mirror.py --push: one run every half hour (systemd/           *)
(* decisions-mirror.timer) copies the decision log into decisions/ of the  *)
(* aggregator's checkout, verifies it, commits and pushes.                 *)
(*                                                                         *)
(* The network is not trusted: a checkpoint is any tree the log ever       *)
(* signed, a page of leaves comes out of any of them.  A tree is the       *)
(* sequence of its leaves, which is what its root commits to.  Files are   *)
(* written in place, one after the other, so a run that is killed (or gets *)
(* an error while it writes) leaves the last of them as it was or torn.    *)
(* The checks of a single leaf and of signatures are part of what a log    *)
(* can serve.  Runs do not overlap: the unit is oneshot.                   *)
(***************************************************************************)
EXTENDS Naturals, FiniteSets, Sequences, Functions

CONSTANTS
  Leaves,     \* what can be in the log
  Trees,      \* bound: the trees the log signs
  Page,       \* leaves per request, 500
  Torn,       \* what a file holds that was being written
  MaxFaults   \* bound: kills, failed requests and failed pushes

ASSUME MirrorAssumption ==
  /\ Trees \subseteq Seq(Leaves) /\ <<>> \in Trees
  /\ Page \in Nat \ {0} /\ MaxFaults \in Nat
  /\ Torn \notin Leaves

VARIABLES
  honest,  \* TRUE: the log has one history and serves that
  log,     \* the decision log, if it is honest
  disk,    \* decisions/ in the working tree
  head,    \* decisions/ in HEAD
  origin,  \* decisions/ in origin/main
  dirty,   \* git status --porcelain decisions
  behind,  \* origin/main has commits of others that HEAD has not
  run,     \* the process
  faults

files == <<disk, dirty>>
git   == <<head, origin, behind>>
source == <<honest, log>>
vars  == <<source, files, git, run, faults>>

IsPrefixOf(l, m) == Len(l) <= Len(m) /\ SubSeq(m, 1, Len(l)) = l

Note(tree, cosigned) == [tree |-> tree, cosigned |-> cosigned]
NoNote == Note(<<>>, FALSE)
\* latest: decisions/checkpoint, as a set of at most one content; stored: the
\* files decisions/checkpoints/NNNNNNNN; index: the size INDEX.json is about.
NoFiles == [entries |-> <<>>, stored |-> [s \in {} |-> NoNote], latest |-> {}, index |-> {}]
NoRun == [pc |-> "idle", leaves |-> <<>>, note |-> NoNote, at |-> 0, changed |-> FALSE, tries |-> 0]

Init ==
  /\ honest \in BOOLEAN /\ log = <<>>
  /\ disk = NoFiles /\ head = NoFiles /\ origin = NoFiles
  /\ dirty = FALSE /\ behind = FALSE /\ run = NoRun
  /\ faults = 0

-----------------------------------------------------------------------------
At(l) == run.pc = l
Goto(l) == run' = [run EXCEPT !.pc = l]
Ends == run' = NoRun
\* Every exit with a message, and every exception.
Fails == Ends /\ UNCHANGED <<files, git>>
Quiet == UNCHANGED <<source, faults>>
Size == Len(run.note.tree)

\* Signed trees that can be served.
Served == IF honest THEN {log} ELSE Trees

\* Mutant of Start: the log is fetched anew, from its first leaf.
StartFromNothing ==
  /\ At("idle")
  /\ ~(head # origin /\ behind)
  /\ run' = [NoRun EXCEPT !.pc = "note", !.leaves = <<>>]
  /\ behind' = FALSE
  /\ UNCHANGED <<source, files, head, origin, faults>>
\* ExecStartPre: git pull --ff-only.  When a commit was left that could not be
\* pushed, and others have pushed since, that is refused for good: no run starts.
\* Then the entries are read.  They are written in order: there are no gaps to be found.
Start ==
  /\ At("idle")
  /\ ~(head # origin /\ behind)
  /\ run' = [NoRun EXCEPT !.pc = "note", !.leaves = disk.entries]
  /\ behind' = FALSE
  /\ UNCHANGED <<source, files, head, origin, faults>>
\* Mutant of GetNote: a tree of the mirrored size is taken for a rollback.
GetNoteIfLarger ==
  /\ At("note")
  /\ \E tree \in Served :
       IF Len(tree) <= Len(run.leaves) THEN Fails
       ELSE /\ run' = [run EXCEPT !.pc = "pages", !.note = Note(tree, FALSE)]
            /\ UNCHANGED <<files, git>>
  /\ Quiet
\* GET /decisions/checkpoint; a smaller tree than the mirrored one is a rollback.
GetNote ==
  /\ At("note")
  /\ \E tree \in Served :
       IF Len(tree) < Len(run.leaves) THEN Fails
       ELSE /\ run' = [run EXCEPT !.pc = "pages", !.note = Note(tree, FALSE)]
            /\ UNCHANGED <<files, git>>
  /\ Quiet

\* GET /decisions/leaves?from=&to=, from any tree that is long enough.
LastOfPage == IF Len(run.leaves) + Page < Size THEN Len(run.leaves) + Page ELSE Size
GetPage ==
  /\ At("pages") /\ Len(run.leaves) < Size
  /\ \E tree \in Served :
       LET got == SubSeq(tree, Len(run.leaves) + 1,
                         IF Len(tree) < LastOfPage THEN Len(tree) ELSE LastOfPage) IN
         IF got = <<>> THEN Fails
         ELSE run' = [run EXCEPT !.leaves = @ \o got] /\ UNCHANGED <<files, git>>
  /\ Quiet

\* The tree recomputes to the root that was served.
RootOK == run.leaves = run.note.tree
\* The previous checkpoint, if there is one: consistent, or the same.
ConsistentWith(prev) == IsPrefixOf(prev.tree, run.note.tree)
\* What a torn note parses to depends on where it was cut: not at all, empty,
\* or up to its signature.
PrevOK == \A prev \in disk.latest \ {Torn} : ConsistentWith(prev)
MayRefuse == Torn \in disk.latest \/ ~PrevOK

Check ==
  /\ At("pages") /\ Len(run.leaves) = Size
  /\ \/ ~RootOK /\ Fails
     \/ RootOK /\ MayRefuse /\ Fails
     \/ /\ RootOK /\ PrevOK
        /\ run' = [run EXCEPT !.pc = "entries", !.at = Len(disk.entries)]
        /\ UNCHANGED <<files, git>>
  /\ Quiet

-----------------------------------------------------------------------------
(* The files.  Each Write puts the content given; a kill puts Torn.        *)

PutEntry(x) ==
  disk' = [disk EXCEPT !.entries = [i \in DOMAIN @ \cup {run.at + 1} |-> IF i = run.at + 1 THEN x ELSE @[i]]]
PutStored(x) ==
  disk' = [disk EXCEPT !.stored = [s \in DOMAIN @ \cup {Size} |-> IF s = Size THEN x ELSE @[s]]]
PutLatest(x) == disk' = [disk EXCEPT !.latest = {x}]
PutIndex(x)  == disk' = [disk EXCEPT !.index = {x}]

\* for idx in range(len(have), size): open(entries/idx, "wb").write(...)
WriteEntry ==
  /\ At("entries") /\ run.at < Size
  /\ PutEntry(run.leaves[run.at + 1]) /\ dirty' = TRUE
  /\ run' = [run EXCEPT !.at = @ + 1, !.changed = TRUE]
  /\ UNCHANGED git /\ Quiet

\* gather_cosignatures: the witnesses cosign, or they do not.
Gather ==
  /\ At("entries") /\ run.at = Size
  /\ \E cosigned \in IF Size > 0 THEN BOOLEAN ELSE {FALSE} :
       run' = [run EXCEPT !.pc = "stored", !.note.cosigned = cosigned]
  /\ UNCHANGED <<files, git>> /\ Quiet

\* Mutant of NoteIsNew: a checkpoint of a size that is stored is not written.
NoteIsNewBySize == Size \notin DOMAIN disk.stored
\* if not os.path.exists(cp) or (prev or "") != full.  A cosignature carries
\* its time, so a cosigned note is never the one before.
NoteIsNew ==
  \/ Size \notin DOMAIN disk.stored
  \/ run.note.cosigned \/ disk.latest # {run.note}
WriteStored ==
  /\ At("stored")
  /\ IF NoteIsNew
       THEN /\ PutStored(run.note) /\ dirty' = TRUE
            /\ run' = [run EXCEPT !.pc = "latest", !.changed = TRUE]
       ELSE Goto("index") /\ UNCHANGED files
  /\ UNCHANGED git /\ Quiet
WriteLatest ==
  /\ At("latest")
  /\ PutLatest(run.note) /\ dirty' = TRUE /\ Goto("index")
  /\ UNCHANGED git /\ Quiet

\* INDEX.json is parsed, and written if it is about another size.
WriteIndex ==
  /\ At("index")
  /\ IF disk.index = {Torn} THEN Fails
     ELSE /\ IF disk.index = {Size} THEN Goto("commit") /\ UNCHANGED files
             ELSE /\ PutIndex(Size) /\ dirty' = TRUE
                  /\ run' = [run EXCEPT !.pc = "commit", !.changed = TRUE]
          /\ UNCHANGED git
  /\ Quiet

-----------------------------------------------------------------------------
(* git                                                                     *)

\* print("changed" if changed else "unchanged"); add, status, commit.
Commit ==
  /\ At("commit")
  /\ IF run.changed /\ dirty
       THEN /\ head' = disk /\ dirty' = FALSE /\ Goto("push")
            /\ UNCHANGED <<disk, origin, behind>>
       ELSE Ends /\ UNCHANGED <<files, git>>
  /\ Quiet

\* git push
Push ==
  /\ At("push") /\ ~behind
  /\ origin' = head /\ Ends
  /\ UNCHANGED <<files, head, behind>> /\ Quiet
\* Mutant of PushRejected: one attempt too many.
PushRejectedAgain ==
  /\ At("push") /\ behind
  /\ behind' = FALSE
  /\ IF run.tries = 3 THEN Ends
     ELSE run' = [run EXCEPT !.tries = @ + 1]
  /\ UNCHANGED <<files, head, origin>> /\ Quiet
\* The push is rejected; git pull --rebase, and the next of three attempts.
PushRejected ==
  /\ At("push") /\ behind
  /\ behind' = FALSE
  /\ IF run.tries = 2 THEN Ends
     ELSE run' = [run EXCEPT !.tries = @ + 1]
  /\ UNCHANGED <<files, head, origin>> /\ Quiet

-----------------------------------------------------------------------------
(* Around the run                                                          *)

Fault == faults < MaxFaults /\ faults' = faults + 1

\* A request fails, or git pull --rebase does: the run ends where it is.
NetworkFails ==
  /\ run.pc \in {"note", "pages", "push"}
  /\ Fault /\ Fails /\ UNCHANGED source

\* The process is killed, or gets an error, while it writes.
Killed ==
  /\ ~At("idle") /\ Fault
  /\ Ends
  /\ \/ UNCHANGED files
     \/ At("entries") /\ run.at < Size /\ PutEntry(Torn) /\ dirty' = TRUE
     \/ At("stored") /\ NoteIsNew /\ PutStored(Torn) /\ dirty' = TRUE
     \/ At("latest") /\ PutLatest(Torn) /\ dirty' = TRUE
     \/ At("index") /\ disk.index \notin {{Size}, {Torn}} /\ PutIndex(Torn) /\ dirty' = TRUE
  /\ UNCHANGED <<source, git>>

\* External: the log grows, and others push.
Grow ==
  /\ honest
  /\ \E tree \in Trees : Len(tree) = Len(log) + 1 /\ IsPrefixOf(log, tree) /\ log' = tree
  /\ UNCHANGED <<honest, files, git, run, faults>>
OtherPush ==
  /\ ~behind /\ Fault /\ behind' = TRUE
  /\ UNCHANGED <<source, files, head, origin, run>>

Step ==
  \/ Start \/ GetNote \/ GetPage \/ Check \/ WriteEntry \/ Gather
  \/ WriteStored \/ WriteLatest \/ WriteIndex \/ Commit \/ Push \/ PushRejected
Next == Step \/ NetworkFails \/ Killed \/ Grow \/ OtherPush

Spec == Init /\ [][Next]_vars
FairSpec == Spec /\ WF_vars(Step)

-----------------------------------------------------------------------------
(* Properties                                                              *)

Contents == Leaves \cup {Torn}
Notes == [tree : Trees, cosigned : BOOLEAN]
FilesOK(f) ==
  /\ f.entries \in Seq(Contents) /\ f.latest \subseteq Notes \cup {Torn}
  /\ \A s \in DOMAIN f.stored : s \in Nat /\ f.stored[s] \in Notes \cup {Torn}
  /\ f.index \subseteq Nat \cup {Torn}
  /\ Cardinality(f.latest) <= 1 /\ Cardinality(f.index) <= 1

\* Every variable has its type.
MirrorTypeOK ==
  /\ honest \in BOOLEAN /\ log \in Trees /\ \A f \in {disk, head, origin} : FilesOK(f)
  /\ dirty \in BOOLEAN /\ behind \in BOOLEAN /\ faults \in 0..MaxFaults
  /\ run.pc \in {"idle", "note", "pages", "entries", "stored", "latest", "index", "commit", "push"}
  /\ run.leaves \in Seq(Contents) /\ run.note \in Notes
  /\ run.at \in Nat /\ run.changed \in BOOLEAN /\ run.tries \in 0..2

\* What is committed is one tree: the entries are whole, decisions/checkpoint is
\* the checkpoint of just these, one of their size is kept, and INDEX.json is
\* about them - whatever the log served, and however runs were killed before.
CommittedCoherent ==
  head # NoFiles =>
    LET size == Len(head.entries) IN
      /\ head.latest # {} /\ head.latest \subseteq Notes
      /\ \A note \in head.latest : note.tree = head.entries
      /\ size \in DOMAIN head.stored
      /\ head.index = {size}

\* Every whole checkpoint in the mirror, of whatever size, is of a part of the
\* entries beside it: no split view and no rollback is ever taken over.
CheckpointsAreViews ==
  \A s \in DOMAIN disk.stored :
    disk.stored[s] # Torn =>
      /\ Len(disk.stored[s].tree) = s
      /\ IsPrefixOf(disk.stored[s].tree, disk.entries)

\* What is committed is one tree, and no checkpoint beside it is of another one.
MirrorSound == CommittedCoherent /\ CheckpointsAreViews

\* What is published is only ever extended, the entries and the checkpoint both:
\* no one who pulls is shown a tree that the one before is not a part of.
MirrorAppendOnly ==
  [][/\ IsPrefixOf(origin.entries, origin'.entries)
     /\ \A old \in origin.latest, new \in origin'.latest : IsPrefixOf(old.tree, new.tree)]_vars

\* What the runs that follow do not repair by themselves: a torn file that they
\* read, a commit that was not pushed, and files that were complete when the run
\* was killed before its commit (the next one finds nothing "changed").
Stalled ==
  \/ Torn \in disk.latest \/ Torn \in disk.index \/ Torn \in Range(disk.entries)
  \/ head # origin
  \/ dirty /\ disk.entries = log /\ disk.index = {Len(log)}
\* Any other kill or error, between any two files or requests, is made up for by
\* the runs that follow: in the end the mirror that is published holds the log.
CatchesUp ==
  honest => <>[](Stalled \/ (origin.entries = log /\ \A note \in origin.latest : note.tree = log))

\* decisions_mirror.py: "Any failure leaves the mirror untouched".  Then no
\* torn checkpoint could ever be committed.
CommittedWhole == \A s \in DOMAIN head.stored : head.stored[s] # Torn

\* anchor_lib.py: "witness cosignatures are appended to the same file later
\* (c2sp signed notes accumulate signature lines)".
CosignaturesAccumulate ==
  [][\A s \in DOMAIN head.stored :
       head.stored[s] \in Notes /\ head.stored[s].cosigned =>
         head'.stored[s] \in Notes /\ head'.stored[s].cosigned]_vars
=============================================================================
