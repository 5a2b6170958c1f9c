---------------------------- MODULE WorkflowProofs ----------------------------
(***************************************************************************)
(* What a VERIFIED decision stands for, for any number of contracts, paths *)
(* and time-stamp authorities, any clock, any evidence of timing, and any  *)
(* number of killed commands and lost answers.                             *)
(***************************************************************************)
EXTENDS Workflow, SequenceTheorems, TLAPS

\* A receipt that can be read is of an entry of the log, and of its place.
ReceiptsTrue ==
  \A p \in Paths :
    LET r == files[p].receipt IN
    r.of \in Plans => r.seq \in DOMAIN log /\ log[r.seq] = [contract |-> r.of, received |-> r.received]

\* A contract is in the log once.
LoggedOnce == \A i, j \in DOMAIN log : log[i].contract = log[j].contract => i = j

\* A transcript that names the log's authority was made for the first entry, and
\* one of a run that lacked evidence shows it.
TranscriptsTrue ==
  \A c \in Plans :
    LET t == transcripts[c] IN
    /\ t.status = "authoritative" => log # <<>> /\ log[1].contract = c
    /\ t.dry => ~t.complete \/ t.status # "authoritative"

\* The inductive invariant: the files say the truth about the log.
WorkflowInv == WorkflowTypeOK /\ ReceiptsTrue /\ LoggedOnce /\ TranscriptsTrue

-----------------------------------------------------------------------------
(* The log and the files. *)

\* What the type says of the log, element by element.
LEMMA LogElements ==
  ASSUME WorkflowTypeOK
  PROVE  /\ Len(log) \in Nat /\ DOMAIN log = 1 .. Len(log)
         /\ \A i \in DOMAIN log : log[i].contract \in 1 .. Len(contracts) /\ log[i].received \in Times
         /\ log = <<>> <=> Len(log) = 0
         /\ Len(contracts) \in Nat /\ Len(contracts) <= MaxPlans
<1>1. log \in Seq([contract : 1 .. Len(contracts), received : Times])
  BY DEF WorkflowTypeOK
<1>2. \A i \in 1 .. Len(log) : log[i] \in [contract : 1 .. Len(contracts), received : Times]
  BY <1>1, ElementOfSeq
<1> QED
  BY <1>1, <1>2, LenProperties, EmptySeq DEF WorkflowTypeOK

\* Registering a contract leaves what is in the log as it is, and the contract in
\* it, once.
LEMMA SubmitAppends ==
  ASSUME WorkflowTypeOK, LoggedOnce, NEW c \in 1 .. Len(contracts), Submit(c), UNCHANGED <<contracts, now>>
  PROVE  /\ log' \in Seq([contract : 1 .. Len(contracts), received : Times])
         /\ \A i \in DOMAIN log : i \in DOMAIN log' /\ log'[i] = log[i]
         /\ \E i \in DOMAIN log' : log'[i].contract = c
         /\ LoggedOnce'
         /\ DOMAIN log' \subseteq Nat
<1> DEFINE E == [contract : 1 .. Len(contracts), received : Times]
<1> DEFINE e == [contract |-> c, received |-> now]
<1>1. log \in Seq(E) /\ e \in E
  BY DEF WorkflowTypeOK
<1>2. CASE Registered(c)
  BY <1>1, <1>2, LogElements DEF Submit, Registered, LoggedOnce
<1>3. CASE ~Registered(c)
  <2>1. log' = Append(log, e)
    BY <1>3 DEF Submit
  <2>2. /\ log' \in Seq(E) /\ Len(log') = Len(log) + 1
        /\ \A i \in 1 .. Len(log) : log'[i] = log[i]
        /\ log'[Len(log) + 1] = e
    <3> HIDE DEF e, E
    <3> QED BY <1>1, <2>1, AppendProperties
  <2>3. DOMAIN log = 1 .. Len(log) /\ DOMAIN log' = 1 .. Len(log) + 1 /\ Len(log) \in Nat
    BY <1>1, <2>2, LenProperties
  <2>4. ASSUME NEW i \in DOMAIN log', NEW j \in DOMAIN log', log'[i].contract = log'[j].contract
        PROVE  i = j
    <3>1. \A k \in DOMAIN log : log'[k].contract # c
      BY <1>3, <2>2, <2>3 DEF Registered
    <3>2. i = Len(log) + 1 \/ i \in DOMAIN log
      BY <2>3
    <3>3. j = Len(log) + 1 \/ j \in DOMAIN log
      BY <2>3
    <3>4. log'[Len(log) + 1].contract = c
      BY <2>2
    <3> QED
      BY <2>2, <2>3, <2>4, <3>1, <3>2, <3>3, <3>4 DEF LoggedOnce
  <2> QED
    BY <2>2, <2>3, <2>4 DEF LoggedOnce
<1> QED
  BY <1>2, <1>3

\* The type of what lies at a path.
FileSet(n) ==
  [contract : 0 .. n, sig : 0 .. n, tokens : [TSAs -> TokenFiles], receipt : ReceiptFiles]

\* A contract that is beside its files has been written.
LEMMA FilesTyped ==
  ASSUME WorkflowTypeOK, NEW p \in Paths
  PROVE  /\ files[p] \in FileSet(Len(contracts))
         /\ Contract(p) # Absent => Contract(p) \in 1 .. Len(contracts) /\ Contract(p) \in Plans
<1>1. files[p] \in FileSet(Len(contracts))
  BY DEF WorkflowTypeOK, FileSet
<1>2. Contract(p) \in 0 .. Len(contracts)
  BY <1>1 DEF FileSet, Contract
<1>3. Len(contracts) \in Nat /\ Len(contracts) <= MaxPlans
  BY LogElements
<1> QED
  BY <1>1, <1>2, <1>3, WorkflowAssumption DEF Absent, Plans

-----------------------------------------------------------------------------
(* Every command keeps the invariant. *)

\* Initially there are no files.
LEMMA InitInv == Init => WorkflowInv
<1> SUFFICES ASSUME Init PROVE WorkflowInv
  OBVIOUS
<1> USE WorkflowAssumption
<1>1. Len(log) = 0 /\ Len(contracts) = 0
  BY EmptySeq DEF Init
<1>2. NoFiles \in FileSet(0)
  BY DEF NoFiles, FileSet, NoToken, NoReceipt, Absent, TokenFiles, ReceiptFiles, Times
<1>3. WorkflowTypeOK
  BY <1>1, <1>2, EmptySeq
     DEF Init, WorkflowTypeOK, FileSet, Times, NoTranscript, TranscriptFiles
<1>4. ReceiptsTrue
  BY DEF Init, ReceiptsTrue, NoFiles, NoReceipt, Absent, Plans
<1>5. LoggedOnce /\ TranscriptsTrue
  BY <1>1 DEF Init, LoggedOnce, TranscriptsTrue, NoTranscript
<1> QED
  BY <1>3, <1>4, <1>5 DEF WorkflowInv

\* A plan replaces the contract and its statement and leaves the rest, made for
\* the contract before it, as it is.
LEMMA PlanKeeps ==
  ASSUME WorkflowInv, NEW p \in Paths, NEW rel \in Rels, NEW kind \in Kinds, NEW killed \in BOOLEAN,
         Plan(p, rel, kind, killed)
  PROVE  WorkflowInv'
<1> USE WorkflowAssumption
<1> DEFINE n == Len(contracts)
<1> DEFINE c == [rel |-> rel, kind |-> kind]
<1>1. contracts \in Seq([rel : Rels, kind : Kinds]) /\ c \in [rel : Rels, kind : Kinds] /\ n \in Nat /\ n < MaxPlans
  BY LogElements DEF WorkflowInv, WorkflowTypeOK, Plan
<1>2. contracts' = Append(contracts, c) /\ contracts' \in Seq([rel : Rels, kind : Kinds]) /\ Len(contracts') = n + 1
  <2>1. contracts' = Append(contracts, c)
    BY DEF Plan
  <2> HIDE DEF c, n
  <2>2. Append(contracts, c) \in Seq([rel : Rels, kind : Kinds]) /\ Len(Append(contracts, c)) = Len(contracts) + 1
    BY <1>1, AppendProperties
  <2> QED
    BY <2>1, <2>2 DEF n
<1>3. files' \in [Paths -> FileSet(n + 1)]
  <2>1. \A q \in Paths : files[q] \in FileSet(n + 1)
    BY <1>1, FilesTyped DEF WorkflowInv, FileSet
  <2>2. files' = [files EXCEPT ![p] = [files[p] EXCEPT !.contract = n + 1,
                     !.sig = IF kind = "legacy" \/ killed THEN @ ELSE n + 1]]
    BY <1>2 DEF Plan, SetFiles
  <2>3. [files[p] EXCEPT !.contract = n + 1, !.sig = IF kind = "legacy" \/ killed THEN @ ELSE n + 1] \in FileSet(n + 1)
    <3> DEFINE f == files[p]
    <3> DEFINE s == IF kind = "legacy" \/ killed THEN f.sig ELSE n + 1
    <3>1. f \in FileSet(n + 1) /\ n + 1 \in 0 .. n + 1
      BY <1>1, <2>1
    <3> HIDE DEF f, n
    <3>2. s \in 0 .. n + 1
      BY <3>1 DEF FileSet
    <3> HIDE DEF s
    <3>3. [f EXCEPT !.contract = n + 1, !.sig = s] \in FileSet(n + 1)
      BY <3>1, <3>2 DEF FileSet
    <3> QED
      BY <3>3 DEF f, s
  <2>4. files \in [Paths -> FileSet(n + 1)]
    BY <2>1 DEF WorkflowInv, WorkflowTypeOK
  <2> QED
    BY <2>2, <2>3, <2>4
<1>4. log' = log /\ log \in Seq([contract : 1 .. n + 1, received : Times])
  <2>1. [contract : 1 .. n, received : Times] \subseteq [contract : 1 .. n + 1, received : Times]
    BY <1>1
  <2>2. log \in Seq([contract : 1 .. n, received : Times])
    BY DEF WorkflowInv, WorkflowTypeOK
  <2> QED
    BY <2>1, <2>2, SeqMonotonic DEF Plan
<1>5. faults' \in 0 .. MaxFaults
  BY DEF WorkflowInv, WorkflowTypeOK, Plan, Fault
<1>6. WorkflowTypeOK'
  <2>1. UNCHANGED <<now, transcripts>> /\ Len(contracts') <= MaxPlans
    BY <1>1, <1>2 DEF Plan
  <2>2. /\ files' \in [Paths -> [contract : 0 .. Len(contracts'), sig : 0 .. Len(contracts'),
                                tokens : [TSAs -> TokenFiles], receipt : ReceiptFiles]]
        /\ log' \in Seq([contract : 1 .. Len(contracts'), received : Times])
    BY <1>2, <1>3, <1>4 DEF FileSet
  <2> QED
    BY <1>2, <1>5, <2>1, <2>2 DEF WorkflowInv, WorkflowTypeOK
<1>7. \A q \in Paths : files'[q].receipt = files[q].receipt
  BY DEF Plan, SetFiles, WorkflowInv, WorkflowTypeOK
<1>8. ReceiptsTrue' /\ LoggedOnce' /\ TranscriptsTrue'
  BY <1>4, <1>7 DEF Plan, WorkflowInv, ReceiptsTrue, LoggedOnce, TranscriptsTrue, Plans
<1> QED
  BY <1>6, <1>8 DEF WorkflowInv

\* A token, or what a killed command leaves of it, is beside one contract.
LEMMA TimestampKeeps ==
  ASSUME WorkflowInv, NEW p \in Paths, NEW t \in TSAs, NEW killed \in BOOLEAN, Timestamp(p, t, killed)
  PROVE  WorkflowInv'
<1> USE WorkflowAssumption
<1> DEFINE token == IF killed THEN [of |-> Garbage, at |-> 0] ELSE [of |-> Contract(p), at |-> now]
<1>1. token \in TokenFiles
  <2>1. Contract(p) \in 0 .. MaxPlans + 1 /\ Garbage \in 0 .. MaxPlans + 1 /\ 0 \in Times
    BY FilesTyped DEF WorkflowInv, Timestamp, Garbage, Times, Plans
  <2>2. now \in Times
    BY DEF WorkflowInv, WorkflowTypeOK
  <2> QED
    BY <2>1, <2>2 DEF TokenFiles
<1>2. files' = [files EXCEPT ![p] = [files[p] EXCEPT !.tokens[t] = token]]
  BY DEF Timestamp, SetFiles
<1>3. files[p] \in FileSet(Len(contracts)) /\ files \in [Paths -> FileSet(Len(contracts))]
  BY FilesTyped DEF WorkflowInv, WorkflowTypeOK, FileSet
<1>4. [files[p] EXCEPT !.tokens[t] = token] \in FileSet(Len(contracts))
  <2> HIDE DEF token
  <2>1. [files[p].tokens EXCEPT ![t] = token] \in [TSAs -> TokenFiles]
    BY <1>1, <1>3 DEF FileSet
  <2> QED
    BY <1>3, <2>1 DEF FileSet
<1>5. files' \in [Paths -> FileSet(Len(contracts))] /\ \A q \in Paths : files'[q].receipt = files[q].receipt
  <2> HIDE DEF token
  <2> QED
    BY <1>2, <1>3, <1>4 DEF FileSet
<1>6. faults' \in 0 .. MaxFaults /\ UNCHANGED <<now, contracts, transcripts, log>>
  BY DEF WorkflowInv, WorkflowTypeOK, Timestamp, Fault
<1>7. WorkflowTypeOK'
  BY <1>5, <1>6 DEF WorkflowInv, WorkflowTypeOK, FileSet
<1> QED
  BY <1>5, <1>6, <1>7 DEF WorkflowInv, ReceiptsTrue, LoggedOnce, TranscriptsTrue

\* A receipt that is written names the entry that the log has of the contract.
LEMMA RegisterKeeps ==
  ASSUME WorkflowInv, NEW p \in Paths, NEW outcome \in {"written", "lost", "torn"}, Register(p, outcome)
  PROVE  WorkflowInv'
<1> USE WorkflowAssumption
<1> DEFINE c == files[p].sig
<1> DEFINE receipt == CASE outcome = "written" -> ReceiptFor(c, log')
                        [] outcome = "lost" -> files[p].receipt
                        [] outcome = "torn" -> [NoReceipt EXCEPT !.of = Garbage]
<1>0. UNCHANGED <<now, contracts, transcripts>>
  BY DEF Register
<1>1. c \in 1 .. Len(contracts) /\ c \in Plans /\ Len(contracts) \in Nat
  BY FilesTyped, LogElements DEF WorkflowInv, Register, Bound
<1>2. /\ log' \in Seq([contract : 1 .. Len(contracts), received : Times])
      /\ \A i \in DOMAIN log : i \in DOMAIN log' /\ log'[i] = log[i]
      /\ \E i \in DOMAIN log' : log'[i].contract = c
      /\ LoggedOnce' /\ DOMAIN log' \subseteq Nat
  <2>1. Submit(c)
    BY DEF Register
  <2> HIDE DEF c
  <2> QED
    BY <1>0, <1>1, <2>1, SubmitAppends DEF WorkflowInv
<1>3. \A i \in DOMAIN log' : log'[i] \in [contract : 1 .. Len(contracts), received : Times]
  <2> DEFINE E == [contract : 1 .. Len(contracts), received : Times]
  <2>1. log' \in Seq(E)
    BY <1>2
  <2> HIDE DEF E
  <2>2. \A i \in DOMAIN log' : log'[i] \in E
    BY <2>1, ElementOfSeq, LenProperties
  <2> QED
    BY <2>2 DEF E
<1>4. /\ ReceiptFor(c, log').of = c
      /\ ReceiptFor(c, log').seq \in DOMAIN log'
      /\ log'[ReceiptFor(c, log').seq] = [contract |-> c, received |-> ReceiptFor(c, log').received]
      /\ ReceiptFor(c, log') \in ReceiptFiles
  <2> HIDE DEF c
  <2> DEFINE j == CHOOSE k \in DOMAIN log' : log'[k].contract = c
  <2>1. j \in DOMAIN log' /\ log'[j].contract = c
    BY <1>2
  <2>2. ReceiptFor(c, log') = [of |-> c, seq |-> j, received |-> log'[j].received]
    BY DEF ReceiptFor
  <2> HIDE DEF j
  <2>3. log'[j] = [contract |-> c, received |-> log'[j].received] /\ log'[j].received \in Times
    BY <1>3, <2>1
  <2> QED
    BY <1>1, <1>2, <2>1, <2>2, <2>3 DEF ReceiptFiles, Plans
<1>5. receipt \in ReceiptFiles /\ (receipt.of \in Plans => receipt = files[p].receipt \/ receipt = ReceiptFor(c, log'))
  <2>1. CASE outcome = "written"
    BY <1>4, <2>1
  <2>2. CASE outcome = "lost"
    BY <2>2, FilesTyped DEF WorkflowInv, FileSet
  <2>3. CASE outcome = "torn"
    BY <2>3 DEF NoReceipt, ReceiptFiles, Garbage, Times, Plans
  <2> QED
    BY <2>1, <2>2, <2>3
<1>6. files' = [files EXCEPT ![p] = [files[p] EXCEPT !.receipt = receipt]]
  BY DEF Register, SetFiles
<1> HIDE DEF receipt, c
<1>7. files[p] \in FileSet(Len(contracts)) /\ files \in [Paths -> FileSet(Len(contracts))]
  BY FilesTyped DEF WorkflowInv, WorkflowTypeOK, FileSet
<1>8. files' \in [Paths -> FileSet(Len(contracts))]
  BY <1>5, <1>6, <1>7 DEF FileSet
<1>9. faults' \in 0 .. MaxFaults
  BY DEF WorkflowInv, WorkflowTypeOK, Register, Fault
<1>10. WorkflowTypeOK'
  BY <1>0, <1>2, <1>8, <1>9 DEF WorkflowInv, WorkflowTypeOK, FileSet
<1>11. ReceiptsTrue'
  <2> SUFFICES ASSUME NEW q \in Paths, files'[q].receipt.of \in Plans
               PROVE  /\ files'[q].receipt.seq \in DOMAIN log'
                      /\ log'[files'[q].receipt.seq] =
                           [contract |-> files'[q].receipt.of, received |-> files'[q].receipt.received]
    BY DEF ReceiptsTrue, Plans
  <2>1. files'[q].receipt = files[q].receipt \/ (q = p /\ files'[q].receipt = receipt)
    BY <1>6, <1>7 DEF FileSet
  <2>2. files'[q].receipt = files[q].receipt \/ files'[q].receipt = ReceiptFor(c, log')
    BY <1>5, <2>1
  <2>3. CASE files'[q].receipt = ReceiptFor(c, log')
    BY <1>4, <2>3
  <2>4. CASE files'[q].receipt = files[q].receipt
    <3> DEFINE r == files[q].receipt
    <3>1. r.seq \in DOMAIN log /\ log[r.seq] = [contract |-> r.of, received |-> r.received]
      BY <2>4 DEF WorkflowInv, ReceiptsTrue
    <3>2. r.seq \in DOMAIN log' /\ log'[r.seq] = [contract |-> r.of, received |-> r.received]
      BY <1>2, <3>1
    <3> QED
      BY <2>4, <3>2
  <2> QED
    BY <2>2, <2>3, <2>4
<1>12. TranscriptsTrue'
  <2>1. log # <<>> => log' # <<>> /\ log'[1] = log[1]
    <3>1. log # <<>> => 1 \in DOMAIN log
      BY LogElements DEF WorkflowInv
    <3>2. 1 \in DOMAIN log' => log' # <<>>
      BY EmptySeq
    <3> QED
      BY <1>2, <3>1, <3>2
  <2> QED
    BY <1>0, <2>1 DEF WorkflowInv, TranscriptsTrue, Plans
<1> QED
  BY <1>2, <1>10, <1>11, <1>12 DEF WorkflowInv

\* A transcript names the log's authority only when the log does.
LEMMA ExecuteKeeps ==
  ASSUME WorkflowInv, NEW p \in Paths, NEW allow \in BOOLEAN, NEW status \in Answers(p), Execute(p, status, allow)
  PROVE  WorkflowInv'
<1> USE WorkflowAssumption
<1> DEFINE c == Contract(p)
<1> DEFINE T == [status |-> IF Legacy(p) THEN "unsigned" ELSE status,
                 complete |-> TimestampVerdict(p, TRUE), dry |-> Lacking(p, status)]
<1>1. c \in Plans /\ transcripts' = [transcripts EXCEPT ![c] = T] /\ UNCHANGED <<now, contracts, files, log, faults>>
  BY FilesTyped DEF WorkflowInv, Execute
<1>2. status \in {"unregistered", "authoritative", "superseded", "unreachable"}
  BY DEF Answers, Status
<1>3. ~Legacy(p) => status # "superseded"
  BY DEF Execute, Accepted, Authority
<1>4. T \in TranscriptFiles
  BY <1>2, <1>3 DEF TranscriptFiles, TimestampVerdict, Lacking, Legacy, AnyFailed, AllBefore, Complete
<1>5. T.status = "authoritative" => log # <<>> /\ log[1].contract = c
  <2> SUFFICES ASSUME ~Legacy(p), status = "authoritative" PROVE log # <<>> /\ log[1].contract = c
    OBVIOUS
  <2>1. files[p].sig = c
    BY DEF Execute, Accepted, Signed, Bound
  <2>2. PICK seen \in 0 .. Len(log) : Status(c, seen) = "authoritative"
    BY <2>1 DEF Answers
  <2> HIDE DEF c
  <2>3. seen # 0 /\ log[1].contract = c
    BY <2>2 DEF Status
  <2> QED
    BY <2>3, LogElements DEF WorkflowInv
<1>6. T.dry => ~T.complete \/ T.status # "authoritative"
  BY DEF Lacking, TimestampVerdict, Complete
<1> HIDE DEF T, c
<1>7. WorkflowTypeOK'
  BY <1>1, <1>4 DEF WorkflowInv, WorkflowTypeOK
<1>8. TranscriptsTrue'
  BY <1>1, <1>5, <1>6 DEF WorkflowInv, WorkflowTypeOK, TranscriptsTrue, Plans
<1> QED
  BY <1>1, <1>7, <1>8 DEF WorkflowInv, ReceiptsTrue, LoggedOnce

\* Every step of the client keeps the invariant.
LEMMA StepKeeps == WorkflowInv /\ [Next]_vars => WorkflowInv'
<1> SUFFICES ASSUME WorkflowInv, [Next]_vars PROVE WorkflowInv'
  OBVIOUS
<1>1. CASE Tick
  BY <1>1, WorkflowAssumption
     DEF Tick, WorkflowInv, WorkflowTypeOK, Times, ReceiptsTrue, LoggedOnce, TranscriptsTrue
<1>2. ASSUME NEW p \in Paths, NEW rel \in Rels, NEW kind \in Kinds, NEW killed \in BOOLEAN,
             Plan(p, rel, kind, killed)
      PROVE  WorkflowInv'
  BY <1>2, PlanKeeps
<1>3. ASSUME NEW p \in Paths, NEW t \in TSAs, NEW killed \in BOOLEAN, Timestamp(p, t, killed)
      PROVE  WorkflowInv'
  BY <1>3, TimestampKeeps
<1>4. ASSUME NEW p \in Paths, NEW outcome \in {"written", "lost", "torn"}, Register(p, outcome)
      PROVE  WorkflowInv'
  BY <1>4, RegisterKeeps
<1>5. ASSUME NEW p \in Paths, NEW allow \in BOOLEAN, NEW status \in Answers(p), Execute(p, status, allow)
      PROVE  WorkflowInv'
  BY <1>5, ExecuteKeeps
<1>6. CASE UNCHANGED vars
  BY <1>6 DEF vars, WorkflowInv, WorkflowTypeOK, ReceiptsTrue, LoggedOnce, TranscriptsTrue
<1> QED
  BY <1>1, <1>2, <1>3, <1>4, <1>5, <1>6 DEF Next

\* The invariant holds in every state of every behaviour.
LEMMA WorkflowAlways == Spec => []WorkflowInv
<1> QED
  BY InitInv, StepKeeps, PTL DEF Spec

-----------------------------------------------------------------------------
(* What follows. *)

\* For any contracts, authorities and faults: the files, the transcripts and the
\* log keep their types; a transcript is never of a superseded contract.
THEOREM WorkflowTypes == Spec => []WorkflowTypeOK
<1> QED
  BY WorkflowAlways, PTL DEF WorkflowInv

\* A bundle that checks as VERIFIED is of the first contract of its namespace, in
\* the log and stamped before its round (receipt.check_bundle, offline).
THEOREM VerifiedStaysFirst == Spec => []VerifiedIsFirst
<1>1. ASSUME WorkflowInv PROVE VerifiedIsFirst
  <2> SUFFICES ASSUME NEW p \in Paths, Executed(p), CheckBundle(p, "ok", TRUE) = "VERIFIED"
               PROVE  /\ log # <<>>
                      /\ log[1] = [contract |-> Contract(p), received |-> files[p].receipt.received]
                      /\ log[1].received < Release(p)
                      /\ \A t \in TSAs : files[p].tokens[t].of = Contract(p) /\ files[p].tokens[t].at < Release(p)
    BY DEF VerifiedIsFirst
  <2>1. ~FilesFail(p) /\ ~PulsesFail(p, "ok") /\ ~CheckDegrades(p, TRUE)
    BY DEF CheckBundle, Verdict
  <2> HIDE DEF WorkflowInv
  <2>2. Contract(p) \in Plans /\ files[p].sig = Contract(p) /\ HasReceipt(p)
        /\ files[p].receipt.of = Contract(p) /\ files[p].receipt.seq = 1
    <3>1. Contract(p) \in Plans /\ Contract(p) # Absent
      BY <1>1, FilesTyped DEF WorkflowInv, Executed
    <3>2. files[p].sig = Contract(p)
      BY <2>1 DEF FilesFail, CheckDegrades, Bound
    <3>3. HasReceipt(p)
      BY <2>1, <3>1, <3>2 DEF CheckDegrades, HasStatement
    <3> QED
      BY <2>1, <3>1, <3>2, <3>3 DEF FilesFail, ReceiptVerifies
  <2>3. 1 \in DOMAIN log /\ log[1] = [contract |-> Contract(p), received |-> files[p].receipt.received]
    BY <1>1, <2>2 DEF WorkflowInv, ReceiptsTrue
  <2>4. log # <<>>
    BY <2>3, EmptySeq
  <2>5. files[p].receipt \in ReceiptFiles /\ files[p].tokens \in [TSAs -> TokenFiles]
    BY <1>1, FilesTyped DEF WorkflowInv, FileSet
  <2>6. Release(p) \in Nat
    <3>1. Contract(p) \in 1 .. Len(contracts) /\ contracts \in Seq([rel : Rels, kind : Kinds])
      BY <1>1, <2>2, FilesTyped DEF WorkflowInv, WorkflowTypeOK, Absent, Plans
    <3> QED
      <4>1. contracts[Contract(p)] \in [rel : Rels, kind : Kinds]
        BY <3>1, ElementOfSeq
      <4> QED
        BY <4>1, WorkflowAssumption DEF Release
  <2>7. ~Late(p)
    BY <2>1 DEF PulsesFail
  <2>8. files[p].receipt.received < Release(p)
    BY <2>2, <2>5, <2>6, <2>7 DEF Late, ReceiptVerifies, ReceiptFiles, Times
  <2>9. \A t \in TSAs : files[p].tokens[t].of = Contract(p)
    BY <2>1 DEF CheckDegrades, Complete, Tokens
  <2>10. \A t \in TSAs : files[p].tokens[t].at < Release(p)
    BY <2>5, <2>6, <2>7, <2>9 DEF Late, Tokens, TokenFiles, Times
  <2> QED
    BY <2>3, <2>4, <2>8, <2>9, <2>10
<1> QED
  BY <1>1, WorkflowAlways, PTL

\* A result of a run that lacked evidence never verifies, whatever is stamped or
\* registered afterwards (policy.py).
THEOREM DryStaysDry == Spec => []DryRunStaysDry
<1>1. ASSUME WorkflowInv PROVE DryRunStaysDry
  <2> SUFFICES ASSUME NEW p \in Paths, Executed(p), Transcript(p).dry
               PROVE  /\ CheckBundle(p, "ok", TRUE) # "VERIFIED"
                      /\ \A live \in Answers(p) \union {"off"} : Gather(p, live, "ok", TRUE) # "VERIFIED"
    BY DEF DryRunStaysDry
  <2>1. Contract(p) \in Plans /\ Contract(p) # Absent
    BY <1>1, FilesTyped DEF WorkflowInv, Executed
  <2>2. ~Transcript(p).complete \/ Transcript(p).status # "authoritative"
    BY <1>1, <2>1 DEF WorkflowInv, TranscriptsTrue, Transcript
  <2>3. CheckDegrades(p, TRUE) \/ FilesFail(p)
    BY <2>1, <2>2 DEF CheckDegrades, FilesFail, HasStatement, Bound
  <2>4. \A live : GatherDegrades(p, live, "ok", TRUE)
    BY <2>2 DEF GatherDegrades
  <2> QED
    BY <2>3, <2>4 DEF CheckBundle, Gather, Verdict
<1> QED
  BY <1>1, WorkflowAlways, PTL

\* The receipt and the bundle's check, written apart, do not contradict each other.
THEOREM VerdictsStayAgreed == Spec => []VerdictsAgree
<1>1. ASSUME WorkflowInv PROVE VerdictsAgree
  <2> SUFFICES ASSUME NEW p \in Paths, Executed(p), NEW live \in {Status(files[p].sig, Len(log)), "off"}
               PROVE  /\ Gather(p, live, "ok", TRUE) = "VERIFIED" => CheckBundle(p, "ok", TRUE) # "INVALID"
                      /\ CheckBundle(p, "ok", TRUE) = "VERIFIED" => Gather(p, live, "ok", TRUE) = "VERIFIED"
    BY DEF VerdictsAgree
  <2>1. Contract(p) \in Plans /\ Contract(p) # Absent
    BY <1>1, FilesTyped DEF WorkflowInv, Executed
  \* The first entry is of this contract when the log says so, or a transcript does.
  <2>2. ASSUME Bound(p), live = "authoritative" \/ Transcript(p).status = "authoritative"
        PROVE  1 \in DOMAIN log /\ log[1].contract = Contract(p)
    <3>1. CASE live = "authoritative"
      <4>1. Status(files[p].sig, Len(log)) = "authoritative"
        BY <3>1
      <4>2. Len(log) # 0 /\ log[1].contract = files[p].sig
        BY <4>1 DEF Status
      <4> QED
        BY <1>1, <2>2, <4>2, LogElements DEF WorkflowInv, Bound
    <3>2. CASE Transcript(p).status = "authoritative"
      BY <1>1, <2>1, <3>2, LogElements DEF WorkflowInv, TranscriptsTrue, Transcript
    <3> QED
      BY <2>2, <3>1, <3>2
  <2>3. ASSUME Gather(p, live, "ok", TRUE) = "VERIFIED" PROVE CheckBundle(p, "ok", TRUE) # "INVALID"
    <3>1. ~GatherFails(p, live, "ok") /\ ~GatherDegrades(p, live, "ok", TRUE)
      BY <2>3 DEF Gather, Verdict
    <3>2. ~PulsesFail(p, "ok")
      BY <3>1 DEF GatherFails, PulsesFail
    <3>3. Bound(p) /\ ~AnyFailed(p)
      BY <3>1 DEF GatherFails, GatherDegrades
    <3>4. 1 \in DOMAIN log /\ log[1].contract = Contract(p)
      BY <2>2, <3>1, <3>3 DEF GatherDegrades
    <3>5. ASSUME HasReceipt(p) PROVE ReceiptVerifies(p) /\ files[p].receipt.seq = 1
      <4>1. ReceiptVerifies(p) /\ files[p].receipt.of = Contract(p)
        BY <3>1, <3>3, <3>5 DEF GatherFails, ReceiptVerifies, Bound
      <4>2. files[p].receipt.seq \in DOMAIN log /\ log[files[p].receipt.seq].contract = Contract(p)
        <5>1. files[p].receipt.of \in Plans
          BY <2>1, <4>1
        <5>2. files[p].receipt.seq \in DOMAIN log
              /\ log[files[p].receipt.seq] = [contract |-> files[p].receipt.of, received |-> files[p].receipt.received]
          BY <1>1, <5>1 DEF WorkflowInv, ReceiptsTrue
        <5> QED
          BY <4>1, <5>2
      <4> QED
        BY <1>1, <3>4, <4>1, <4>2 DEF WorkflowInv, LoggedOnce
    <3>6. ~FilesFail(p)
      BY <3>3, <3>5 DEF FilesFail
    <3> QED
      BY <3>2, <3>6 DEF CheckBundle, Verdict
  <2>4. ASSUME CheckBundle(p, "ok", TRUE) = "VERIFIED" PROVE Gather(p, live, "ok", TRUE) = "VERIFIED"
    <3>1. ~FilesFail(p) /\ ~PulsesFail(p, "ok") /\ ~CheckDegrades(p, TRUE)
      BY <2>4 DEF CheckBundle, Verdict
    <3>2. Bound(p) /\ HasStatement(p) /\ HasReceipt(p) /\ ReceiptVerifies(p)
      BY <2>1, <3>1 DEF FilesFail, CheckDegrades, HasStatement, Bound
    <3>3. Transcript(p).complete /\ Transcript(p).status = "authoritative" /\ Complete(p)
      BY <3>1, <3>2 DEF CheckDegrades
    <3>4. 1 \in DOMAIN log /\ log[1].contract = files[p].sig
      BY <2>2, <3>2, <3>3 DEF Bound
    <3>5. live \in {"authoritative", "off"}
      BY <1>1, <3>4, LogElements DEF WorkflowInv, Status
    <3>6. ~GatherFails(p, live, "ok")
      BY <3>1, <3>2, <3>5 DEF GatherFails, FilesFail, PulsesFail
    <3>7. ~GatherDegrades(p, live, "ok", TRUE)
      BY <3>2, <3>3, <3>5 DEF GatherDegrades
    <3> QED
      BY <3>6, <3>7 DEF Gather, Verdict
  <2> QED
    BY <2>3, <2>4
<1> QED
  BY <1>1, WorkflowAlways, PTL
===============================================================================
