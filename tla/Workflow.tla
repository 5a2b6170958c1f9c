------------------------------- MODULE Workflow -------------------------------
(***************************************************************************)
(* The life of a decision contract in the notbefore client: plan (write,   *)
(* sign), timestamp, register, execute, then receipt and check-bundle.     *)
(* Every command works on files beside the contract that it replaces in    *)
(* place, can be killed after any of its steps, and can be run again; plan *)
(* can be run again over the same path, where the files of the previous    *)
(* contract remain.  A contract is named by its number, as the code names  *)
(* it by its hash; `of' says which contract a file was made for.           *)
(*                                                                         *)
(* All contracts are of one key and one decision id.  The decision log is  *)
(* the list of the entries of that namespace (DecisionLog shows that it is *)
(* one), and the commit that a contract consumes is the one of its round   *)
(* (Selection).  The operation on the input is a function of the value.    *)
(***************************************************************************)
EXTENDS Naturals, Sequences, FiniteSets, Timing

CONSTANTS
  Paths,     \* contract files
  TSAs,      \* EXPECTED_TSAS
  Rels,      \* releases of the rounds that contracts may wait for
  Profile,   \* the timing profile that the contracts declare
  Evidence,  \* per release: what the statements in its commit and reveal show
  MaxPlans,  \* bound: contracts written
  MaxFaults, \* bound: commands killed, answers lost
  MaxTime    \* bound: the clock

ASSUME WorkflowAssumption ==
  /\ TSAs # {} /\ Rels \subseteq Nat \ {0}
  /\ Profile \in {"v1", "v2", "v3"} /\ Evidence \in [Rels -> SUBSET Observations]
  /\ MaxPlans \in Nat /\ MaxFaults \in Nat /\ MaxTime \in Nat

VARIABLES
  now,
  contracts,    \* the contracts written so far: round and kind
  files,        \* per path: the contract and what lies beside it
  transcripts,  \* per contract: the transcript of its last execution
  log,          \* the decision log
  faults        \* commands killed, answers lost so far

vars == <<now, contracts, files, transcripts, log, faults>>

Plans == 1 .. MaxPlans
Times == 0 .. MaxTime
\* legacy: contract/1, unsigned; timed: the timing profile is required.
Kinds == {"signed", "timed", "legacy"}
Absent == 0
Garbage == MaxPlans + 1    \* a file whose writer was killed
NoToken == [of |-> Absent, at |-> 0]
NoReceipt == [of |-> Absent, seq |-> 0, received |-> 0]
NoTranscript == [status |-> "none", complete |-> FALSE, dry |-> FALSE]
NoFiles == [contract |-> Absent, sig |-> Absent, tokens |-> [t \in TSAs |-> NoToken], receipt |-> NoReceipt]

Init ==
  /\ now = 0 /\ contracts = <<>> /\ log = <<>> /\ faults = 0
  /\ files = [p \in Paths |-> NoFiles]
  /\ transcripts = [c \in Plans |-> NoTranscript]

Tick == now < MaxTime /\ now' = now + 1 /\ UNCHANGED <<contracts, files, transcripts, log, faults>>

-----------------------------------------------------------------------------
Contract(p) == files[p].contract
Release(p) == contracts[Contract(p)].rel
Legacy(p) == contracts[Contract(p)].kind = "legacy"
TimingRequired(p) == contracts[Contract(p)].kind = "timed"
TimingVerdict(p) == EvaluatePulses({Evaluate(seen, Profile) : seen \in Evidence[Release(p)]})
TimingOK(p) == TimingVerdict(p) = "SATISFIED"

\* Mutant: any well-formed statement will do.
AnyStatement(p) == files[p].sig # Absent
\* The statement beside the contract is signed and names it.
Bound(p) == files[p].sig = Contract(p)

\* verify_timestamps: the tokens that verify, and whether some file does not.
Tokens(p) == {t \in TSAs : files[p].tokens[t].of = Contract(p)}
AnyFailed(p) == \E t \in TSAs : files[p].tokens[t].of \notin {Absent, Contract(p)}
\* timestamp_verdict, without a release (presence and validity only) and with.
Complete(p) == ~AnyFailed(p) /\ Tokens(p) = TSAs
AllBefore(p) == \A t \in Tokens(p) : files[p].tokens[t].at < Release(p)
TimestampVerdict(p, requireAll) ==
  ~AnyFailed(p) /\ AllBefore(p) /\ (requireAll => Tokens(p) = TSAs)

Registered(c) == \E i \in DOMAIN log : log[i].contract = c
\* check_authoritative on what is seen of the namespace: all of it live, a
\* prefix in the mirror of a clone.
Status(c, seen) ==
  IF seen = 0 THEN "unregistered"
  ELSE IF log[1].contract = c THEN "authoritative" ELSE "superseded"

-----------------------------------------------------------------------------
(* The commands. *)
SetFiles(p, f) == files' = [files EXCEPT ![p] = f]
Fault(happens) ==
  IF happens THEN faults < MaxFaults /\ faults' = faults + 1 ELSE UNCHANGED faults

\* plan: the contract, then its statement, unless the process is killed between.
Plan(p, rel, kind, killed) ==
  /\ Len(contracts) < MaxPlans /\ Fault(killed)
  /\ contracts' = Append(contracts, [rel |-> rel, kind |-> kind])
  /\ SetFiles(p, [files[p] EXCEPT !.contract = Len(contracts'),
                                  !.sig = IF kind = "legacy" \/ killed THEN @ ELSE Len(contracts')])
  /\ UNCHANGED <<now, transcripts, log>>

\* timestamp, in plan or later: only a TSA without a file is asked.  The reply
\* is written before it is read: a kill leaves a file that is not a token.
Timestamp(p, t, killed) ==
  /\ Contract(p) # Absent /\ files[p].tokens[t].of = Absent /\ Fault(killed)
  /\ SetFiles(p, [files[p] EXCEPT !.tokens[t] =
                    IF killed THEN [of |-> Garbage, at |-> 0] ELSE [of |-> Contract(p), at |-> now]])
  /\ UNCHANGED <<now, contracts, transcripts, log>>

\* register, in plan or later: append or find, then write the receipt, unless
\* the answer is lost or the process killed while it writes.
Submit(c) == log' = IF Registered(c) THEN log ELSE Append(log, [contract |-> c, received |-> now])
ReceiptFor(c, l) ==
  LET i == CHOOSE j \in DOMAIN l : l[j].contract = c
  IN [of |-> c, seq |-> i, received |-> l[i].received]
Register(p, outcome) ==
  /\ Contract(p) # Absent /\ ~Legacy(p) /\ Bound(p) /\ Fault(outcome # "written")
  /\ Submit(files[p].sig)
  /\ SetFiles(p, [files[p] EXCEPT !.receipt =
                    CASE outcome = "written" -> ReceiptFor(files[p].sig, log')
                      [] outcome = "lost" -> @
                      [] outcome = "torn" -> [NoReceipt EXCEPT !.of = Garbage]])
  /\ UNCHANGED <<now, contracts, transcripts>>

\* execute, in the order of its refusals.  allow: --allow-unregistered.
Signed(p, allow) == IF Legacy(p) THEN allow ELSE Bound(p)
Stamped(p, allow) == ~AnyFailed(p) /\ (Complete(p) \/ allow)
\* Mutant: --allow-unregistered waives whatever the log says.
AuthorityWaived(p, status, allow) == Legacy(p) \/ status = "authoritative" \/ allow
Authority(p, status, allow) ==
  Legacy(p) \/ status = "authoritative" \/ (allow /\ status # "superseded")
\* The round exists, and select_commit ends with a value.
Selected(p) == now >= Release(p)
Early(p, status) == ~Legacy(p) /\ status = "authoritative" => log[1].received < Release(p)
Accepted(p, status, allow) ==
  /\ Signed(p, allow) /\ Stamped(p, allow) /\ Authority(p, status, allow)
  /\ Selected(p)
  /\ TimestampVerdict(p, ~allow) /\ Early(p, status)
  /\ TimingRequired(p) => TimingOK(p)
\* dry (not in the file): this run lacked evidence that it should have had.
Lacking(p, status) == Legacy(p) \/ ~Complete(p) \/ status # "authoritative"
Execute(p, status, allow) ==
  /\ Contract(p) # Absent
  /\ Accepted(p, status, allow)
  /\ transcripts' = [transcripts EXCEPT ![Contract(p)] =
       [status |-> IF Legacy(p) THEN "unsigned" ELSE status,
        complete |-> TimestampVerdict(p, TRUE), dry |-> Lacking(p, status)]]
  /\ UNCHANGED <<now, contracts, files, log, faults>>
\* What the log says: live, from a mirror of some age, or nothing.
Answers(p) == {Status(files[p].sig, seen) : seen \in 0 .. Len(log)} \union {"unreachable"}

Next ==
  \/ Tick
  \/ \E p \in Paths :
       \/ \E rel \in Rels, kind \in Kinds, killed \in BOOLEAN : Plan(p, rel, kind, killed)
       \/ \E t \in TSAs, killed \in BOOLEAN : Timestamp(p, t, killed)
       \/ \E outcome \in {"written", "lost", "torn"} : Register(p, outcome)
       \/ \E allow \in BOOLEAN : \E status \in Answers(p) : Execute(p, status, allow)

Spec == Init /\ [][Next]_vars

-----------------------------------------------------------------------------
(* The verdicts of an executed contract.  pulses: what the log source or   *)
(* the bundle holds of the commit, its tokens, its checkpoint, its Rekor   *)
(* record and the round: "ok", "bad", or "missing"; input: the committed   *)
(* input is at hand and the operation reproduces the output.               *)
Verdict(failed, degraded) ==
  IF failed THEN "INVALID" ELSE IF degraded THEN "DEGRADED" ELSE "VERIFIED"
Transcript(p) == transcripts[Contract(p)]
Executed(p) == Contract(p) # Absent /\ Transcript(p).status # "none"
HasStatement(p) == files[p].sig # Absent
HasReceipt(p) == HasStatement(p) /\ files[p].receipt.of # Absent
ReceiptVerifies(p) == files[p].receipt.of = files[p].sig
Late(p) ==
  \/ \E t \in Tokens(p) : files[p].tokens[t].at >= Release(p)
  \/ HasReceipt(p) /\ ReceiptVerifies(p) /\ files[p].receipt.received >= Release(p)

\* Mutant: a receipt is looked at for its time only.
GatherIgnoresReceipt(p, live, pulses) ==
  \/ IF HasStatement(p) THEN ~Bound(p) ELSE ~Legacy(p)
  \/ AnyFailed(p) \/ (HasStatement(p) /\ live = "superseded")
  \/ pulses = "bad" \/ Late(p) \/ (TimingRequired(p) /\ ~TimingOK(p))
\* receipt.gather; live: what the log answers now, or "off" with --offline.
GatherFails(p, live, pulses) ==
  \/ IF HasStatement(p) THEN ~Bound(p) ELSE ~Legacy(p)
  \/ AnyFailed(p)
  \/ HasReceipt(p) /\ ~ReceiptVerifies(p)
  \/ HasStatement(p) /\ live = "superseded"
  \/ pulses = "bad" \/ Late(p)
  \/ TimingRequired(p) /\ ~TimingOK(p)
GatherDegrades(p, live, pulses, input) ==
  \/ ~HasStatement(p) \/ ~Complete(p)
  \/ IF live = "off" THEN ~HasReceipt(p) ELSE live # "authoritative"
  \/ ~Transcript(p).complete \/ Transcript(p).status # "authoritative"
  \/ pulses = "missing" \/ ~input
Gather(p, live, pulses, input) ==
  Verdict(GatherFails(p, live, pulses), GatherDegrades(p, live, pulses, input))

\* receipt.check_bundle: offline, on the bundled files.
FilesFail(p) ==
  \/ ~Legacy(p) /\ ~Bound(p)
  \/ AnyFailed(p)
  \/ HasReceipt(p) /\ (~ReceiptVerifies(p) \/ files[p].receipt.seq # 1)
PulsesFail(p, pulses) ==
  pulses # "ok" \/ Late(p) \/ (TimingRequired(p) /\ ~TimingOK(p))
\* Mutant: what the transcript says of its own run is not read.
CheckForgives(p, input) ==
  Legacy(p) \/ ~Complete(p) \/ (HasStatement(p) /\ ~HasReceipt(p)) \/ ~input \/ ~TimingOK(p)
CheckDegrades(p, input) ==
  \/ Legacy(p) \/ ~Complete(p)
  \/ HasStatement(p) /\ ~HasReceipt(p)
  \/ ~Transcript(p).complete \/ (HasStatement(p) /\ Transcript(p).status # "authoritative")
  \/ ~input \/ ~TimingOK(p)
CheckBundle(p, pulses, input) ==
  Verdict(FilesFail(p) \/ PulsesFail(p, pulses), CheckDegrades(p, input))

-----------------------------------------------------------------------------
TokenFiles == [of : 0 .. MaxPlans + 1, at : Times]
ReceiptFiles == [of : 0 .. MaxPlans + 1, seq : Nat, received : Times]
TranscriptFiles ==
  [status : {"none", "unsigned", "authoritative", "unregistered", "unreachable"},
   complete : BOOLEAN, dry : BOOLEAN]
WorkflowTypeOK ==
  /\ now \in Times /\ faults \in 0 .. MaxFaults
  /\ contracts \in Seq([rel : Rels, kind : Kinds]) /\ Len(contracts) <= MaxPlans
  /\ files \in [Paths -> [contract : 0 .. Len(contracts), sig : 0 .. Len(contracts),
                          tokens : [TSAs -> TokenFiles], receipt : ReceiptFiles]]
  /\ transcripts \in [Plans -> TranscriptFiles]
  /\ log \in Seq([contract : 1 .. Len(contracts), received : Times])

\* What a bundle that checks as VERIFIED stands for, although it is checked
\* offline and without the log: its contract is the first one that was ever
\* registered under its decision id, and registered and stamped by both TSAs
\* before its round.  So of all contracts of a decision id one at most has a
\* VERIFIED result, whatever was planned, overwritten and run again.
VerifiedIsFirst ==
  \A p \in Paths :
    Executed(p) /\ CheckBundle(p, "ok", TRUE) = "VERIFIED" =>
      /\ log # <<>> /\ log[1] = [contract |-> Contract(p), received |-> files[p].receipt.received]
      /\ log[1].received < Release(p)
      /\ \A t \in TSAs : files[p].tokens[t].of = Contract(p) /\ files[p].tokens[t].at < Release(p)

\* policy.py:6-7: "a DEGRADED artifact is a dry run and stays DEGRADED however
\* it is bundled or re-checked": a transcript of a run that lacked tokens or
\* the log's confirmation never becomes part of a VERIFIED result, whatever is
\* stamped or registered afterwards.
DryRunStaysDry ==
  \A p \in Paths :
    Executed(p) /\ Transcript(p).dry =>
      /\ CheckBundle(p, "ok", TRUE) # "VERIFIED"
      /\ \A live \in Answers(p) \union {"off"} : Gather(p, live, "ok", TRUE) # "VERIFIED"

\* The receipt (gather, beside the log) and the bundle's check (offline) judge
\* the same files by different rules, and do not contradict each other: what
\* the one calls VERIFIED the other does not call INVALID.
VerdictsAgree ==
  \A p \in Paths : Executed(p) =>
    \A live \in {Status(files[p].sig, Len(log)), "off"} :
      LET gathered == Gather(p, live, "ok", TRUE)
          checked == CheckBundle(p, "ok", TRUE) IN
      /\ gathered = "VERIFIED" => checked # "INVALID"
      /\ checked = "VERIFIED" => gathered = "VERIFIED"
===============================================================================
