-------------------------------- MODULE Anchors --------------------------------
(***************************************************************************)
(* Publication anchors: every published pulse is entered into Rekor under  *)
(* the beacon's anchor key, by a job that runs after each push and every   *)
(* hour (ci/anchor_pulses.py) and that records what it did on the branch   *)
(* `anchors`; a second job (ci/verify_anchors.py) compares the three, to   *)
(* see an entry under the key that is of no published pulse.               *)
(*                                                                         *)
(* Rekor is append-only and keeps its own clock; an entry is named by its  *)
(* pulse and its integratedTime.  ECDSA signatures differ, so one          *)
(* statement can be entered twice.  The proofs of an entry are part of     *)
(* what Rekor gives; pulse files do not change after publication.          *)
(***************************************************************************)
EXTENDS Naturals, Sequences, FiniteSets

CONSTANTS
  Lead,       \* from the publication of a commit to the release of its round
  Grace,      \* ANCHOR_GRACE_S
  Ahead,      \* pulses beyond its checkout the audit looks up on origin/main: 11
  MaxPulses,  \* bound: pulses published
  MaxTime,    \* bound: the clock
  MaxEntries, \* bound: entries of one pulse
  MaxFaults   \* bound: lost answers, failed pushes, kills

ASSUME AnchorsAssumption ==
  /\ Lead \in Nat \ {0} /\ Grace \in Nat \ {0} /\ Ahead \in Nat
  /\ MaxPulses \in Nat \ {0} /\ MaxTime \in Nat /\ MaxEntries \in Nat /\ MaxFaults \in Nat

VARIABLES
  now,
  chain,    \* origin/main: the pulses, in order
  rekor,    \* Rekor: the times at which a pulse was entered
  hidden,   \* Rekor: the times of entries of pulses that are not published
  records,  \* origin/anchors: the entry named by the record of a pulse, if any
  job,      \* the run of anchor_pulses.py
  audit,    \* the run of verify_anchors.py
  faults

world == <<now, chain, rekor, hidden, records, faults>>
anchorVars == <<world, job, audit>>

Times == 0 .. MaxTime
Pulses == 1 .. MaxPulses
None == {}
Commits == {s \in DOMAIN chain : chain[s].type = "commit"}

NoJob == [pc |-> "idle", upto |-> 0, at |-> 0, errors |-> FALSE, records |-> [s \in Pulses |-> None]]
\* main: the checkout; live, records: origin/main and anchors as it has them; fetched:
\* those it could refresh; lost: what Rekor lists and does not return; alarms: the
\* entries it reports.  overdue is a fact of that moment, which the audit may not know.
NoAudit == [pc |-> "idle", main |-> 0, live |-> 0, records |-> [s \in Pulses |-> None], fetched |-> {},
            now |-> 0, overdue |-> {}, searched |-> FALSE, lost |-> {}, alarms |-> {}]

AnchorsInit ==
  /\ now = 0 /\ chain = <<>> /\ faults = 0
  /\ rekor = [s \in Pulses |-> {}] /\ hidden = {}
  /\ records = [s \in Pulses |-> None]
  /\ job = NoJob /\ audit = NoAudit

Tick == now < MaxTime /\ now' = now + 1 /\ UNCHANGED <<chain, rekor, hidden, records, job, audit, faults>>

Fault == faults < MaxFaults /\ faults' = faults + 1

-----------------------------------------------------------------------------
(* What is published: a commit, then what resolves it.  sound: the pulse   *)
(* passes verify.py.  tokens: its RFC 3161 tokens are before its round.    *)
Publish(p) ==
  /\ Len(chain) < MaxPulses
  /\ chain' = Append(chain, p)
  /\ UNCHANGED <<now, rekor, hidden, records, job, audit, faults>>
Open == chain # <<>> /\ chain[Len(chain)].type = "commit"
PublishCommit(sound, tokens) ==
  /\ ~Open /\ (sound \/ tokens = "before")
  /\ Publish([type |-> "commit", at |-> now, rel |-> now + Lead, sound |-> sound, tokens |-> tokens])
PublishReveal(sound) ==
  /\ Open /\ now >= chain[Len(chain)].rel
  /\ Publish([type |-> "reveal", at |-> now, rel |-> chain[Len(chain)].rel, sound |-> sound, tokens |-> "before"])
PublishFailure ==
  /\ Open
  /\ Publish([type |-> "failure", at |-> now, rel |-> chain[Len(chain)].rel, sound |-> TRUE, tokens |-> "before"])
\* Another pulse on the same chain, shown to others, and entered into Rekor.
EnterHidden == hidden = {} /\ hidden' = {now} /\ UNCHANGED <<now, chain, rekor, records, job, audit, faults>>

-----------------------------------------------------------------------------
(* anchor_pulses.py.  Runs are serialized; a run works on its checkout, and *)
(* passes over the pulses that have a record.                              *)
\* Mutant: pulses that have a record are anchored again.
NextPulse(after, upto, recs) == after + 1
NextUnanchored(after, upto, recs) ==
  LET missing == {s \in after + 1 .. upto : recs[s] = None} IN
  IF missing = {} THEN upto + 1 ELSE CHOOSE s \in missing : \A r \in missing : s <= r
StartJob ==
  /\ job.pc = "idle"
  /\ \E s \in DOMAIN chain : records[s] = None
  /\ job' = [pc |-> "anchor", upto |-> Len(chain), at |-> NextUnanchored(0, Len(chain), records),
             errors |-> FALSE, records |-> records]
  /\ UNCHANGED <<world, audit>>

Done(record, failed) ==
  job' = [job EXCEPT !.at = NextUnanchored(job.at, job.upto, job.records),
                     !.records[job.at] = record, !.errors = @ \/ failed]
\* An entry of this statement under our key is in Rekor already: any of them
\* may be the first of the answer.
FindOurs == \E t \in rekor[job.at] : Done({t}, FALSE) /\ UNCHANGED <<rekor, faults>>
\* Nothing found, or the search failed (it is then taken for empty): a new
\* entry.  When the answer is lost, or the upload fails, the next pulses are
\* anchored nevertheless.
Upload ==
  \/ /\ Cardinality(rekor[job.at]) < MaxEntries
     /\ rekor' = [rekor EXCEPT ![job.at] = @ \union {now}]
     /\ (Done({now}, FALSE) /\ UNCHANGED faults) \/ (Done(None, TRUE) /\ Fault)
  \/ Done(None, TRUE) /\ Fault /\ UNCHANGED rekor
AnchorPulse ==
  /\ job.pc = "anchor" /\ job.at <= job.upto
  /\ FindOurs \/ Upload
  /\ UNCHANGED <<now, chain, hidden, records, audit>>
\* The branch is pushed when all pulses are done; after an error the tool exits
\* with 1 and the step that pushes is skipped, with all records of this run.
PushRecords ==
  /\ job.pc = "anchor" /\ job.at > job.upto
  /\ records' = IF job.errors THEN records ELSE job.records
  /\ job' = NoJob
  /\ UNCHANGED <<now, chain, rekor, hidden, audit, faults>>
\* Killed, or five rejected pushes: the working tree of the run is lost.
LoseJob ==
  /\ job.pc = "anchor" /\ Fault /\ job' = NoJob
  /\ UNCHANGED <<now, chain, rekor, hidden, records, audit>>

-----------------------------------------------------------------------------
(* verify_anchors.py with REFETCH=1.  main and anchors are checked out     *)
(* when the CI job starts, and fetched again when the script starts, where *)
(* a failing fetch leaves what was checked out; ages are measured against  *)
(* that moment all the same; Rekor is asked last.                          *)
StartAudit ==
  /\ audit.pc = "idle"
  /\ audit' = [NoAudit EXCEPT !.pc = "snapshot", !.main = Len(chain), !.live = Len(chain), !.records = records]
  /\ UNCHANGED <<world, job>>
\* Mutant: ages are measured when Rekor answers, not at the snapshot.
AgeNow(s) == now - chain[s].at
AgeAt(s) == audit.now - chain[s].at
Overdue(main, recs, t) == {s \in 1 .. main : recs[s] = None /\ t - chain[s].at > Grace}
Snapshot ==
  /\ audit.pc = "snapshot"
  /\ \E fetched \in SUBSET {"anchors", "main"} :
       audit' = [audit EXCEPT !.pc = "search", !.now = now, !.fetched = fetched,
                              !.records = IF "anchors" \in fetched THEN records ELSE @,
                              !.live = IF "main" \in fetched THEN Len(chain) ELSE @,
                              !.overdue = Overdue(audit.main, records, now)]
  /\ UNCHANGED <<world, job>>
\* Entries under the key, as <<pulse, time>>; pulse 0 is one of no published pulse.
Entries == {e \in Pulses \X Times : e[2] \in rekor[e[1]]} \union ({0} \X hidden)
Young(t) == audit.now < t + Grace
\* Pulses whose statement can be compared: of the checkout, and the next few of origin/main.
InCheckout(s) == s \in 1 .. audit.main
OnLiveMain(s) == s \in audit.main + 1 .. audit.main + Ahead /\ s <= audit.live
\* The entry the record of a pulse names is not looked at again.
Recorded(e) == InCheckout(e[1]) /\ audit.records[e[1]] = {e[2]}
\* An entry that was fetched is alarming when it is of a pulse of the checkout whose
\* record has been missing for too long, or of no pulse found and not young.
Unexplained(e) ==
  IF InCheckout(e[1]) THEN audit.records[e[1]] = None /\ AgeAt(e[1]) > Grace
  ELSE ~OnLiveMain(e[1]) /\ ~Young(e[2])
\* Every entry is fetched, in three tries; one that is not is alarming, whatever it
\* is of.  When the search fails, or anything in the loop, nothing is reported.
SearchRekor ==
  /\ audit.pc = "search"
  /\ \/ \E lost \in SUBSET {e \in Entries : ~Recorded(e)} :
          audit' = [audit EXCEPT !.pc = "done", !.searched = TRUE, !.lost = lost,
                                 !.alarms = {e \in Entries : ~Recorded(e) /\ (e \in lost \/ Unexplained(e))}]
     \/ audit' = [audit EXCEPT !.pc = "done"]
  /\ UNCHANGED <<world, job>>
EndAudit == audit.pc = "done" /\ audit' = NoAudit /\ UNCHANGED <<world, job>>

AnchorsNext ==
  \/ Tick
  \/ \E sound \in BOOLEAN, tokens \in {"before", "late"} : PublishCommit(sound, tokens)
  \/ \E sound \in BOOLEAN : PublishReveal(sound)
  \/ PublishFailure \/ EnterHidden
  \/ StartJob \/ AnchorPulse \/ PushRecords \/ LoseJob
  \/ StartAudit \/ Snapshot \/ SearchRekor \/ EndAudit

-----------------------------------------------------------------------------
AnchorsTypeOK ==
  /\ now \in Times /\ faults \in 0 .. MaxFaults
  /\ chain \in Seq([type : {"commit", "reveal", "failure"}, at : Times, rel : 0 .. MaxTime + Lead,
                    sound : BOOLEAN, tokens : {"before", "late"}])
  /\ Len(chain) <= MaxPulses
  /\ rekor \in [Pulses -> SUBSET Times] /\ hidden \subseteq Times
  /\ records \in [Pulses -> SUBSET Times]
  /\ job.pc \in {"idle", "anchor"} /\ audit.pc \in {"idle", "snapshot", "search", "done"}

\* What the branch says of a pulse is said once: the record names an entry of
\* Rekor and no later run replaces it by another entry of the same pulse,
\* whatever runs were lost and however often the pulse was entered.
RecordsFinal ==
  [][\A s \in Pulses : /\ records'[s] \subseteq rekor'[s]
                      /\ records[s] # None => records'[s] = records[s]]_records

\* What the audit makes of an entry that Rekor returns is true, although the checkout
\* is older than the snapshot and the answer of Rekor younger.  An alarm is of a
\* hidden entry; or of a published pulse whose record had been missing for longer
\* than the grace period, unless the branch could not be fetched; or of a pulse
\* further ahead of the checkout than the audit looks, unless main could not be:
\* and always of something older than the grace period.  And when the search was
\* made every hidden entry that old is reported, fetched or not.
AuditIsExact ==
  /\ \A e \in audit.alarms \ audit.lost :
       IF InCheckout(e[1])
       THEN chain[e[1]].at + Grace < audit.now /\ ("anchors" \in audit.fetched => e[1] \in audit.overdue)
       ELSE /\ e[2] + Grace <= audit.now
            /\ e[1] = 0 \/ "main" \notin audit.fetched \/ e[1] > audit.main + Ahead
  /\ audit.searched => \A t \in hidden : t + Grace <= audit.now => <<0, t>> \in audit.alarms
===============================================================================
