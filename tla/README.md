# Formal model of the qrng-beacon-log

TLA+ modules, TLC configurations and TLAPS proofs for the NotBefore randomness
beacon: an hourly commit/reveal chain whose secret `E` is drawn by one machine,
whose pulses are minted by another, and whose history is a git branch.

Contents: [the system](#the-system) · [plan](#plan) · [modules](#modules-and-the-code)
· [runs](#runs) · [proofs](#proofs) · [findings](#where-code-and-documents-disagree)
· [not modelled](#what-is-not-modelled)

## The system

| component | source | state it keeps | operations |
|---|---|---|---|
| entropy host | `hosts/entropy_host.py` | `~/beacon/pending/NNNN.{secret,revealing,abandoning,revealed,abandoned}` | commit, reveal-prepare, abandon-prepare, finalize |
| host agents | `hosts/agentd.py`, `hosts/rpc.py`, `hosts/beacon-cmd` | `state.json` (highest number per phase), nonce cache, one exec lock | authenticated request, allow-list, monotonic guard |
| aggregator: minting | `pulse.py` | `chain/pulse-NNNN.json`, the git checkout | commit, reveal, fail, finalize, recover, skip, status |
| aggregator: scheduling | `beacon-cycle.py`, `systemd/` | `.cycle.lock`, `.cycle-hour`, the clock | fallback timer (`:02`), tick (`--at next`), prepare, the two phases, publish |
| cadence | `hosts/beacon-cadence.py` | planned ticks | starts the tick process |
| origin/main | git (external) | the published branch | push, fetch; other people push too |
| transparency log | `tlog.py` | `checkpoint`, `checkpoints/NNNNNN` | write_checkpoint, gather_cosignatures, proofs |
| witness | `witness/nbwitness.py` | one head per log | add-checkpoint |
| decision log | `worker/decisions.js`, `worker/schema.sql` | D1 tables `entries`, `checkpoints` | submit, lookup, checkpoint, proof, consistency, leaves |
| decision mirror | `decisions_mirror.py` | `decisions/` in the aggregator's checkout | mirror, cosign, push |
| watcher | `watcher.py` | write-once verdict files | watch |
| CI | `ci/*.py`, `.github/workflows/` | the branch `anchors`; entries in Rekor | verify_chain, anchor_pulses, verify_anchors |
| verifier | `verify.py`, `schema.py` | – | the verdict on a pulse and its predecessor |
| notbefore client | `cli/notbefore/` | the files beside a contract, transcripts, the cached tree head | plan, timestamp, register, execute, receipt, check-bundle, tlogcheck |

How they interact. Once an hour the aggregator asks the entropy host for a
commitment to a fresh `E` (a request over an authenticated connection whose
answer may be lost), seals a commit pulse for a drand round a few minutes ahead,
commits and pushes it. After drand publishes the round it asks for the reveal,
seals and pushes the reveal pulse, and only then tells the host to erase `E`. A
breach is answered with a failure pulse, an hour without a commitment with a
skip pulse. A process may be killed at any line; the next one runs `recover` and
resumes or resolves what it finds. The decision mirror commits and pushes from
the same checkout.

What is hard, and what must hold:

* *entropy host*: requests arrive repeated, late, in the wrong order; power is
  lost inside a command. One secret at a time; no second draw for a number whose
  commitment was published and resolved; a signed commitment stays resolvable
  until it is resolved; an abandoned draw is never revealed.
* *aggregator*: crashes between any two of host request, seal, local commit,
  push and finalize; replies lost after the host acted; pushes that take effect
  without an answer; rebases over other people's commits. A commit is followed by
  its own resolution; `E` leaves the host after publication of the commit and is
  erased after publication of the resolution; the beacon resumes.
* *decision log*: concurrent requests on one database. Dense indices, the first
  statement of a namespace stays first, a retry appends nothing twice, receipts
  prove inclusion, checkpoints never disagree.
* *decision mirror*, *witness*: rollback and split views refused; a kill while
  files are written.
* *host agents*: callers that share a host, connections that break while the host
  works, a request sent twice. An answer is the caller's own; in one life of the service a
  request runs once at most; the record of what was admitted is never behind.
* *minting*: relays, witnesses and time-stamp authorities that answer late or not,
  keys that change. What is minted, the verifier accepts.
* *scheduling*: the fallback that starts during or after the tick process of its hour.
* *watcher, CI, client of the tree heads*: verdicts written once, on a copy of a branch
  that goes on growing.
* *anchors and selection*: entries without a record, records without an entry, a view of
  Rekor that is behind; yet everybody must select the same commit for a decision.
* *workflow of a decision*: commands repeated, killed and run over the files of an earlier
  plan; a verdict is about one contract, the first of its namespace.

`PROJECT.json` lists the hazards line by line, with the properties that cover them.

## Plan

Order: first what the beacon's promise rests on, then what others rely on to
check it. A module is written to be proved about as well as checked: parameters
are CONSTANTS with an assumption, operations are actions, no RECURSIVE.

Modelled, checked and proved: `EntropyHost`, `BeaconCycle` (which extends it) against
`BeaconContract`, `DecisionLog` against `WriteOnceLog`, `Witness` against `WitnessPromise`,
`DecisionMirror`; `Anchors` and `Selection` (which extends it); `Workflow`; `HostAgent`;
`Minting`; `TreeHeads` and `Observers` (which extends it). `Timing` is a library of operators
for `Workflow` and `Minting`.

How they compose. `BeaconCycle` uses the actions of `EntropyHost`, and its theorem
`BeaconImplementsHost` makes the host's theorems hold of the beacon. `Minting` says what is
in the pulses whose order `BeaconCycle` decides; `Observers` publishes pulses and looks at
nothing in them but their kind, so it needs of `Minting` that they verify. `Selection` runs on
the state of `Anchors`. `Workflow` takes the decision log as a list (which `DecisionLog`
proves) and the commit of a contract as given by its round (which `Selection` checks).

Next: a model of the hours (which one is claimed by a tick process or the fallback, and
what is minted in it) would close the largest gap in what is modelled.

## Modules and the code

### EntropyHost

One action per command of `entropy_host.py`, each the whole handler, with the
monotonic guard of `agentd.py` (`Admit`) in front. The caller is *not* part of
the module: any request may arrive in any state. `held[s]` is which of the
mutually exclusive files of number `s` exists and `content[s]` whether it holds
`E`, zeros or a record; `CommitCrash` and `FinalizeCrash` are the power losses
between the file operations. `signed` and `retired` are history: what left the
host and what was erased.

### BeaconContract

The abstract specification: what somebody who sees only the published branch,
the disclosed secrets and the erased ones may rely on. Three actions: the branch
grows by pulses that may follow; `E` is shown while its published commit is open;
`E` is erased after its resolution is published (or if it never was published).

### BeaconCycle

`beacon-cycle.py` driving `pulse.py`, on the same host state (it EXTENDS
EntropyHost and its steps use the host's actions). `pc` names the place in the
script, `job` what `publish` or the retirement loop was called for, `todo` the
pending numbers `recover` still visits. One action is what nobody else can
interrupt: a request, a sealed file, a local commit, a push. The git checkout is
three prefixes (tree, HEAD, origin) plus `ahead`, `behind` and `litter`. The
clock is five phases around the target release, at the margins the code compares
with. `Crash` kills the process anywhere; every network step has a failing and,
where the code can meet it, a half-done outcome; each costs one of `MaxFaults`.
The mirror's service works in the same checkout under no common lock, so `MirrorPush` may come at
any point of a cycle; what two git commands at once make of the index is left out.

### WriteOnceLog and DecisionLog

`WriteOnceLog` is the promise of `DECISION-LOG.md`: an append-only sequence, signed
notes that are views of it, answers that name the first statement of a namespace.
`DecisionLog` is `worker/decisions.js`: `run[w]` is one Worker with the local variables
its request has read so far, and every `await` on the database is an action, so
requests interleave between any two SQL statements. `Find`, `CountAll`, `CountNs`,
`Insert`, `Again` are the lines of `appendEntry`; `ReadLeaves`, `ReadNote`, `SignNote` those of
`latestCheckpoint`. The constraints of `schema.sql` are `Conflicts`, the only thing
that decides the race. `Vanish` is a Worker that stops, or an answer that is lost,
anywhere. The refinement maps the abstract log to `LeafHashes`, the table in the
order of its index. A note is the tree whose root it states; the bodies, their
validation and the handlers that only read are left out.

### WitnessPromise and Witness

`WitnessPromise` is one tree that only grows. `Witness` is the threading server of
`nbwitness.py` (a thread is `waiting`, `inside` the lock, `answered`) with its state file
`head`, and the clients, `tlog.witness_submit`, with their retries after 409. `Enter`
reads the head under the lock; `Conflict`, `Refuse`, `CosignAgain`, `Advance` are the four
ways out. A request that timed out stays in the server (`GiveUp`), and `Restart` loses
every thread and keeps the file. What the clients submit are any trees, forks included.

### DecisionMirror

One run of `decisions_mirror.py --push` as the sequence of its requests, checks, file
writes and git steps. `disk`, `head`, `origin` are `decisions/` in the working tree, in HEAD
and in origin/main, each with the entries, `checkpoints/N` (`stored`), `checkpoint`
(`latest`) and `INDEX.json` (`index`). A log that is not `honest` answers every request
out of any tree it signed. `Killed` ends a run anywhere and leaves the file it was
writing `Torn`. The unit is oneshot, so runs do not overlap.

### Anchors and Selection

`Anchors` is the world that everybody sees (pulses on main, entries in Rekor, records on
the branch `anchors`) with the two jobs: `ci/anchor_pulses.py` with the push of
`anchor.yml` (`StartJob`, `AnchorPulse`, `PushRecords`, `LoseJob`), and the audit
`ci/verify_anchors.py`, which looks at its checkout, then at the live branch and the records,
then at Rekor (`StartAudit`, `Snapshot`, `SearchRekor`). An entry is its pulse and its time;
an entry in `hidden` is of a pulse that was never published. Each look of the audit may fail:
a fetch of either branch leaves the checkout's data while the ages are measured from now
(`verify_anchors.py:41-52`), an entry that is not returned in three tries is reported
whatever it is of (`lost`, `:149-150`), a search that fails reports nothing (`:196`), and the live
chain is looked up for `Ahead` pulses only (11 in the code, `:153`). The publication of
pulses is external: any commit, sound or not, in time or late.

`Selection` is `cli/notbefore/commitbound.select_commit` on that state. `Begin` takes a copy
of the log of any age and reads the clock once; every `Judge` is one candidate with a fresh
look at Rekor (reached or not) and at the records (unavailable, old or current), as the
code asks them per candidate. Rekor's index names the entries of a commit and each is
fetched by itself; one that fails is passed by, so the answer (`seen`) is any part of
what Rekor holds, the empty one included, which after the grace period counts as
absence (`commitbound.py:63-69`, `:83-85`). `local` and `cut` remember which commits were passed
over on a local record, or on an answer that lost an entry. It ends `selected`, or `halted`, which stands for WAIT, for
an error and for nothing eligible.

### Workflow and Timing

`Workflow` has one action per command: `Plan`, `Timestamp`, `Register`, `Execute`, each on the
files beside the contract at a path, which a later plan over the same path does not
remove. `of` says which contract a file was made for; a kill leaves `Garbage` (a token or a
receipt nobody can read) or stops between two files. The two verdicts, `Gather`
(`receipt.gather`, beside the live log) and `CheckBundle` (`receipt.check_bundle`, offline),
are operators on a state, since they change nothing. `Timing` is `timing.py`: which
readings of a pulse's signed statements each profile requires, and the verdict. `dry` is not
in any file: it records that an execution lacked evidence, for `DryRunStaysDry`.

### HostAgent

Both ends of a connection: `Call`, `Answer`, `Resend`, `Raise`, `Exit` are `rpc.py` in an
aggregator process; `Authenticate`, `CheckSeq`, `Truncate`, `WriteSeq`, `Run`, `Respond`, `HangUp`
are a handler thread of `agentd.py`, a step each, so that threads interleave where the
code does not hold a lock. `recorded` is `state.json`, `seen` the nonce cache, `runs` what
ran. `Kill` ends the service anywhere, also between the truncation and the write.
`floor` is history: what was admitted while the file was whole.

### Minting

`pulse.py`, from the side of what it writes. A draft is started (`StartCommit`,
`StartReveal`), statements and anchors are gathered while time goes on (`GatherCommit`,
`GatherReveal`, `GatherFail`, `GatherSkip`), and `Seal` time-stamps and signs it. Relays trail
or lie, witnesses sign with any key, authorities fail, clocks lag. `Verified` is the verdict
of `verify.py` on a pulse and its predecessor, written from `verify.py` alone. The verifier
looks at more of an answer than the minter: that a commitment is 64 hex digits (`verify.py:261`),
that a commit or a failure discloses no `E` (`:264`, `:335`), that `E` is 32 bytes (`:316`), that a
failure names the commitment and the commit pulse it is bound to (`:333`), that a skip has a reason
(`:346`). `Overlooked` lists these and `amiss` says which of them an answer gets wrong; the script
`entropy_host.py` always gets them right (`:45-46`, `:107-110`, `:120-123`), another program that answers with
the host's key need not. The property is that the two programs agree if and only if nothing is
amiss and no key was rotated in between (`RotatedBetween`). The verifier asks for execution evidence
from pulse 26 on, which is behind the head of the chain; that boundary is not in the model.

### TreeHeads and Observers

`TreeHeads` has the algorithms of `tlog.py` 31-89: tree hash, inclusion and consistency
proofs, and the verifiers of RFC 9162, over hashes that are free terms. They are recursive
functions, not RECURSIVE operators.

`Observers` publishes a chain with its checkpoints (`Mint`, `WriteNumbered`, `WriteTop`, `Push`,
with `Kill` between them and `Damage`, a checkout that lost or got other pulses) and has
three observers: the job of `ci/verify_chain.py` (`CIStart` checks out, `CIEnd` judges and takes
its live look), the watcher (`Fetch`, `Clock`, `Judge`; its verdict files are never replaced)
and the client of `tlogcheck.py` (`Check`). Its copy of the log may be any tree that was ever published (`copies`: a clone
that was not fetched, a local directory, a pinned ref), and so may what the site
serves; the head it cached is one for the machine, whatever copy it was of. A kill may come between
truncating and writing the cache. `splits` keeps each pair of a copy and a site that it called a
split view, `rollbacks` each pair of a copy and a cached head. Only the two verdicts SPLIT VIEW count as
alarms; a site that cannot be reconciled fails the check in another way, and the pulses and
the checkpoint of the site are taken of one moment.

## Runs

Every bound is a CONSTANT of the cfg.

| run | checks | bounds, and why they suffice |
|---|---|---|
| `host` | type, `HostCustody` (one secret, no equivocation, commitments backed, retired once), no reveal after abandonment | 2 numbers, 3 draws, 1 pulse hash and the zero hash: a number drawn again after retirement, and two numbers that compete |
| `cycle` | type, the state machine of the chain, `Custody`, and `KeepsContract` (refinement of BeaconContract) | 4 pulses, 3 draws, 2 faults: commit, resolution, and a second cycle that starts from whatever two faults left behind |
| `cycle_live` | `CommitResolved`, `KeepsCommitting` | the same with 1 fault, under fairness |
| `late_commit` | `LateCommitNeverRevealed`, violated | 3 pulses |
| `decision_log` | type, `LogSound` (dense, first is authoritative, appended once, no split view), `AnswersSound`, retries, and `KeepsPromise` (refinement of WriteOnceLog) | 2 Workers, 2 namespaces, 2 contracts, 3 rows, 2 attempts: a race for an index, one for a namespace, one for the same statement, and a Worker that loses both its attempts |
| `witness` | type, the head covers all that was cosigned, and `KeepsVouching` (refinement of WitnessPromise) | 2 clients, 2 threads, 3 histories of up to 3 leaves that part after 0 and 1 leaves, 4 attempts |
| `decision_mirror` | type, `MirrorSound` (commits coherent, checkpoints views), append-only publication, and `CatchesUp` with an honest log under fairness | a log that is honest or not, 2 histories of 3 leaves, pages of 2, 3 faults: two pages, and a run on top of what two killed runs left |
| `selection` | type, `RecordsFinal`, `AuditIsExact`, `FirstEligible` | 3 pulses, 3 ticks, 2 entries of a pulse, 1 fault, grace and deadline one tick, `Ahead` 1: two commits with the first eligible or not, an entry before, in and after the second of the release, a record of the later entry, an entry that Rekor does not return, fetches and searches that fail |
| `workflow` | type, `VerifiedIsFirst`, `DryRunStaysDry`, `VerdictsAgree` | 2 paths, 2 contracts, 1 authority, 2 releases (the second with a timing excursion), 1 fault: two plans over one path or racing on two, registered before or after the round |
| `agent` | type, `AnswerIsOwn`, `RecordCoversAdmitted`, `RunsBounded` | 2 processes, 3 calls, 3 connections, 1 kill, a cache of 1 nonce, 1 ordered phase and 1 operation without order: a resend that races its first sending, a nonce that was forgotten, two threads at the state file |
| `minting` | type, `MintedVerifies` (verified if and only if nothing is amiss that `pulse.py` does not look at, and no rotation in between) | 4 pulses in 7 seconds with rounds of 2, leads of 1 to 3, a key history with two replacements (one between a commit and its resolution) and an overlap: each kind of pulse on each predecessor, on and off the grid |
| `observers` | type, `TreeDecides`, `HeadsAgree`, `NoFalseWithheld`, `ReceiptIsEarly` | 2 pulses at the start and up to 3 more, so that trees pass 4 leaves; 2 faults for the client (a head that was not signed, then a pulse replaced), 1 for the others; a lag of a round; any copy and any site of the trees published so far |

Three runs narrow the behaviours besides the bounds, where parts cannot influence each
other. `selection` (`MCStep`): the audit and the client only read, so a behaviour has one of
them, and one run of it; for the client one pulse is defective at most, only the first is
entered twice, and a walk begins when a round may exist; the audit misses one entry at most.
`observers` (`OneObserver`, the next-state relation of `MCSpec`): CI, the
watcher and the client read what the aggregator does and not each other, so one of them
acts in a behaviour, and the client, which reads no clock, acts while the clock stands
(`FewFaults`: the second fault is only met there) and is followed to its second alarm (`FewAlarms`).
`agent`: one phase stands for the three, which share nothing but the file; the
operation without a phase is `finalize`.

Deadlock is not checked where the system may stop or the bounds end it: the mirror
(a commit that could not be pushed, and a push of somebody else after it, make the
`ff-only` pull of the unit refuse every later run: the mirror really stops), and `selection`,
`workflow`, `agent`, `minting` and `observers`, whose clocks, calls and pulses end. In
`BeaconCycle`, `MaxPulses` ends the growth of the chain; time, hours and other pushers go on,
so its runs have no deadlock.

Fairness (`FairSpec`): the timers start a process (`WF Start`), a process that runs
takes its next step because every subprocess and request has a timeout and
systemd kills what exceeds `TimeoutStartSec` (`WF Cycle`), clocks advance
(`WF Tick`, `WF NewHour`), drand publishes (`WF RoundOut`). Nothing is assumed of other
pushers, of the mirror or of faults; since faults are bounded, liveness says that
after the last fault the beacon recovers. `Stalled` names the states out of which
the code itself does not come; two of them are findings below.
The mirror (`FairSpec` of `DecisionMirror`) is one process started again and again by a
persistent timer, and every request of it has a timeout: `WF Step`. Its `Stalled` is the
set of states the following runs do not repair.

The modules `Selection`, `Workflow`, `HostAgent`, `Minting` and `Observers` have safety
properties only and assume no fairness.

Every property has a mutant in `PROJECT.json`: a change of the mapped definition like
one a slip in the code would make, under which TLC finds the property violated.

## Proofs

`BeaconCycleProofs` begins with the host alone: all safety properties of `EntropyHost` for
arbitrary sets of numbers and hashes and any number of draws, from the assumptions `SeqsAssumption`,
`HashAssumption`, `DrawsAssumption`. The inductive invariant is `HostTypeOK` and
`HostInv`: besides the properties it says that draws of distinct files are distinct
and older than the counter, that what is held is not retired, and that a recorded
resolver is the one of a retirement.

It goes on to prove the invariants of the cycle for every length of the chain
and every number of faults, from `BeaconAssumption`. None of them is inductive: that
the reveal asked for is of the published head depends on where the script is, and
that the resolver named in `finalize` is the right one depends on how the chain and
the host's draws correspond. `CycleInv` has two halves. `World` ties chain and host
together (`DrawsAgree`, `ResolvedAsHeld`, and the properties); `Control` says what the
script may rely on at each `pc`. `ActionKinds` puts every action into one of a few kinds
of step, using `Control`; `WorldStepKeepsWorld` shows that the kinds preserve `World`;
`ControlKept`, `GitTyped` and `ProcessTyped` preserve the rest, one step per action.
`BeaconImplementsHost` shows that every step of the beacon is a step (or a stutter)
of `HostSpec`, so the theorems about the host, proved of any caller, hold of the beacon.

`BeaconKeepsContract` is the refinement of `BeaconContract`. A push publishes pulses that may follow
because of `ChainStateMachine`, and commits that are new because of `DrawsAgree` with what is
said of retired and revealed draws; sealing is not seen from outside. It needs one more
invariant, `Shown`: a file is `revealing` already when a reveal was refused, so that a sealed
reveal was signed out by the host follows only from where the script was (`RevealsInOnePlace`).

Several properties are bundles (`HostCustody`, `Custody`, `LogSound`, `MirrorSound`) of named
parts; each part has its theorem, and `HostKeepsCustody`, `BeaconKeepsCustody` and
`LogStaysSound` put them together.

`WitnessProofs` proves `HeadCoversCosigned`, `KeepsVouching`, `NoForkCosigned` and
`TurnsMeanMoves` for any trees closed under
prefixes, any clients and threads and any number of attempts (`WitnessAssumption`).
`CustodyInv` is the type with `TreesAsked` (a thread at work has a tree), `LockHeld` (who is
inside holds the lock, alone), `SeenIsHead` (what it read is still the head) and
`HeadCoversCosigned`; without the lock's two parts the head a thread compared with
could be replaced behind it. `NoForkCosigned` and the refinement `KeepsVouching` follow.
`TurnsMeanMoves` needs its own `TurnsInv`: the size that an answer on its way carries is
the head's, or the head has moved since (`TurnsPaid`).

`DecisionLogProofs` proves every property of the `decision_log` run, the refinement
included, for any Workers, namespaces and contracts and any number of attempts
(`LogAssumption`; `MaxRows` is used in no proof). `DenseIndices` is not inductive: an INSERT
may come long after its two COUNTs. `CountsOf` says what a Worker knows then: its index
is at most the size of the table, and if it is the size, nothing was appended since,
so its number in the namespace is right as well; otherwise `PRIMARY KEY (idx)` refuses the
row. `ReadsOf` and `NotesOfLog` say that whatever rows and leaves a Worker or a note holds
are a part of the log from its beginning (`View`), which appends preserve; receipts,
split views and authorities follow. `StepKinds` leaves two kinds of step, a row appended
(`AppendRegisters`) or the table unchanged (`SameTableCertifies`), which are the two
actions of WriteOnceLog.

`DecisionMirrorProofs` proves `MirrorSound` and `MirrorAppendOnly` for any log, honest or not,
any pages and any number of faults (`MirrorAssumption`). What a run holds begins with the entries
on disk (`RunTrue`), checkpoints are of parts of the entries (`Views`), and main and the commits are
beginnings of what is on disk (`Extended`). A torn leaf recomputes to no root, so the run that
meets one stops, and entries are only ever extended. The proof does not use the comparison with
the previous checkpoint (`PrevOK`): it is a second lock on the same door.

`SelectionProofs` proves every property of the `selection` run, for chains of any length and for
`Spec` itself, without the restrictions of the run. Every step lets the world only grow
(`Grows`), which leaves the parts of the invariant true for who does not move. `FirstEligible` says that every
eligible commit before the selected one was passed over on a local record (`local`) or on an
answer that lost an entry (`cut`). It is not
inductive: that a pulse was ineligible when it was looked at says nothing of later
entries. `NeverEligible` is what a client learns from Rekor's whole answer: the clock of Rekor has passed
the release, so any entry to come is late. `FirstStaysSelected` assumes `TokensInCopy`; without it a
client passes over commits (see below). `AuditTrue` says in which order the audit takes its
three looks, and what it holds when one of the fetches failed; `AuditIsExact` rests on it. `Least` grounds the CHOOSE of the earliest entry.

`WorkflowProofs` proves every property of the `workflow` run for any contracts, paths, releases
and faults. The verdicts read files only, so the invariant says what files can be worth:
a receipt is of its place in the log (`ReceiptsTrue`), a contract is in the log once
(`LoggedOnce`), and a transcript that claims authority was made for the first entry, while one of
a run that lacked evidence shows it (`TranscriptsTrue`).

`HostAgentProofs` proves every property of the `agent` run for any processes, calls, connections,
kills and any cache (`AgentAssumption`). `AnswerIsOwn` needs `OwnTraffic`: all that is on a connection
a process waits on is of its one call; when a call gave up, its connection was dropped
with what it carried. `RecordCoversAdmitted` needs `Recorded`, which says for the thread
in the lock's section what it read and will write. `RunsBounded` needs `Sendings`: a
request that did not run is on its way once at most, and who may still send it again has
not seen it run in this life, unless the answer is there or to come.

The last part of `BeaconCycleProofs` is about `Minting`: `MintTypeOK` and `MintedVerifies` for any
history of keys, period, lead, lag and number of pulses (`MintingAssumption`; it is
used of the period, the leads and the bounds only). Neither is inductive, as `minted` forgets
how a pulse came about.
`MintInv` says of a draft, stage by stage, what the gates it has passed established:
`CadenceFits` that all who named an instant named the same one, on the grid, and that the
target follows from it; `CommitReady`, `RevealReady`, `FailureReady` and `SkipReady` all that the
verifier will ask but the number, the link and the aggregator's key, which the seal adds
(`AssembledFields`). `HeadFits` carries to the resolution what was true of its commit (its anchor
is before its release), so that `FollowsOK` holds for a reveal gathered much later.
`MintedVerifies` has two exceptions, what is amiss in an answer and `RotatedBetween`, since without them the formula is
false for some hosts and some histories of keys (see below). What is proved is that a pulse fails exactly then,
and that with what is amiss put right (`PutRight`), and the rotated key aside, it passes everything else.

`ObserversProofs` is in two parts. The first is the theory of `TreeHeads` for trees of any
size over any values: `InclusionComplete`, `ConsistencyComplete` (what the provers of
`tlog.py` make is accepted), `InclusionSound` and `ConsistencySound` (whatever list of hashes is
accepted, the leaf is at that index, the older tree is a prefix of the newer), and
`ConsistentIsExtends`. That hash terms are free stands for collision resistance; nothing else is
assumed. The recursion is over the size of a range: that each of the recursive functions
exists, and equals its body, is proved for it by well-founded induction on sets of
sizes, as the induction theorems with operator parameters cannot be cited here.
Completeness follows the loop of a verifier upwards: after j hashes of the path, `fr` and `sr` are the roots of the two ranges
of level `up` that end at the border, and `Climb` skips the levels where the newer tree's last
node has no sibling. Soundness runs the loop backwards from the root: the accepted root is a
term of the tree, so every `Node` taken apart is a node of it, and the hash of the level below is
the root of the range it stands for. The arithmetic of the two shifting indices (`Up`,
`TrailingZeros`, powers of two) is in lemmas of its own.

The second part is about `Observers`: `ObserversTypeOK`, `HeadsAgree`, `NoFalseWithheld`,
`ReceiptIsEarly` and the action property `TreeDecides`, for any number of pulses, kills, damages
and any lag (`ObserversAssumption`). The properties are not inductive: what the client compares
depends on which heads were signed of which trees, and a verdict about time on what was public when.
`Invariant` adds `Types`; `Ordered` (there is a longest head, which is the chain's once its number is
written); `Agreed` (any two signed heads are comparable; what CI passed
or a client cached is a signed head, as the head of every copy is by `Types`); `Placed` (a pulse is at the same place in
every chain that has it, a resolution right after its commit); `History` (what is published was
recorded as public, and what is not published any more is lost to the aggregator too); `Late` and
`Seen` (what CI and the watcher may conclude about time from what they fetched, in
whichever order the clock was read); and `Justified` (every alarm in `splits` and `rollbacks`). `HeadsRelate` is why a client never calls the later of two copies a rollback,
whatever their ages: of two signed heads the shorter is a prefix of the longer, and the proof made
from the copy's pulses is accepted. `HeadsAgree` rests on `ConsistentIsExtends`: a
signer or a client compares roots and proofs and never chains.

Only model-checked: liveness (`CommitResolved`, `KeepsCommitting`, `CatchesUp`), since fairness is
out of the prover's reach. Every other property of the runs is stated by a theorem.

## Where code and documents disagree

Each is a counterexample of TLC. `late_commit` is a run of the project; the others have a cfg
beside the modules, to be run with `tlc -config X.cfg M`.

* `LateCommitNeverRevealed` (`LateCommit.cfg`): the publication margin is looked at once
  (`beacon-cycle.py:334`). A commit published late by `catch_up` is resumed and revealed
  (`:415`, `:424`), although `:6-8` says it is pushed before its margin or fails.
* `ProvedAbsent` (`ProvedAbsent.cfg`, MCSelection, with the bounds of the run): `commitbound.py:74-75` says that no entry found in Rekor after the grace
  period is proof of absence, and `:85` that the commit "was never anchored". A fetch that fails of an entry that the search
  named is swallowed (`:68`) and taken for the same: an eligible commit is passed over, and a
  later one consumed. A search that fails is told apart (`:70`, `error`); a fetch is not.
* `RollbackIsReal` (`OldCopy.cfg`, MCObservers): `tlogcheck.py:139` says that the head this machine saw is not a
  prefix of the head now served. A copy whose head is shorter than the cached one, pinned or not fetched
  (`:17-19`, `cli.py:28-29`, `:323-324`), is reported so (`osize > size`, `:137`), although both are heads of
  one honest log and the cached one is still published.
* `PushHeals` (`PushHeals.cfg`, BeaconCycle): a pulse committed locally whose push failed is
  not published by the next cycle, although `catch_up` says so (`beacon-cycle.py:253-254`):
  `publish` (`:67`) and `catch_up` (`:255`) look at the working tree only, and
  `require_synced` (`pulse.py:86-93`) then refuses. An operator, a mirror run with something to
  push, or a skip minted while the fetch fails publishes it.
* `FinalizeRetryable` (`EntropyHostFinalize.cfg`, EntropyHost): `finalize` says it is idempotent
  (`entropy_host.py:126`); after a power loss between the zeros (`:136`) and the record it
  cannot read the file it needs (`:131`), and the host refuses commits (`:40`).
  `PROTOCOL.md:60-61` says a crash between prepare and finalize leaves `E` recoverable.
* `NoStrandedSecret` (`StrandedSecret.cfg`, BeaconCycle): two skip pulses can overtake a secret
  whose rollback was lost; `recover` ignores it silently (neither `pulse.py:405` nor `:408`
  applies), although `pulse.py:259` says recover will retry and `RECOVERY.md:66-68` that what
  it does not abort is printed as UNRESOLVED.
* `CommittedWhole` (`MirrorCommittedWhole.cfg`, MCDecisionMirror): `decisions_mirror.py:12-13` says
  any failure leaves the mirror untouched; a file torn by a kill is committed by a later run,
  which compares `checkpoint` only (`:74`).
* `CosignaturesAccumulate` (`MirrorCosignatures.cfg`, MCDecisionMirror): a run that no witness
  answers replaces published cosignatures by none (`decisions_mirror.py:69-75`), although
  `ci/anchor_lib.py:46-48` says they accumulate.
* `NeverTwice` (`NeverTwice.cfg`, MCHostAgent): `rpc.py:65-67` says a request that met an end of
  file was never read. A service killed after the script ran and before the answer gives
  the same end of file, and has forgotten the nonce: the script runs twice.
  `RunsBounded` is what does hold.
* `NeverLower` (`NeverLower.cfg`, MCHostAgent): `agentd.py:7-8` says a host never signs a lower
  number than before. The number is admitted under one lock and the script waits for
  another, so two admitted requests may run in the other order; and a kill between the
  truncation and the write (`:46`) leaves an empty record.
* `SelfConsistent` (`HostAnswers.cfg`, MCMinting): `pulse.py:105` says that a host statement must be self-consistent
  before it is built on. A failure statement that is bound to one commit pulse and names another is sealed
  (`pulse.py:370-374` does not compare them) and fails `verify.py:333`. It takes a host that does not run
  `entropy_host.py`.
* `WindowsCount` (`Failback.cfg`, MCMinting): `RECOVERY.md:82` has an operator append a second
  window for a retired key; `pulse.py:97-102` and `verify.py:62-76` look at the first one
  listed for that key only.
* `RetiredNeverSign` (`Rotation.cfg`, MCMinting): `keys/KEYS.json:2` says the key "must be listed for
  its role with the pulse seq inside" its window, and that retired keys "are never valid for
  new pulses". The entropy host's key for a resolution is looked up at the number of the
  commit when minting (`pulse.py:323`), and at that of the resolution when verifying
  (`verify.py:246`): a key whose window ends between the two signs a resolution that does not verify.
* `OneCommit` (Selection; no cfg, replace `FirstEligible` by it in `Selection.cfg`):
  `commitbound.py:21-25` says no later choice can steer which commit a contract consumes. A
  client without Rekor reads the record, which may name a later entry of the same pulse
  than the earliest, and then passes over a commit that others select.

Seen while modelling, in the models but without a formula of their own:

* `lookup` reads the rows before the checkpoint, so an entry appended between the two is in
  the checkpoint of the answer and not in its list (`DECISION-LOG.md` says all entries).
* Each of up to four requests of `witness_submit` may take the whole budget that
  `gather_cosignatures` promises in total; the reveal deadline is looked at before requests and
  pushes that take time.
* One failed upload makes `anchor.yml` push none of the records of that run.
* A copy of the log without its `.tsr` sidecars passes over commits, although the comment at
  `commitbound.py:120` says it halts. The run has `TokensInCopy = TRUE`.
* `receipt --offline` of an amendment that was not executed can be VERIFIED where `check-bundle` is
  INVALID; an answer to `register` that was lost makes `receipt` VERIFIED and `check-bundle`
  DEGRADED; so does a timing profile that is not required and not satisfied
  (`receipt.py:186` against `:531`).
* A kill in `timestamp`, or a plan over the same path, leaves a `.tsr` that refuses the contract
  for ever; a run with `--allow-unregistered` overwrites a proper transcript.
* A NON-REVEAL of the watcher (`watcher.py:133-136`) can be false: the log is fetched before the
  deadline and the clock read after it. When CI's live look fails, its verdict of a withheld
  reveal can be false too (`NoFalseWithheld` speaks of the looks that worked).
* A kill between truncating and writing the cached head leaves an empty file that is never
  replaced, although `tlogcheck.py:141-145` says so: every later check fails.
* The audit of the anchors reports nothing of Rekor when its search fails: a WARN, and the job is
  green (`verify_anchors.py:196`). An entry of a published pulse that cannot be fetched in three tries is
  counted as unexplained (`:149-150`), and after a failed fetch of a branch (`:41-52`) so may be one that was recorded
  or published meanwhile. `AuditIsExact` speaks of the entries it has seen, and of hidden ones.
* A tick whose `prepare` ends in a failed recover mints a skip without claiming the hour, and
  the fallback of `:02` may mint another; a fallback killed after its claim leaves a gap
  (`beacon-cycle.py:106-109`). `claimed` says that some hour is claimed and not which, so the
  models have no formula for it.

## What is not modelled

Cryptography, hashes and formats: a signature is what only its holder makes, a hash
identifies what it is of, `E` is the identity of a draw, a tree hash is a free term.

* The start of a cycle in detail: which hour `.cycle-hour` names, the UDP trigger and
  `beacon-cadence.py`, which starts the tick process from statistics of earlier rounds.
* Sensors, attestations and their statistics (`hosts/*_probe.py`, `attest_*.py`, logs):
  readings, with no protocol; what a pulse keeps of them is `Statements` in `Minting` and
  `Observations` in `Timing`.
* The arithmetic of the output and of derived values (`derive.py`), the schemas before
  the current one, the BLS and RFC 3161 code.
* The OpenTimestamps half of `anchor_lib.py` and the anchoring of decision checkpoints.
* The handlers of the Worker that only read, the command lines, the benchmark, the site
  and the published data.
* Power loss that reorders what a file system wrote (`entropy_host.py:140`,
  `nbwitness.py:61`): a file of the models is written or not, or torn where the code writes
  in place.
