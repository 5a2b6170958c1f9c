----------------------------- MODULE BeaconCycle -----------------------------
(***************************************************************************)
(* The aggregator: beacon-cycle.py driving pulse.py, its git checkout, the *)
(* published branch, drand's clock, and the entropy host of EntropyHost.   *)
(*                                                                         *)
(* One action is one step that another party or a crash can separate from  *)
(* the next: a request to a host, a sealed pulse file, a local git commit, *)
(* a push.  A pulse is its type and the draw it is about; its hash is its  *)
(* number, because the chain only ever grows.                              *)
(*                                                                         *)
(* Failures covered: every network step may fail, a host's reply may be    *)
(* lost after the host acted, a push may take effect unacknowledged, the   *)
(* clock hosts may refuse, TSA tokens may be missing, the process may be   *)
(* killed anywhere (systemd's TimeoutStartSec included), the entropy host  *)
(* may lose power, other people push to the branch, the decision mirror    *)
(* pushes from the same checkout.  MaxFaults bounds how often; after that  *)
(* everything works, which is what the liveness properties assume.         *)
(***************************************************************************)
EXTENDS EntropyHost, Sequences

CONSTANTS
  MaxPulses,   \* bound: length of the chain
  MaxFaults    \* bound: faults in one behaviour

ASSUME BeaconAssumption ==
  /\ MaxPulses \in Nat /\ MaxFaults \in Nat
  /\ Seqs = 1..MaxPulses /\ Hashes = Seqs /\ ZeroHash = 0

VARIABLES
  chain,       \* chain/pulse-NNNN.json of the aggregator's working tree
  committed,   \* how many of them the checkout's HEAD contains
  pushed,      \* how many of them origin/main contains
  ahead,       \* HEAD has commits origin lacks
  behind,      \* origin has commits (docs, the site) HEAD lacks
  litter,      \* chain/ holds .tmp or token files of an interrupted seal
  phase,       \* the aggregator's clock against the target release
  claimed,     \* .cycle-hour holds the current hour
  mode,        \* "plain" (timer) or "tick" (--at)
  pc,          \* where the cycle process is
  job,         \* what publish / the retirement loop was called for
  todo,        \* pending secrets the retirement loop still has to visit
  late,        \* history: commits published without the margin before their round
  faults       \* how many faults happened

gitVars   == <<chain, committed, pushed, ahead, behind, litter, late>>
cycleVars == <<pc, job, todo, mode, claimed>>
vars      == <<hostVars, gitVars, cycleVars, phase, faults>>

Pulse(t, e) == [type |-> t, e |-> e]
\* phase: "ample" is at least PUBLISH_MARGIN_S before the release, "tight" is
\* less, "open" is up to 510 s after it, "closing" up to 600 s, "over" later.
PhaseOrder == <<"ample", "tight", "open", "closing", "over">>
Before     == {"ample", "tight"}

\* head(): the last pulse file, or the legacy head of an empty chain.
HeadSeq == Len(chain)
HeadPulse == IF chain = <<>> THEN Pulse("legacy", 0) ELSE chain[HeadSeq]
HeadIsCommit == HeadPulse.type = "commit"
Resolutions  == {"reveal", "failure"}

\* git status --porcelain chain
Dirty == committed < HeadSeq \/ litter
\* require_synced after its fetch: clean, and fast-forwardable.
Synced == ~Dirty /\ ~ahead
Room(n) == HeadSeq + n <= MaxPulses

Init ==
  /\ HostInit
  /\ chain = <<>> /\ committed = 0 /\ pushed = 0 /\ late = {}
  /\ ahead = FALSE /\ behind = FALSE /\ litter = FALSE
  /\ phase = "over" /\ claimed = FALSE /\ mode = "plain"
  /\ pc = "idle" /\ job = "none" /\ todo = {} /\ faults = 0

-----------------------------------------------------------------------------
(* Building blocks                                                         *)

Fault   == faults < MaxFaults /\ faults' = faults + 1
NoFault == UNCHANGED faults
At(l)   == pc = l
Goto(l) == pc' = l /\ UNCHANGED <<job, todo, mode, claimed>>
GotoFor(l, j) == pc' = l /\ job' = j /\ UNCHANGED <<todo, mode, claimed>>
Exit    == pc' = "idle" /\ job' = "none" /\ todo' = {} /\ UNCHANGED <<mode, claimed>>
\* __main__'s handler of an unhandled exception.
Unhandled == IF HeadIsCommit THEN Goto("fail") ELSE Exit

\* seal: the pulse file appears; publication comes later.
Seal(t, e) ==
  /\ chain' = Append(chain, Pulse(t, e))
  /\ UNCHANGED <<committed, pushed, ahead, behind, litter, late>>
\* An exception or a kill inside seal may leave .tmp and token files.
SealLitter ==
  /\ litter' \in {litter, TRUE}
  /\ UNCHANGED <<chain, committed, pushed, ahead, behind, late>>

\* require_synced: fetch, and fast-forward when only behind.
FetchAndSync ==
  /\ behind' = IF Synced THEN FALSE ELSE behind
  /\ UNCHANGED <<chain, committed, pushed, ahead, litter, late>>
\* Its outcome: it dies when not synced, or when the fetch fails.
SyncDies == (~Synced /\ NoFault) \/ Fault

\* Pulse i, published now, is a commit without the margin before its round.
LateNow(i) == chain[i].type = "commit" /\ phase # "ample"
\* Mutant: the push counts what the tree holds, committed or not.
PushTakesTree ==
  /\ pushed' = HeadSeq
  /\ late'   = late \cup {i \in pushed+1..HeadSeq : LateNow(i)}
  /\ ahead'  = FALSE /\ behind' = FALSE
  /\ UNCHANGED <<chain, committed, litter>>
\* A push that reaches origin (rebased first when others pushed).
PushTakesEffect ==
  /\ pushed' = committed
  /\ late'   = late \cup {i \in pushed+1..committed : LateNow(i)}
  /\ ahead'  = FALSE /\ behind' = FALSE
  /\ UNCHANGED <<chain, committed, litter>>

\* A push that does not, though the rebase before it may have happened.
PushFails ==
  /\ behind' \in {behind, FALSE}
  /\ UNCHANGED <<chain, committed, pushed, ahead, litter, late>>

-----------------------------------------------------------------------------
(* Starting a cycle: main, precise_main, claim_hour                        *)

\* The :02 fallback timer; it exits at once when the hour is claimed.
TimerStart ==
  /\ At("idle") /\ ~claimed
  /\ pc' = "pull" /\ mode' = "plain" /\ claimed' = TRUE
  /\ UNCHANGED <<hostVars, gitVars, job, todo, phase, faults>>

\* --at next: prepares first, claims the hour only when it is ready.
TickStart ==
  /\ At("idle")
  /\ pc' = "pull" /\ mode' = "tick"
  /\ UNCHANGED <<hostVars, gitVars, job, todo, claimed, phase, faults>>

\* Where prepare hands over: l is "await" (resume) or "commit".
Proceed(l) ==
  /\ pc' = IF mode = "tick" /\ claimed THEN "idle" ELSE l
  /\ claimed' = TRUE /\ job' = "none" /\ todo' = {}
  /\ UNCHANGED mode

\* prepare: git pull --ff-only, three attempts, the third raises.
Pull ==
  /\ At("pull") /\ UNCHANGED <<hostVars, phase>>
  /\ \/ /\ ~(ahead /\ behind) /\ NoFault
        /\ behind' = FALSE
        /\ UNCHANGED <<chain, committed, pushed, ahead, litter, late>>
        /\ Goto("catchup")
     \/ /\ (ahead /\ behind /\ NoFault) \/ Fault
        /\ UNCHANGED gitVars
        /\ Unhandled

\* Mutant: no catch_up.
CatchUpSkipped ==
  At("catchup") /\ NoFault /\ UNCHANGED <<hostVars, gitVars, phase>> /\ Goto("recover")

\* catch_up: publishes what the working tree holds and HEAD does not.
CatchUp ==
  /\ At("catchup") /\ NoFault /\ UNCHANGED <<hostVars, gitVars, phase>>
  /\ IF Dirty THEN GotoFor("add", "catchup") ELSE Goto("recover")

-----------------------------------------------------------------------------
(* publish: git add / commit, then push_with_rebase                        *)

\* Where the cycle continues after publish returned, or raised.
Published ==
  CASE job = "catchup" -> Goto("recover")
    [] job = "commit"  -> Goto(IF phase = "ample" THEN "await" ELSE "fail")
    [] job = "skip"    -> Exit
    [] OTHER           -> Goto("finalize")
PublishRaised ==
  CASE job = "catchup"             -> Goto("recover")
    [] job \in {"commit", "reveal"} -> Unhandled
    [] OTHER                       -> Exit

\* Nothing to add: publish returns without pushing.
PublishAdd ==
  /\ At("add") /\ UNCHANGED <<hostVars, phase>>
  /\ \/ /\ Dirty /\ NoFault
        /\ committed' = HeadSeq /\ litter' = FALSE /\ ahead' = TRUE
        /\ UNCHANGED <<chain, pushed, behind, late>>
        /\ Goto("push")
     \/ ~Dirty /\ NoFault /\ UNCHANGED gitVars /\ Published
     \/ Dirty /\ Fault /\ UNCHANGED gitVars /\ PublishRaised

\* Three attempts: the push lands; it does not; or it lands unacknowledged.
PublishPush ==
  /\ At("push") /\ UNCHANGED <<hostVars, phase>>
  /\ \/ NoFault /\ PushTakesEffect /\ Published
     \/ Fault /\ PushFails /\ PublishRaised
     \/ Fault /\ PushTakesEffect /\ PublishRaised

-----------------------------------------------------------------------------
(* pulse.py recover, and the rollback of cmd_commit                        *)

\* cmd_recover: sync, then ask the entropy host what it still holds.
RecoverList ==
  /\ At("recover") /\ UNCHANGED <<hostVars, phase>>
  /\ \/ /\ Synced /\ NoFault /\ FetchAndSync
        /\ pc' = "retire" /\ job' = "recover" /\ todo' = Pending
        /\ UNCHANGED <<mode, claimed>>
     \/ SyncDies /\ UNCHANGED gitVars /\ Goto("skip")

\* Rollback asks for the same list; it retires only its own number.
RollbackList ==
  /\ At("rollback") /\ UNCHANGED <<hostVars, gitVars, phase>>
  /\ \/ /\ NoFault
        /\ pc' = "retire" /\ job' = "rollback"
        /\ todo' = {s \in {HeadSeq + 1} \cap Pending : held[s] \in {"secret", "abandoning"}}
        /\ UNCHANGED <<mode, claimed>>
     \/ Fault /\ Goto("skip")

First == CHOOSE s \in todo : \A t \in todo : s <= t
\* Mutant: the head commit counts as unpublished.
UnpublishedOrHead(s) == s >= HeadSeq
\* No pulse of the published chain commits to this secret.
Unpublished(s) == s > HeadSeq \/ (s = HeadSeq /\ ~HeadIsCommit)
\* The published resolver of a prepared secret below the head.
ResolverOf(s) == {i \in {s + 1} \cap 1..HeadSeq : chain[i].type \in Resolutions}
Finishable(s) ==
  held[s] \in {"revealing", "abandoning"} /\ s < HeadSeq /\ ResolverOf(s) # {}

\* Mutant: recover does not report the unresolved head commit (exit code 3).
AfterRetireNoResume ==
  IF job = "rollback" THEN Goto("skip")
  ELSE IF ~HeadIsCommit /\ Room(2) /\ drawn < MaxDraws THEN Proceed("commit")
  ELSE Exit
\* The loop is over: resume the head commit, or go on to commit; a rollback
\* always ends in the skip of commit_phase.
AfterRetire ==
  IF job = "rollback" THEN Goto("skip")
  ELSE IF HeadIsCommit THEN Proceed("await")
  ELSE IF Room(2) /\ drawn < MaxDraws THEN Proceed("commit")
  ELSE Exit
RetireDone ==
  /\ At("retire") /\ todo = {}
  /\ NoFault /\ UNCHANGED <<hostVars, gitVars, phase>>
  /\ AfterRetire

\* abandon-prepare with the zero hash of a secret that was never published.
RetireAbandon ==
  /\ At("retire") /\ todo # {} /\ Unpublished(First)
  /\ UNCHANGED <<gitVars, phase>>
  /\ \/ NoFault /\ AbandonPrepare(First, ZeroHash) /\ Goto("retire0")
     \/ NoFault /\ AbandonRefused(First) /\ Goto("skip")
     \/ Fault /\ AbandonPrepare(First, ZeroHash) /\ Goto("skip")
     \/ Fault /\ UNCHANGED hostVars /\ Goto("skip")

\* finalize calls of the loop: with the zero hash after that abandonment, or
\* with the resolver already published.
RetireFinalize(r) ==
  /\ UNCHANGED <<gitVars, phase>>
  /\ \/ /\ NoFault /\ Finalize(First, r)
        /\ pc' = "retire" /\ todo' = todo \ {First} /\ UNCHANGED <<job, mode, claimed>>
     \/ NoFault /\ ~Finalizable(First) /\ UNCHANGED hostVars /\ Goto("skip")
     \/ Fault /\ (Finalize(First, r) \/ FinalizeCrash(First) \/ UNCHANGED hostVars)
        /\ Goto("skip")

\* Mutant: it names the commit instead of the pulse that resolves it.
RetireResolvedByCommit ==
  /\ At("retire") /\ todo # {} /\ ~Unpublished(First) /\ Finishable(First)
  /\ RetireFinalize(First)

RetireAborted == At("retire0") /\ RetireFinalize(ZeroHash)
RetireResolved ==
  /\ At("retire") /\ todo # {} /\ ~Unpublished(First) /\ Finishable(First)
  /\ RetireFinalize(First + 1)

\* Any other leftover is passed over (printed as UNRESOLVED when prepared).
RetirePassOver ==
  /\ At("retire") /\ todo # {} /\ ~Unpublished(First) /\ ~Finishable(First)
  /\ NoFault /\ UNCHANGED <<hostVars, gitVars, phase>>
  /\ todo' = todo \ {First} /\ UNCHANGED <<pc, job, mode, claimed>>

-----------------------------------------------------------------------------
(* pulse.py commit, and the skip of a refused one                          *)

\* require_synced (a tick cycle may assume its fetch of seconds ago), the head
\* check and the margin gate, which fixes the target round.
CommitGate ==
  /\ At("commit") /\ UNCHANGED hostVars
  /\ \/ /\ Synced /\ ~HeadIsCommit /\ NoFault
        /\ FetchAndSync \/ (mode = "tick" /\ UNCHANGED gitVars)
        /\ phase' = "ample" /\ Goto("draw")
     \/ SyncDies /\ UNCHANGED <<gitVars, phase>> /\ Goto("skip")

\* The entropy host's commit; an unclear outcome counts as "may hold one".
CommitDraw ==
  /\ At("draw") /\ UNCHANGED <<gitVars, phase>>
  /\ \/ NoFault /\ Commit(HeadSeq + 1) /\ Goto("collect")
     \/ NoFault /\ ~MayCommit(HeadSeq + 1) /\ CommitRefused(HeadSeq + 1) /\ Goto("rollback")
     \/ /\ Fault /\ Goto("rollback")
        /\ \/ Commit(HeadSeq + 1) \/ CommitCrash(HeadSeq + 1) \/ CommitRefused(HeadSeq + 1)
           \/ UNCHANGED hostVars

\* The clock hosts attest; their anchor must precede the release.
CommitCollect ==
  /\ At("collect") /\ UNCHANGED <<hostVars, gitVars, phase>>
  /\ \/ phase \in Before /\ NoFault /\ Goto("seal")
     \/ /\ (phase \notin Before /\ NoFault) \/ Fault
        /\ Goto("rollback")

\* seal of the commit; the clock is not read again here.  A refusal rolls
\* back; the command may also die after the pulse file is in place.
CommitSeal ==
  /\ At("seal") /\ UNCHANGED <<hostVars, phase>>
  /\ \/ NoFault /\ Seal("commit", draw[HeadSeq + 1]) /\ GotoFor("add", "commit")
     \/ Fault /\ SealLitter /\ Goto("rollback")
     \/ Fault /\ Seal("commit", draw[HeadSeq + 1]) /\ Goto("skip")

\* Mutant: a skip may follow anything.
MaySkipAlways == Room(1)
MaySkip == ~HeadIsCommit /\ Room(1)
\* cmd_skip: syncs, or goes on with the local head when the fetch fails.
SkipMint ==
  /\ At("skip") /\ UNCHANGED <<hostVars, phase>>
  /\ \/ /\ (Synced /\ NoFault) \/ Fault
        /\ MaySkip
        /\ Seal("skip", 0) /\ GotoFor("add", "skip")
     \/ /\ ~Synced \/ ~MaySkip
        /\ NoFault /\ UNCHANGED gitVars /\ Exit
     \/ Fault /\ SealLitter /\ Exit

-----------------------------------------------------------------------------
(* reveal_phase: await_round, pulse.py reveal                              *)

\* The round is seen while the reveal can still be published, or it is not.
AwaitRound ==
  /\ At("await") /\ NoFault /\ UNCHANGED <<hostVars, gitVars, phase>>
  /\ \/ phase = "open" /\ HeadPulse.e \in released /\ Goto("reveal")
     \/ phase \in {"closing", "over"} /\ Goto("fail")

\* cmd_reveal up to its requests: sync, the head, the deadline.
RevealGate ==
  /\ At("reveal") /\ UNCHANGED <<hostVars, phase>>
  /\ \/ Synced /\ HeadIsCommit /\ phase # "over" /\ NoFault /\ FetchAndSync /\ Goto("ask")
     \/ SyncDies /\ UNCHANGED gitVars /\ Goto("fail")
     \/ phase = "over" /\ NoFault /\ UNCHANGED gitVars /\ Goto("fail")

\* reveal-prepare, beside the attestations of the clock hosts.
RevealAsk ==
  /\ At("ask") /\ UNCHANGED <<gitVars, phase>>
  /\ \/ NoFault /\ RevealPrepare(HeadSeq, HeadSeq) /\ Goto("attest")
     \/ NoFault /\ held[HeadSeq] \notin Revealable /\ RevealRefused(HeadSeq) /\ Goto("fail")
     \/ /\ Fault /\ Goto("fail")
        /\ RevealPrepare(HeadSeq, HeadSeq) \/ RevealRefused(HeadSeq) \/ UNCHANGED hostVars

\* E matches the commitment, the anchor follows the release; the deadline is
\* not looked at again before the reveal is sealed.
RevealSeal ==
  /\ At("attest") /\ UNCHANGED <<hostVars, phase>>
  /\ \/ NoFault /\ Seal("reveal", draw[HeadSeq]) /\ GotoFor("add", "reveal")
     \/ Fault /\ SealLitter /\ Goto("fail")
     \/ Fault /\ Seal("reveal", draw[HeadSeq]) /\ Goto("fail")

-----------------------------------------------------------------------------
(* fail: pulse.py fail, publish, finalize                                  *)

\* Whatever stops the failure pulse, publish is still called.
FailGate ==
  /\ At("fail") /\ UNCHANGED <<hostVars, phase>>
  /\ \/ Synced /\ HeadIsCommit /\ NoFault /\ FetchAndSync /\ Goto("abandon")
     \/ SyncDies /\ UNCHANGED gitVars /\ GotoFor("add", "failure")
     \/ ~HeadIsCommit /\ NoFault /\ UNCHANGED gitVars /\ GotoFor("add", "failure")

FailAbandon ==
  /\ At("abandon") /\ UNCHANGED <<gitVars, phase>>
  /\ \/ NoFault /\ AbandonPrepare(HeadSeq, HeadSeq) /\ Goto("sealfail")
     \/ NoFault /\ AbandonRefused(HeadSeq) /\ GotoFor("add", "failure")
     \/ /\ Fault /\ GotoFor("add", "failure")
        /\ AbandonPrepare(HeadSeq, HeadSeq) \/ UNCHANGED hostVars

FailSeal ==
  /\ At("sealfail") /\ UNCHANGED <<hostVars, phase>>
  /\ GotoFor("add", "failure")
  /\ \/ NoFault /\ Seal("failure", draw[HeadSeq])
     \/ Fault /\ SealLitter

\* cmd_finalize: only for a resolution that the fetched origin/main equals.
MayFinalize == HeadPulse.type \in Resolutions /\ Synced
FinalizeCall ==
  /\ At("finalize") /\ UNCHANGED <<gitVars, phase>>
  /\ Exit
  /\ \/ /\ MayFinalize /\ ~behind /\ NoFault
        /\ Finalize(HeadSeq - 1, HeadSeq) \/ (~Finalizable(HeadSeq - 1) /\ UNCHANGED hostVars)
     \/ ~(MayFinalize /\ ~behind) /\ NoFault /\ UNCHANGED hostVars
     \/ /\ Fault
        /\ \/ MayFinalize /\ (Finalize(HeadSeq - 1, HeadSeq) \/ FinalizeCrash(HeadSeq - 1))
           \/ UNCHANGED hostVars

-----------------------------------------------------------------------------
(* The environment                                                         *)

\* The cycle process is killed; inside seal it may leave litter.
Crash ==
  /\ pc # "idle" /\ Fault
  /\ IF pc \in {"seal", "skip", "attest", "sealfail"} THEN SealLitter ELSE UNCHANGED gitVars
  /\ Exit /\ UNCHANGED <<hostVars, phase>>

\* Time passes towards the reveal deadline of the latest target.
Tick ==
  /\ phase # "over"
  /\ \E i \in 1..4 : phase = PhaseOrder[i] /\ phase' = PhaseOrder[i + 1]
  /\ UNCHANGED <<hostVars, gitVars, cycleVars, faults>>

\* drand publishes the target round, never before its nominal time.
RoundOut ==
  /\ phase \notin Before /\ drawn \notin released \cup {0}
  /\ Release(drawn)
  /\ UNCHANGED <<gitVars, cycleVars, phase, faults>>

NewHour ==
  /\ claimed /\ claimed' = FALSE
  /\ UNCHANGED <<hostVars, gitVars, pc, job, todo, mode, phase, faults>>

\* Somebody else pushes to the branch.
OtherPush ==
  /\ ~behind /\ behind' = TRUE
  /\ UNCHANGED <<hostVars, chain, committed, pushed, ahead, litter, late,
                 cycleVars, phase, faults>>

\* decisions_mirror.py --push on the same checkout, at any point of a cycle, with
\* which it shares no lock: its service pulls --ff-only first, then commits and
\* pushes decisions/, and every commit of the cycle with it.
MirrorPush ==
  /\ ~(ahead /\ behind)
  /\ \/ NoFault /\ PushTakesEffect
     \/ /\ Fault /\ ahead' = TRUE /\ behind' = FALSE
        /\ UNCHANGED <<chain, committed, pushed, litter, late>>
  /\ UNCHANGED <<hostVars, cycleVars, phase>>

Start == TimerStart \/ TickStart
Recover == RecoverList \/ RollbackList \/ RetireDone \/ RetireAbandon
           \/ RetireAborted \/ RetireResolved \/ RetirePassOver
Cycle ==
  \/ Pull \/ CatchUp \/ PublishAdd \/ PublishPush \/ Recover
  \/ CommitGate \/ CommitDraw \/ CommitCollect \/ CommitSeal \/ SkipMint
  \/ AwaitRound \/ RevealGate \/ RevealAsk \/ RevealSeal
  \/ FailGate \/ FailAbandon \/ FailSeal \/ FinalizeCall
Environment == Crash \/ Tick \/ RoundOut \/ NewHour \/ OtherPush \/ MirrorPush

Next == Start \/ Cycle \/ Environment
Spec == Init /\ [][Next]_vars

\* Timers start cycles, every step of a cycle is bounded by a timeout, clocks
\* advance and drand publishes.  Nothing is assumed of other pushers, of the
\* mirror, or of faults.
FairSpec == Spec /\ WF_vars(Start) /\ WF_vars(Cycle) /\ WF_vars(Tick)
                 /\ WF_vars(RoundOut) /\ WF_vars(NewHour)

-----------------------------------------------------------------------------
(* Properties                                                              *)

Labels == {"idle", "pull", "catchup", "add", "push", "recover", "rollback",
           "retire", "retire0", "commit", "draw", "collect", "seal", "skip",
           "await", "reveal", "ask", "attest", "fail", "abandon", "sealfail",
           "finalize"}
Jobs == {"none", "catchup", "commit", "reveal", "failure", "skip", "recover",
         "rollback"}
Types == {"commit", "reveal", "failure", "skip"}

\* Every variable has its type; origin holds a prefix of HEAD, HEAD of the tree.
BeaconTypeOK ==
  /\ chain \in Seq([type : Types, e : Nat])
  /\ pushed \in 0..committed /\ committed \in 0..HeadSeq
  /\ {ahead, behind, litter, claimed} \subseteq BOOLEAN
  /\ phase \in {PhaseOrder[i] : i \in 1..5}
  /\ mode \in {"plain", "tick"} /\ pc \in Labels /\ job \in Jobs
  /\ todo \subseteq Seqs /\ late \subseteq Seqs /\ faults \in 0..MaxFaults

\* PROTOCOL.md's state machine: a commit is followed by its own reveal or
\* failure and by nothing else, and only a commit is resolved.
ChainStateMachine ==
  \A i \in 1..HeadSeq :
    /\ chain[i].type \in Resolutions =>
         i > 1 /\ chain[i - 1] = Pulse("commit", chain[i].e)
    /\ chain[i].type = "commit" /\ i < HeadSeq => chain[i + 1].type \in Resolutions

\* The commit at the head can still be resolved: the host holds that very
\* draw with its E, through every rollback, recovery, crash and retry.
HeadCommitBacked ==
  HeadIsCommit => /\ held[HeadSeq] # "none" /\ content[HeadSeq] = "E"
                  /\ draw[HeadSeq] = HeadPulse.e

\* An abandonment bound to the zero hash says the commit was never published:
\* no pulse of the chain is about such a draw, now or later.
ZeroMeansUnpublished ==
  \A r \in retired : r.by = ZeroHash => \A i \in 1..HeadSeq : chain[i].e # r.e

\* E is erased only against a published pulse that resolves that draw the way
\* the host was told.
ErasedAfterPublication ==
  \A r \in retired : r.by # ZeroHash =>
    /\ r.by \in 1..pushed
    /\ chain[r.by] = Pulse(IF r.how = "revealing" THEN "reveal" ELSE "failure", r.e)

\* E leaves the host only for the published commit that binds it.
RevealedAfterPublication ==
  \A c \in signed : c.phase = "reveal" =>
    c.binding \in 1..pushed /\ chain[c.binding] = Pulse("commit", c.e)

\* Custody of E against the published branch, through every crash and retry of
\* the cycle: the head's commit stays resolvable, E leaves the host after its
\* commit is published and is erased after its resolution is.
Custody ==
  HeadCommitBacked /\ ZeroMeansUnpublished /\ ErasedAfterPublication /\ RevealedAfterPublication

\* The published branch and the custody of E keep the beacon's contract: what
\* reaches origin, what leaves the entropy host and what is erased there are,
\* step for step, what BeaconContract allows.
Contract == INSTANCE BeaconContract WITH
  log       <- SubSeq(chain, 1, pushed),
  disclosed <- {c.e : c \in {d \in signed : d.phase = "reveal"}},
  gone      <- {r.e : r \in retired}
KeepsContract == Contract!Spec

\* The states the code cannot leave by itself: commits in HEAD that origin
\* lacks (require_synced refuses, publish sees nothing to add), a prepared
\* file zeroed by an interrupted finalize, and a secret below the head that
\* has no published resolver.
Stalled ==
  \/ ahead
  \/ \E s \in Pending : ~Readable(s)
  \/ \E s \in Pending : s < HeadSeq /\ ~Finishable(s)

\* A published commit does not stay unresolved: it is revealed or failed, or
\* the beacon is in one of the stalled states.
CommitResolved == HeadIsCommit ~> (~HeadIsCommit \/ Stalled)

\* The beacon keeps asking for new commitments unless it is stalled (or the
\* bounds of the model are used up).
KeepsCommitting == []<>(At("draw") \/ Stalled \/ ~Room(2) \/ drawn = MaxDraws)

\* beacon-cycle.py: "Anything minted but not pushed ... is published before we
\* reason about the head": a pulse that was minted is published in the end.
PushHeals == pushed < HeadSeq ~> pushed = HeadSeq

\* RECOVERY.md: leftovers are aborted or finalized, "the one case needing a
\* human" is a prepared one: a plain secret never stays below the head.
NoStrandedSecret == \A s \in Pending : held[s] = "secret" => s >= HeadSeq

\* beacon-cycle.py's contract: a commit is pushed with the margin before its
\* round; a breach is failed, never revealed.
LateCommitNeverRevealed ==
  \A i \in 2..pushed : chain[i].type = "reveal" => (i - 1) \notin late
=============================================================================
