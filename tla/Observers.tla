------------------------------- MODULE Observers -------------------------------
(***************************************************************************)
(* Who looks at the published chain.  The aggregator signs a tree head for *)
(* every publication (tlog.py: write_checkpoint, called by                 *)
(* beacon-cycle.publish); CI (ci/verify_chain.py) judges a checkout that   *)
(* may have been overtaken; the watcher (watcher.py) fetches the log, then *)
(* asks drand for the time, then writes what it saw, once and for ever; a  *)
(* client (cli/notbefore/tlogcheck.py) checks a copy of the log, new, old  *)
(* or pinned, against the site's head and the one this machine last saw.   *)
(*                                                                         *)
(* Faults: a kill of the publication, a head that could not be signed, a   *)
(* checkout that lost its newest pulses or got another one in their place. *)
(* Sealing itself is in BeaconCycle and Minting: here a resolution is just *)
(* good or not, and a failed push is left out (BeaconCycle has it).        *)
(***************************************************************************)
EXTENDS TreeHeads, FiniteSets

CONSTANTS
  Past,       \* how many pulses there are to begin with
  Lead,       \* rounds from a commit to its target
  Deadline,   \* REVEAL_DEADLINE_S, in rounds
  Lag,        \* by how many rounds the relays may trail drand
  MaxAhead,   \* MAX_SITE_AHEAD
  MaxMints, MaxTime, MaxFaults   \* bounds

ASSUME ObserversAssumption ==
  /\ Past \in Nat \ {0} /\ {Lead, Deadline, Lag, MaxAhead, MaxMints, MaxTime, MaxFaults} \subseteq Nat

VARIABLES
  chain,      \* chain/ of the aggregator's checkout
  heads,      \* the chains whose heads were signed and put in checkpoints/
  top,        \* the one whose head is in `checkpoint`
  published,  \* origin/main: [chain, heads, top]
  copies,     \* all that was ever published: what a client may have or be pinned to
  pc,         \* the publication: idle, noted (checkpoints/N written), ready
  minted,     \* how many pulses were ever made
  public,     \* history: [pulse, at], when a pulse first was on origin
  ci,         \* the CI run: {} or {the tree it checked out}
  green,      \* history: the chains CI passed
  withheld,   \* history: [commit, looked], CI's verdicts of a withheld reveal
  watch,      \* the watcher: idle, or the chain it fetched and the round it got
  records,    \* the watcher's records
  cached,     \* the client's last head: {}, or {the head}; <<>> is an empty file
  splits,     \* history: [copy, site], when it called a split view between the two
  rollbacks,  \* history: [copy, seen], when it called one between a copy and its last head
  now,        \* drand's newest round
  faults

beaconVars == <<chain, heads, top, published, copies, pc, minted, public>>
ciVars     == <<ci, green, withheld>>
watchVars  == <<watch, records>>
clientVars == <<cached, splits, rollbacks>>
lookers    == <<ciVars, watchVars, clientVars>>
vars       == <<beaconVars, lookers, now, faults>>

\* v tells pulses apart, as their hashes do; a resolution names its commit.
Legacy(v)         == [v |-> v, type |-> "legacy"]
Commit(v, rel)    == [v |-> v, type |-> "commit", rel |-> rel]
Resolution(v, of, good) == [v |-> v, type |-> "resolution", of |-> of, good |-> good]

Idle == [pc |-> "idle"]
Init ==
  /\ chain = [v \in 1 .. Past |-> Legacy(v)] /\ heads = {chain} /\ top = chain
  /\ published = [chain |-> chain, heads |-> heads, top |-> top] /\ copies = {published}
  /\ pc = "idle" /\ minted = Past
  /\ public = {[pulse |-> chain[i], at |-> 0] : i \in 1 .. Past}
  /\ ci = {} /\ green = {} /\ withheld = {}
  /\ watch = Idle /\ records = {} /\ cached = {} /\ splits = {} /\ rollbacks = {} /\ now = 0 /\ faults = 0

HeadOf(c) == c[Len(c)]
Pulses(c) == {c[i] : i \in DOMAIN c}
Newest(hs) == CHOOSE h \in hs : \A g \in hs : Len(g) <= Len(h)
Room == minted < Past + MaxMints

-----------------------------------------------------------------------------
(* The aggregator. *)
\* A pulse on top of what is published (BeaconCycle and Minting say how).
Mint ==
  /\ pc = "idle" /\ chain = published.chain /\ Room
  /\ chain' \in IF HeadOf(chain).type = "commit"
                THEN {Append(chain, Resolution(minted + 1, HeadOf(chain).v, g)) : g \in BOOLEAN}
                ELSE {Append(chain, Commit(minted + 1, now + Lead))}
  /\ minted' = minted + 1
  /\ UNCHANGED <<heads, top, published, copies, pc, public, lookers, now, faults>>

\* The checkout loses its newest pulses, or has another pulse in their place.
Damage ==
  /\ pc = "idle" /\ faults < MaxFaults /\ faults' = faults + 1
  /\ \E k \in {i \in 1 .. Len(chain) - 1 : Len(chain) - i <= 2} :
       \/ chain' = SubSeq(chain, 1, k) /\ minted' = minted
       \/ Room /\ chain' = Append(SubSeq(chain, 1, k), [chain[k + 1] EXCEPT !.v = minted + 1]) /\ minted' = minted + 1
  /\ UNCHANGED <<heads, top, published, copies, pc, public, lookers, now>>

\* Mutant: the newest head's size is looked at, its root is not.
SignsAnyLonger == heads = {} \/ Len(Newest(heads)) < Len(chain)
\* write_checkpoint's guards: not a rollback, not a fork, not the same head again.
\* (A file of this size with another root would be newer than the newest one.)
SignsHead ==
  heads = {} \/ (Len(Newest(heads)) < Len(chain) /\ Consistent(Newest(heads), chain))

Dirty == pc = "idle" /\ chain # published.chain
\* Mutant: `checkpoint` is written before the numbered file.
TopFirst ==
  /\ Dirty /\ SignsHead /\ top' = chain /\ pc' = "noted"
  /\ UNCHANGED <<chain, heads, published, copies, minted, public, lookers, now, faults>>
\* publish: a new head signed, checkpoints/N written.
WriteNumbered ==
  /\ Dirty /\ SignsHead
  /\ heads' = heads \cup {chain} /\ pc' = "noted"
  /\ UNCHANGED <<chain, top, published, copies, minted, public, lookers, now, faults>>
WriteTop ==
  /\ pc = "noted" /\ top' = chain /\ pc' = "ready"
  /\ UNCHANGED <<chain, heads, published, copies, minted, public, lookers, now, faults>>
\* publish: no head is signed, for a reason or by a failure; publication goes on.
NoCheckpoint ==
  /\ Dirty /\ pc' = "ready"
  /\ \/ ~SignsHead /\ faults' = faults
     \/ SignsHead /\ faults < MaxFaults /\ faults' = faults + 1
  /\ UNCHANGED <<chain, heads, top, published, copies, minted, public, lookers, now>>
Push ==
  /\ pc = "ready" /\ pc' = "idle"
  /\ published' = [chain |-> chain, heads |-> heads, top |-> top] /\ copies' = copies \cup {published'}
  /\ public' = public \cup {[pulse |-> p, at |-> now] : p \in Pulses(chain) \ {e.pulse : e \in public}}
  /\ UNCHANGED <<chain, heads, top, minted, lookers, now, faults>>
Kill ==
  /\ pc \in {"noted", "ready"} /\ pc' = "idle" /\ faults < MaxFaults /\ faults' = faults + 1
  /\ UNCHANGED <<chain, heads, top, published, copies, minted, public, lookers, now>>

Round ==
  /\ now < MaxTime /\ now' = now + 1
  /\ UNCHANGED <<beaconVars, lookers, faults>>

-----------------------------------------------------------------------------
(* CI: ci/verify_chain.py. *)
CIStart ==
  /\ ci = {} /\ ci' = {published}
  /\ UNCHANGED <<beaconVars, green, withheld, watchVars, clientVars, now, faults>>

\* A pulse that fails the strict verifier, or that may not follow its predecessor.
PulseBad(c, i) ==
  \/ c[i].type = "resolution" /\ (~c[i].good \/ i = 1 \/ c[i - 1].type # "commit" \/ c[i].of # c[i - 1].v)
  \/ c[i].type = "commit" /\ i > 1 /\ c[i - 1].type = "commit"
Resolved(c, i) == i < Len(c) /\ c[i + 1].type = "resolution"
\* Commits of a checkout that are past their deadline when CI comes to them.
Overdue(c) == {i \in DOMAIN c : c[i].type = "commit" /\ ~Resolved(c, i) /\ now > c[i].rel + Deadline}
\* Mutant: the live chain is not looked at, as it was before ERR-026.
NoLook(i, c) == FALSE
\* The look at the live chain: a resolution there that binds to this commit.
InFlight(i, c) == Resolved(published.chain, i) /\ published.chain[i + 1].of = c[i].v

\* The published head: recomputes, extends the one before it, covers every
\* pulse, is the newest of checkpoints/.
CheckpointOK(tree) ==
  /\ Len(tree.top) <= Len(tree.chain) /\ MTH(SubSeq(tree.chain, 1, Len(tree.top))) = MTH(tree.top)
  /\ Cardinality(tree.heads) >= 2 =>
       LET old == Newest(tree.heads \ {Newest(tree.heads)}) IN
       Len(old) <= Len(tree.top) /\ VerifyConsistency(Len(old), Len(tree.top),
         ConsistencyProof(Len(old), SubSeq(tree.chain, 1, Len(tree.top))), MTH(old), MTH(tree.top))
  /\ Len(tree.top) = Len(tree.chain)
  /\ Newest(tree.heads) = tree.top

CIEnd ==
  \E tree \in ci, looked \in BOOLEAN :
    LET overdue == Overdue(tree.chain)
        accused == {i \in overdue : ~(looked /\ InFlight(i, tree.chain))}
        passes  == /\ accused = {} /\ CheckpointOK(tree)
                   /\ \A i \in DOMAIN tree.chain : ~PulseBad(tree.chain, i) IN
    /\ withheld' = withheld \cup {[commit |-> tree.chain[i], looked |-> looked] : i \in accused}
    /\ green' = IF passes THEN green \cup {tree.chain} ELSE green
    /\ ci' = {}
    /\ UNCHANGED <<beaconVars, watchVars, clientVars, now, faults>>

-----------------------------------------------------------------------------
(* The watcher: watcher.py. *)
\* Mutant: the clock is read before the log is fetched.
LogWhenJudging(w) == published.chain
\* What is judged is what was fetched, before the clock was read.
LogFetched(w) == w.chain

Fetch ==
  /\ watch = Idle /\ watch' = [pc |-> "fetched", chain |-> published.chain]
  /\ UNCHANGED <<beaconVars, ciVars, records, clientVars, now, faults>>
\* drand_clock: the highest round of at least two relays, BLS-verified.
Clock ==
  /\ watch.pc = "fetched"
  /\ \E r \in {x \in now - Lag .. now : x >= 0} : watch' = [pc |-> "clocked", chain |-> watch.chain, round |-> r]
  /\ UNCHANGED <<beaconVars, ciVars, records, clientVars, now, faults>>

\* What a run has to say about the commit at place i.
Verdicts(c, i, r) ==
  LET say(kind) == [kind |-> kind, seq |-> i, commit |-> c[i]]
      valid == Resolved(c, i) /\ ~PulseBad(c, i + 1) IN
  IF r < c[i].rel THEN {say("receipt")}
  ELSE (IF valid THEN {say("observed")} ELSE {})
       \cup (IF Resolved(c, i) /\ ~valid THEN {say("invalid")} ELSE {})
       \cup (IF ~valid /\ r >= c[i].rel + Deadline THEN {say("non-reveal")} ELSE {})
\* Records are written once for each kind and number.
Judge ==
  /\ watch.pc = "clocked" /\ watch' = Idle
  /\ LET c == LogFetched(watch)
         said == UNION {Verdicts(c, i, watch.round) : i \in {k \in DOMAIN c : c[k].type = "commit" /\ ~PulseBad(c, k)}} IN
     records' = records \cup {x \in said : \A y \in records : <<y.kind, y.seq>> # <<x.kind, x.seq>>}
  /\ UNCHANGED <<beaconVars, ciVars, clientVars, now, faults>>

-----------------------------------------------------------------------------
(* A client: tlogcheck.py. *)
\* The copy's own head, recomputed from its pulses.
HeadRecomputes(tree) ==
  Len(tree.top) <= Len(tree.chain) /\ MTH(SubSeq(tree.chain, 1, Len(tree.top))) = MTH(tree.top)
\* Two heads of some size, by a proof made from pulses at hand.
Relatives(older, newer, pulses) ==
  VerifyConsistency(Len(older), Len(newer), ConsistencyProof(Len(older), SubSeq(pulses, 1, Len(newer))),
                    MTH(older), MTH(newer))

\* The site is ahead of the copy: its further pulses, when they chain to the
\* copy's last one.
ExtendFromSite(tree, site, need) ==
  IF need <= Len(site.chain) /\ Extends(tree.chain, SubSeq(site.chain, 1, need))
  THEN SubSeq(site.chain, 1, need) ELSE <<>>
\* cross_check_site, when the site answers: the two publication surfaces.  The
\* site may trail the branch, and the copy may be newer than the site.
SiteSplit(tree, site) ==
  LET ahead == Len(site.top) > Len(tree.top)
      older == IF ahead THEN tree.top ELSE site.top
      newer == IF ahead THEN site.top ELSE tree.top
      missing == Len(newer) - Len(tree.chain)
      pulses == IF missing <= 0 THEN tree.chain
                ELSE IF ahead /\ missing <= MaxAhead THEN ExtendFromSite(tree, site, Len(newer)) ELSE <<>> IN
  site.top # tree.top /\ pulses # <<>> /\ ~Relatives(older, newer, pulses)

\* The head seen before is longer than the copy's, or is no prefix of it.
CachedSplit(old, tree) ==
  Len(old) > Len(tree.top) \/ ~Relatives(old, tree.top, tree.chain)

\* check: an alarm of the site does not end it.  The file with the head is
\* truncated and then written; an empty one cannot be parsed, and stays.
Check ==
  \E tree \in copies, reached, killed \in BOOLEAN :
    LET older == {old \in cached \ {<<>>} : CachedSplit(old, tree)} IN
    /\ HeadRecomputes(tree) /\ <<>> \notin cached
    /\ IF reached THEN \E site \in copies : splits' = IF SiteSplit(tree, site) THEN splits \cup {[copy |-> tree, site |-> site]} ELSE splits
                  ELSE UNCHANGED splits
    /\ rollbacks' = rollbacks \cup {[copy |-> tree, seen |-> old] : old \in older}
    /\ cached' = IF older # {} THEN cached ELSE {IF killed THEN <<>> ELSE tree.top}
    /\ IF killed THEN older = {} /\ faults < MaxFaults /\ faults' = faults + 1 ELSE UNCHANGED faults
    /\ UNCHANGED <<beaconVars, ciVars, watchVars, now>>

-----------------------------------------------------------------------------
Next ==
  \/ Mint \/ Damage \/ WriteNumbered \/ WriteTop \/ NoCheckpoint \/ Push \/ Kill \/ Round
  \/ CIStart \/ CIEnd \/ Fetch \/ Clock \/ Judge \/ Check
Spec == Init /\ [][Next]_vars

-----------------------------------------------------------------------------
\* The types, the stages a publication goes through, and what is where in each:
\* a numbered head is written before `checkpoint`, which is only ever one of the
\* numbered ones.
ObserversTypeOK ==
  /\ pc \in {"idle", "noted", "ready"} /\ watch.pc \in {"idle", "fetched", "clocked"}
  /\ top \in heads /\ published.heads \subseteq heads
  /\ pc = "noted" => Newest(heads) = chain
  /\ \A p \in Pulses(chain) : p.v <= minted
  /\ \A e \in public : e.at <= now
  /\ Cardinality(ci) <= 1 /\ now <= MaxTime /\ faults <= MaxFaults

\* Whenever the chain gets another pulse or loses some: a consistency proof made
\* from its pulses is accepted exactly when the older head is a prefix of them,
\* and an audit path exactly for the pulse at its place, on both sides of a power
\* of two (tlog.verify_consistency, verify_inclusion).
PathsDecide(C, D) ==
  LET root == MTH(D) IN
  \A i \in DOMAIN C :
    VerifyInclusion(Leaf(C[i]), i - 1, Len(D), InclusionPath(i - 1, D), root) <=> C[i] = D[i]
TreeDecides ==
  [][chain' # chain =>
      /\ \A C \in heads \cup {chain'} : Len(C) <= Len(chain') => (Consistent(C, chain') <=> Extends(C, chain'))
      /\ \A C \in {chain, chain'} : Len(C) <= Len(chain') => PathsDecide(C, chain')]_vars

\* Whatever a checkout lost or got in exchange, the heads the aggregator signed,
\* the chains CI passed and the head a client keeps are all prefixes of one
\* another.  Whatever copy a client checks, it calls a split view with the site
\* only when the site's pulses do not carry the site's head or are not the copy's,
\* and with the head it saw before only when the copy is an older one: of two
\* copies taken one after the other it never calls the later one a rollback.
HeadsAgree ==
  /\ \A C, D \in heads \cup green \cup cached : Comparable(C, D)
  /\ \A a \in splits : ~HeadRecomputes(a.site) \/ ~Comparable(a.copy.chain, a.site.chain)
  /\ \A a \in rollbacks : a.copy.top # a.seen /\ Extends(a.copy.top, a.seen)

\* FALSE of the code, which says so of an older or a pinned copy of an honest log
\* (tlogcheck.py:137): "the head this machine saw before ... is NOT a prefix of
\* the head now served" (tlogcheck.py:139).
RollbackIsReal ==
  \A a \in rollbacks : ~Extends(a.seen, published.top)

\* When CI could look at the live chain, a commit it calls withheld has no
\* resolution there that was published by its deadline: being overtaken by the
\* push of a resolution is not held against anybody (ERR-026).
NoFalseWithheld ==
  \A w \in withheld : w.looked =>
    ~\E e \in public : /\ e.pulse.type = "resolution" /\ e.pulse.of = w.commit.v
                       /\ e.pulse \in Pulses(published.chain)
                       /\ e.at <= w.commit.rel + Deadline

\* A commit receipt is only written for a commit that was public before its
\* round, give or take the relays' lag.
ReceiptIsEarly ==
  \A x \in records : x.kind = "receipt" =>
    \E e \in public : e.pulse = x.commit /\ e.at < x.commit.rel + Lag
=============================================================================
