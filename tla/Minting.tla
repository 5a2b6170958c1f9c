-------------------------------- MODULE Minting --------------------------------
(***************************************************************************)
(* What goes into a pulse (pulse.py: cmd_commit, cmd_reveal, cmd_fail,     *)
(* cmd_skip) and what the strict verifier reads out of it (verify.py:      *)
(* strict_main): signing keys with their validity windows, the hosts'      *)
(* clocks, the GNSS anchor, the drand round, the cadence trigger and the   *)
(* target it fixes.  A mint asks hosts and relays while time passes; each  *)
(* of them may answer badly or with an old value.  The two programs were   *)
(* written apart: here every pulse the one writes is shown to the other.   *)
(***************************************************************************)
EXTENDS Integers, Sequences, Timing

CONSTANTS
  Period,      \* seconds between drand rounds
  Leads,       \* --lead of a commit, in rounds
  MinLead,     \* MIN_LEAD
  MintMargin,  \* PUBLISH_MARGIN_S + 30
  Deadline,    \* REVEAL_DEADLINE_S
  Fresh,       \* age at which a scheduled instant is refused (900 s)
  MinTokens,   \* MIN_TSA_TOKENS
  Tsas,        \* how many authorities are asked
  Keys,        \* keys/KEYS.json: a sequence of [role, key, from, to]
  Lag,         \* by how much the GNSS anchor may trail the clock
  MaxTime, MaxMinted   \* bounds

Hosts == {"gnss", "time", "witness"}
ASSUME MintingAssumption ==
  /\ Period \in Nat \ {0} /\ Leads \subseteq Nat /\ {MinLead, MintMargin, Deadline, Fresh, MinTokens, Tsas, Lag, MaxTime, MaxMinted} \subseteq Nat
  /\ \A i \in DOMAIN Keys : Keys[i].role \in Hosts \cup {"entropy", "aggregator"}

VARIABLES
  seq,     \* how many pulses there are
  head,    \* what the next mint and the verifier read of the newest one
  minted,  \* the pulse written by the last step, with its predecessor
  draft,   \* the pulse being put together
  now      \* seconds

mintVars == <<seq, head, minted, draft, now>>

Genesis == [type |-> "legacy"]

NoDraft == [pc |-> "none"]
MintInit == seq = 0 /\ head = Genesis /\ minted = <<>> /\ draft = NoDraft /\ now = 0

-----------------------------------------------------------------------------
(* schema.py and keys. *)
ReleaseTime(round) == (round - 1) * Period
Released == now \div Period + 1            \* the newest round the network has
OnBoundary(t) == t % Period = 0
Roles == Hosts \cup {"entropy", "aggregator"}
KeysOf(role) == {Keys[i].key : i \in {k \in DOMAIN Keys : Keys[k].role = role}}
\* The window that counts is the first one listed for the role and key.
Window ==
  [role \in Roles |-> [key \in KeysOf(role) |->
    LET entries == {i \in DOMAIN Keys : Keys[i].role = role /\ Keys[i].key = key} IN
    Keys[CHOOSE i \in entries : \A k \in entries : i <= k]]]
KeyAllowed(role, key, s) == Window[role][key].from <= s /\ s <= Window[role][key].to

(* What a host may send: signed with any of its keys; good when signature, *)
(* binding and execution report are right; healthy when its clock is.      *)
Clocks == {"time", "witness"}
Statements(role) == [key : KeysOf(role), good : BOOLEAN, healthy : IF role \in Clocks THEN BOOLEAN ELSE {TRUE}]
CheckStatement(role, st, s) == st.good /\ KeyAllowed(role, st.key, s)
ClockHealthy(role, st) == role \in Clocks => st.healthy
\* collect: the statements the aggregator accepts of a host.
Collected(role, s) == {st \in Statements(role) : CheckStatement(role, st, s) /\ ClockHealthy(role, st)}
CollectAll(s) == [gnss : Collected("gnss", s), time : Collected("time", s), witness : Collected("witness", s)]

\* What the verifier reads in an answer and the aggregator does not look at: is the
\* commitment 64 hex digits, is E 32 bytes, does a commit or a failure disclose
\* E, does a failure name another commitment or commit pulse than it is bound
\* to?  Of a skip: did its caller give a blank reason?
Overlooked ==
  [commit |-> {"form", "leak"}, reveal |-> {"length"}, failure |-> {"names", "leak"}, skip |-> {"blank"}]

\* drand_anchor.fetch: a relay may be a round behind, and is not trusted.
Fetched == [round : {r \in {Released - 1, Released} : r > 0}, genuine : BOOLEAN]
\* drand_verified: what is used is BLS-checked; nothing else is.
Latest == {doc.round : doc \in {d \in Fetched : d.genuine}}
Anchors == {t \in now - Lag .. now : t >= 0}

-----------------------------------------------------------------------------
(* The cadence of a commit. *)
\* A delivered trigger: the instant it names, the key that signed it.
Triggers == [at : 0 .. now, key : KeysOf("time"), good : BOOLEAN]
FreshInstant(t) == OnBoundary(t) /\ now - t <= Fresh
\* check_trigger.
TriggerOK(tr, s) == tr.good /\ KeyAllowed("time", tr.key, s) /\ FreshInstant(tr.at)
\* What may be embedded: nothing, or a trigger that names the instant the commit
\* starts from, if there is one.  A trigger that is refused is only noted.
Taken(cad) ==
  {{}} \cup {{tr} : tr \in {x \in Triggers : TriggerOK(x, seq + 1) /\ \A t \in cad.instant : x.at = t}}

\* The instant from the aggregator's own wake record (--self-trigger), if it is a
\* fresh one, and from a trigger file given up front (--trigger).
Wakings == {{}} \cup {{t} : t \in {x \in 0 .. now : FreshInstant(x)}}
Woken(self) == [self |-> self, trigger |-> {}, instant |-> self]
WithTrigger(cad, taken) == [cad EXCEPT !.trigger = taken, !.instant = @ \cup {tr.at : tr \in taken}]

RoomLeft(target) == ReleaseTime(target) - now >= MintMargin
\* Mutant: the type of the head is not looked at.
AnyHead == TRUE
HeadResolved == head.type # "commit"
\* cmd_commit up to the gate: the head, the instant and the target.  drand's
\* latest round is asked for here, in the background.
StartCommit ==
  /\ draft = NoDraft /\ HeadResolved /\ seq < MaxMinted
  /\ \E lead \in {l \in Leads : l >= MinLead}, self \in Wakings, latest \in Latest :
     \E taken \in Taken(Woken(self)) :
       LET cad == WithTrigger(Woken(self), taken)
           start == IF cad.instant = {} THEN latest ELSE (CHOOSE t \in cad.instant : TRUE) \div Period + 1
           target == start + lead IN
       /\ RoomLeft(target)
       /\ draft' = [pc |-> "commit", lead |-> lead, cad |-> cad, target |-> target, latest |-> latest]
  /\ UNCHANGED <<seq, head, now>> /\ minted' = <<>>

AnchorInTime(anchor, target) == anchor < ReleaseTime(target)

\* The statements, the anchor, a trigger that came by datagram meanwhile.
GatherCommit ==
  /\ draft.pc = "commit"
  /\ \E sts \in CollectAll(seq + 1), ent \in Statements("entropy"), bound \in {draft.target, draft.target + 1},
        anchor \in Anchors, amiss \in SUBSET Overlooked.commit,
        sent \in (IF draft.cad.trigger = {} THEN Taken(draft.cad) ELSE {draft.cad.trigger}) :
       /\ CheckStatement("entropy", ent, seq + 1) /\ bound = draft.target
       /\ AnchorInTime(anchor, draft.target)
       /\ draft.latest < draft.target
       /\ draft.cad.instant # {} => draft.target - draft.latest >= MinLead
       /\ draft' = [pc |-> "sealing",
                    pulse |-> [type |-> "commit", sts |-> sts, entropy |-> ent, bound |-> bound, anchor |-> anchor,
                               target |-> draft.target, release |-> ReleaseTime(draft.target), lead |-> draft.lead,
                               round |-> draft.latest, self |-> draft.cad.self, trigger |-> sent,
                               targeting |-> IF draft.cad.instant = {} THEN "latest" ELSE "instant", amiss |-> amiss]]
  /\ UNCHANGED <<seq, head, now>> /\ minted' = <<>>

\* cmd_reveal up to its gate: the head is a commit, the deadline has not passed,
\* the round is there (handed over by the cycle, or by way of drand's latest).
StartReveal ==
  /\ draft = NoDraft /\ head.type = "commit" /\ seq < MaxMinted
  /\ now <= head.release + Deadline
  /\ \/ Released >= head.target
     \/ \E latest \in Latest : latest >= head.target /\ ReleaseTime(latest) <= head.release + Deadline
  /\ draft' = [pc |-> "reveal"]
  /\ UNCHANGED <<seq, head, now>> /\ minted' = <<>>

\* Mutant: a statement of before the release is taken.
AnchoredAnyhow(anchor, release) == TRUE
AnchoredAfter(anchor, release) == anchor >= release
\* The key the entropy host signs a resolution with is looked up at the seq of
\* the commit (check_statement(..., cseq, ...)), which is seq until the seal.
ResolvesWith(ent) == CheckStatement("entropy", ent, seq)

\* The entropy host's reveal, of an E that hashes to the commitment (no E does when
\* that is no hash), and the hosts' statements; the GNSS host is asked again
\* while its anchor trails the release.
GatherReveal ==
  /\ draft.pc = "reveal"
  /\ \E sts \in CollectAll(seq + 1), ent \in Statements("entropy"), opens \in BOOLEAN, anchor \in Anchors,
        amiss \in SUBSET Overlooked.reveal :
       /\ ResolvesWith(ent) /\ opens /\ "form" \notin head.amiss
       /\ AnchoredAfter(anchor, head.release)
       /\ draft' = [pc |-> "sealing",
                    pulse |-> [type |-> "reveal", sts |-> sts, entropy |-> ent, opens |-> opens, anchor |-> anchor,
                               round |-> head.target, release |-> head.release, of |-> seq, amiss |-> amiss]]
  /\ UNCHANGED <<seq, head, now>> /\ minted' = <<>>

PublishedReason(worded) == worded
\* cmd_fail: the abandonment signed by the entropy host, in its wording of the
\* reason; of the other hosts the statements that can be had.  The commitment is
\* copied from the commit.
GatherFail ==
  /\ draft = NoDraft /\ head.type = "commit" /\ seq < MaxMinted
  /\ \E had \in SUBSET Hosts, sts \in CollectAll(seq + 1), ent \in Statements("entropy"), worded \in {"", "as sent", "reworded"},
        amiss \in SUBSET Overlooked.failure :
       /\ ResolvesWith(ent) /\ worded # ""
       /\ draft' = [pc |-> "sealing",
                    pulse |-> [type |-> "failure", sts |-> [h \in had |-> sts[h]], entropy |-> ent, worded |-> worded,
                               reason |-> PublishedReason(worded), of |-> seq, amiss |-> amiss \cup head.amiss]]
  /\ UNCHANGED <<seq, head, now>> /\ minted' = <<>>

\* cmd_skip: no statements.
GatherSkip ==
  /\ draft = NoDraft /\ HeadResolved /\ seq < MaxMinted
  /\ \E amiss \in SUBSET Overlooked.skip :
       draft' = [pc |-> "sealing", pulse |-> [type |-> "skip", sts |-> [h \in {} |-> h], amiss |-> amiss]]
  /\ UNCHANGED <<seq, head, now>> /\ minted' = <<>>

\* What a mint and the verifier read of a predecessor.
Predecessor(p) ==
  IF p.type = "commit"
  THEN [type |-> p.type, seq |-> p.seq, target |-> p.target, release |-> p.release, anchor |-> p.anchor, round |-> p.round,
        amiss |-> p.amiss \cap {"form"}]
  ELSE [type |-> p.type, seq |-> p.seq]

\* tsa.stamp: every authority is asked and may fail to grant a token.
Stamps == 0 .. Tsas
\* The assembled pulse: the draft with what the aggregator adds.
Assembled(added, pulse) ==
  [f \in DOMAIN added \cup DOMAIN pulse |-> IF f \in DOMAIN added THEN added[f] ELSE pulse[f]]
SealKeyOK(key) == KeyAllowed("aggregator", key, seq + 1)
\* seal: the aggregator's signature; time stamps for a commit or a skip, of which
\* only a commit needs enough; then the file appears under its name.
SealPulse ==
  /\ draft.pc = "sealing"
  /\ \E key \in KeysOf("aggregator"), tokens \in (IF draft.pulse.type \in {"commit", "skip"} THEN Stamps ELSE {0}) :
       LET pulse == Assembled([outer |-> key, prev |-> seq, seq |-> seq + 1, tokens |-> tokens], draft.pulse) IN
       /\ SealKeyOK(key)
       /\ draft.pulse.type = "commit" => tokens >= MinTokens
       /\ minted' = <<pulse, head>>
       /\ head' = Predecessor(pulse)
  /\ seq' = seq + 1
  /\ draft' = NoDraft
  /\ UNCHANGED now

\* A refusal, an exception or a kill: nothing is written.
GiveUp == draft # NoDraft /\ draft' = NoDraft /\ UNCHANGED <<seq, head, now>> /\ minted' = <<>>
TimePasses == now < MaxTime /\ now' = now + 1 /\ UNCHANGED <<seq, head, draft>> /\ minted' = <<>>

MintNext ==
  \/ StartCommit \/ GatherCommit \/ StartReveal \/ GatherReveal \/ GatherFail \/ GatherSkip
  \/ SealPulse \/ GiveUp \/ TimePasses

MintSpec == MintInit /\ [][MintNext]_mintVars

-----------------------------------------------------------------------------
(* verify.py, strict: a pulse and, when it is given, its predecessor. *)
\* The schema: required statements, none for a skip beyond.
SchemaOK(p) ==
  /\ p.type \in {"commit", "reveal", "failure", "skip"}
  /\ p.type \in {"commit", "reveal"} => DOMAIN p.sts = Hosts
  /\ p.type = "skip" => DOMAIN p.sts = {}
\* Every statement under a key pinned at the pulse's own seq, the entropy host's
\* included.
PinnedAt(role, st, s) == st.good /\ KeyAllowed(role, st.key, s)
StatementsOK(p) == \A h \in DOMAIN p.sts : PinnedAt(h, p.sts[h], p.seq)
EntropyOK(p) == p.type # "skip" => PinnedAt("entropy", p.entropy, p.seq)
ClocksOK(p) == p.type \in {"commit", "reveal"} => \A h \in Clocks : p.sts[h].healthy

\* The cadence block: who named the instant, and the target that follows from it.
OnTheGrid(p, t) == OnBoundary(t) /\ p.release = t + p.lead * Period
CadenceOK(p) ==
  /\ \A tr \in p.trigger :
       /\ \A t \in p.self : tr.at = t
       /\ PinnedAt("time", tr, p.seq) /\ OnBoundary(tr.at)
       /\ p.targeting = "instant" => OnTheGrid(p, tr.at)
  /\ (p.trigger = {} /\ p.targeting = "instant") => \A t \in p.self : OnTheGrid(p, t)

CommitOK(p) ==
  /\ p.bound = p.target /\ p.release = ReleaseTime(p.target)
  /\ p.target > p.round /\ p.anchor < p.release
  /\ {"form", "leak"} \cap p.amiss = {}
  /\ CadenceOK(p)
RevealOK(p) == p.opens /\ "length" \notin p.amiss /\ p.release = ReleaseTime(p.round) /\ p.anchor >= p.release
FailureOK(p) == p.reason = p.worded /\ {"form", "names", "leak"} \cap p.amiss = {}
SkipOK(p) == "blank" \notin p.amiss

\* The state machine and the link, against the predecessor.
FollowsOK(p, q) ==
  /\ p.type \in {"commit", "skip"} => q.type \in {"legacy", "reveal", "failure", "skip"}
  /\ p.type \in {"reveal", "failure"} => q.type = "commit" /\ p.of = q.seq
  /\ p.type = "reveal" => p.round = q.target /\ q.anchor < p.release
  /\ q # Genesis => p.prev = q.seq /\ p.seq = q.seq + 1

VerifiedButEntropy(p, q) ==
  /\ SchemaOK(p) /\ StatementsOK(p) /\ ClocksOK(p)
  /\ p.type = "commit" => CommitOK(p)
  /\ p.type = "reveal" => RevealOK(p)
  /\ p.type = "failure" => FailureOK(p)
  /\ p.type = "skip" => SkipOK(p)
  /\ KeyAllowed("aggregator", p.outer, p.seq)
  /\ FollowsOK(p, q)
Verified(p, q) == VerifiedButEntropy(p, q) /\ EntropyOK(p)

-----------------------------------------------------------------------------
\* The timing profiles on a commit's cadence (timing._cadence_v2): the aggregator's
\* own instant is required, and the time host's event at the same one; the
\* latencies are not modelled.
CadenceReadings(p) ==
  IF p.self = {} THEN {"absent"}
  ELSE {IF \A t \in p.self : OnTheGrid(p, t) THEN "ok" ELSE "bad",
        IF p.trigger # {} /\ \A tr \in p.trigger : tr.at \in p.self THEN "ok" ELSE "bad"}

-----------------------------------------------------------------------------
(* Types, and what is never minted: a pulse that does not count. *)
PulseTypes == {"legacy", "commit", "reveal", "failure", "skip"}
\* Types; the newest pulse is the seq-th and its predecessor the one before it; a
\* resolution is only put together on a commit, anything else never on one.
MintTypeOK ==
  /\ seq \in 0 .. MaxMinted /\ now \in 0 .. MaxTime
  /\ head.type \in PulseTypes
  /\ draft.pc \in {"none", "commit", "reveal", "sealing"}
  /\ IF seq = 0 THEN head = Genesis ELSE head.seq = seq
  /\ minted = <<>> \/ (minted[1].seq = seq /\ draft = NoDraft)
  /\ draft.pc = "sealing" => (draft.pulse.type \in {"reveal", "failure"} <=> head.type = "commit")

\* The window of the key that the entropy host resolved with ended at the commit.
RotatedBetween(p, q) ==
  /\ p.type \in {"reveal", "failure"} /\ p.entropy.good
  /\ KeyAllowed("entropy", p.entropy.key, q.seq) /\ ~KeyAllowed("entropy", p.entropy.key, p.seq)
\* The pulse with what the aggregator does not look at put right.
PutRight(p) == [p EXCEPT !.amiss = {}]
\* Whatever the hosts and relays answer and however long they take: a pulse that
\* is written passes all of the strict verifier against its predecessor (verify.py
\* strict_main; CI and the watcher run it on every pulse, and a commit or a
\* resolution that fails it is void for them) unless, and only unless, an answer
\* has something amiss that pulse.py never looks at, or a resolution straddles a
\* rotation of the entropy key; and even then it fails nothing else.  And a commit
\* with both records of its instant satisfies the cadence rules of the client's
\* timing profiles, which compute its round anew.
MintedVerifies ==
  minted # <<>> =>
    LET p == minted[1]
        q == minted[2] IN
    /\ VerifiedButEntropy(PutRight(p), q)
    /\ Verified(p, q) <=> (p.amiss = {} /\ ~RotatedBetween(p, q))
    /\ p.type = "commit" /\ p.self # {} /\ p.trigger # {} => VerdictOf(CadenceReadings(p)) = "SATISFIED"

\* pulse.py:105, of check_statement: "a host statement must be self-consistent
\* before we build on it".  A failure that is bound to one commit pulse and names
\* another is not.
SelfConsistent == minted # <<>> => "names" \notin minted[1].amiss

\* The note in keys/KEYS.json:2: the key "must be listed for its role with the
\* pulse seq inside [valid_from_seq, valid_to_seq]", and retired keys "are never
\* valid for new pulses".
RetiredNeverSign == minted # <<>> => EntropyOK(minted[1])

\* RECOVERY.md:82: to fail back, "append a new validity window for think's key (or
\* a new key) in KEYS.json from the next seq": a window that is listed counts.
WindowsCount ==
  \A i \in DOMAIN Keys :
    LET e == Keys[i] IN e.from <= seq + 1 /\ seq + 1 <= e.to => KeyAllowed(e.role, e.key, seq + 1)
=============================================================================
