---------------------------- MODULE SelectionProofs ----------------------------
(***************************************************************************)
(* Anchors, their audit and the selection of a commit, for any number of   *)
(* pulses, any clock, grace period and lead, any number of entries of a    *)
(* pulse and of faults: without the restrictions under which the run       *)
(* explores the two modules.                                               *)
(***************************************************************************)
EXTENDS Selection, SequenceTheorems, WellFoundedInduction, TLAPS

PulseSet == [type : {"commit", "reveal", "failure"}, at : Times, rel : 0 .. MaxTime + Lead,
             sound : BOOLEAN, tokens : {"before", "late"}]
EntryMaps == [Pulses -> SUBSET Times]
JobSet == [pc : {"idle", "anchor"}, upto : Nat, at : Nat, errors : BOOLEAN, records : EntryMaps]
EntrySets == SUBSET ((0 .. MaxPulses) \X Times)
AuditSet == [pc : {"idle", "snapshot", "search", "done"}, main : Nat, live : Nat, records : EntryMaps,
             fetched : SUBSET {"anchors", "main"}, now : Times, overdue : SUBSET Nat, searched : BOOLEAN,
             lost : EntrySets, alarms : EntrySets]
WalkSet == [pc : {"idle", "walk", "halted", "selected"}, seq : 0 .. MaxPulses, now : Times,
            copy : 0 .. MaxPulses, tokens : BOOLEAN, online : BOOLEAN,
            local : SUBSET (0 .. MaxPulses), cut : SUBSET (0 .. MaxPulses)]

\* Types.
WorldTyped ==
  /\ now \in Times /\ faults \in 0 .. MaxFaults
  /\ chain \in Seq(PulseSet) /\ Len(chain) <= MaxPulses
  /\ rekor \in EntryMaps /\ hidden \subseteq Times /\ records \in EntryMaps
Typed == WorldTyped /\ job \in JobSet /\ audit \in AuditSet /\ walk \in WalkSet

\* Rekor enters what is published, at its own time; a record names an entry.
RekorTrue ==
  /\ \A s \in Pulses : \A t \in rekor[s] : t <= now /\ s <= Len(chain)
  /\ \A s \in Pulses : records[s] \subseteq rekor[s]

\* A run of the anchoring job adds to the records it found, and comes to pulses
\* without a record only.
JobTrue ==
  job.pc = "anchor" =>
    /\ job.upto <= Len(chain) /\ job.at >= 1
    /\ \A s \in Pulses : job.records[s] \subseteq rekor[s]
    /\ \A s \in Pulses : records[s] # None => job.records[s] = records[s]
    /\ job.at <= job.upto => job.records[job.at] = None

\* The audit looks at its checkout, then at the live branches if they can be fetched,
\* then at Rekor; what is published after its second look is entered after it.
RecordsLooked ==
  "anchors" \in audit.fetched =>
    \A s \in 1 .. audit.main : audit.records[s] = None /\ AgeAt(s) > Grace => s \in audit.overdue
LiveLooked ==
  "main" \in audit.fetched =>
    \A s \in Pulses : s > audit.live => \A t \in rekor[s] : t >= audit.now
AuditTrue ==
  /\ audit.pc # "done" => audit.alarms = {} /\ ~audit.searched
  /\ audit.pc = "snapshot" => audit.main = audit.live /\ audit.live <= Len(chain)
  /\ audit.pc \in {"search", "done"} =>
       /\ audit.main <= audit.live /\ audit.live <= Len(chain) /\ audit.now <= now
       /\ RecordsLooked /\ LiveLooked

\* A pulse that no evidence will ever make eligible: Rekor's clock has passed its
\* release, and every entry is late.
NeverEligible(r) ==
  LET p == chain[r] IN
  \/ p.type # "commit" \/ p.rel < After \/ ~p.sound \/ p.tokens = "late"
  \/ p.rel <= now /\ \A t \in rekor[r] : p.rel <= t
Excused == walk.local \union walk.cut
PassedRightly == TokensInCopy => \A r \in 1 .. walk.seq - 1 : r \in Excused \/ NeverEligible(r)

\* A walk stands at a candidate of its copy, and all before it are passed over for
\* good when its copy has the tokens, but those it had no whole answer of Rekor for.
WalkTrue ==
  /\ walk.pc = "walk" =>
       /\ walk.copy <= Len(chain) /\ walk.seq \in Candidates(walk.copy) /\ walk.now <= now
       /\ TokensInCopy => walk.tokens
       /\ PassedRightly
  /\ walk.pc = "selected" => Eligible(walk.seq) /\ PassedRightly

\* The inductive invariant.
SelectionInv == Typed /\ RekorTrue /\ JobTrue /\ AuditTrue /\ AuditIsExact /\ WalkTrue

-----------------------------------------------------------------------------
(* Least elements: what the three CHOOSE of the model find. *)

\* A set of natural numbers has a least element, or is empty.
LEMMA Least ==
  ASSUME NEW S \in SUBSET Nat, S # {}
  PROVE  \E x \in S : \A y \in S : x <= y
<1> DEFINE R == {ss \in Nat \X Nat : ss[1] < ss[2]}
<1>1. IsWellFoundedOn(R, Nat)
  BY NatLessThanWellFounded, Zenon DEF OpToRel
<1>2. PICK x \in S : \A y \in S : ~(<<y, x>> \in R)
  <2> HIDE DEF R
  <2> QED
    BY <1>1, WFMin, Zenon
<1>3. \A y \in S : x <= y
  <2> SUFFICES ASSUME NEW y \in S PROVE x <= y
    OBVIOUS
  <2>1. x \in Nat /\ y \in Nat
    OBVIOUS
  <2>2. ~(y < x)
    BY <1>2, <2>1
  <2> QED
    BY <2>1, <2>2
<1> QED
  BY <1>3

\* The earliest of some times is one of them.
LEMMA EarliestIsThere ==
  ASSUME NEW ts \in SUBSET Times, ts # {}
  PROVE  Earliest(ts) \in ts /\ \A t \in ts : Earliest(ts) <= t
<1>1. ts \in SUBSET Nat
  BY AnchorsAssumption DEF Times
<1> QED
  BY <1>1, Least DEF Earliest

\* The next pulse without a record has none.
LEMMA NextIsUnanchored ==
  ASSUME NEW after \in Nat, NEW upto \in Nat, NEW recs, NEW n, n = NextUnanchored(after, upto, recs)
  PROVE  n \in Nat /\ n >= 1 /\ (n <= upto => n > after /\ recs[n] = None)
<1> DEFINE M == {s \in after + 1 .. upto : recs[s] = None}
<1>1. CASE M = {}
  BY <1>1 DEF NextUnanchored
<1>2. CASE M # {}
  <2>1. M \in SUBSET Nat
    OBVIOUS
  <2>2. \E s \in M : \A r \in M : s <= r
    <3> HIDE DEF M
    <3> QED BY <1>2, <2>1, Least
  <2>3. n \in M
    BY <1>2, <2>2 DEF NextUnanchored
  <2> QED
    BY <2>3
<1> QED
  BY <1>1, <1>2

\* The next candidate is one, and there is none between.
LEMMA NextIsCandidate ==
  ASSUME NEW s \in Nat, NEW copy \in Nat, NEW n, n = NextAfter(s, copy), n # 0
  PROVE  n \in Candidates(copy) /\ n > s /\ \A d \in Candidates(copy) : d > s => n <= d
<1> DEFINE L == {c \in Candidates(copy) : c > s}
<1>1. L \in SUBSET Nat
  BY DEF Candidates
<1>2. L # {}
  BY DEF NextAfter
<1>3. \E c \in L : \A d \in L : c <= d
  <2> HIDE DEF L
  <2> QED BY <1>1, <1>2, Least
<1>4. n \in L /\ \A d \in L : n <= d
  BY <1>2, <1>3 DEF NextAfter
<1> QED
  BY <1>4

-----------------------------------------------------------------------------
(* What the steps of the world do to what others look at. *)

\* The times of a pulse.
LEMMA PulseTimes == ASSUME NEW p \in PulseSet PROVE p.rel \in Nat /\ p.at \in Nat
<1>1. p.rel \in 0 .. MaxTime + Lead /\ p.at \in 0 .. MaxTime
  BY DEF PulseSet, Times
<1> QED
  BY <1>1, AnchorsAssumption

\* The types, one by one.
LEMMA Parts ==
  ASSUME Typed
  PROVE  /\ now \in Nat /\ Len(chain) \in Nat /\ DOMAIN chain = 1 .. Len(chain) /\ Len(chain) <= MaxPulses
         /\ MaxPulses \in Nat /\ MaxTime \in Nat /\ Lead \in Nat /\ Lead >= 1 /\ Grace \in Nat /\ Grace >= 1
         /\ After \in Nat /\ DOMAIN chain \subseteq Pulses
         /\ \A s \in DOMAIN chain : /\ chain[s] \in PulseSet /\ chain[s].rel \in Nat /\ chain[s].at \in Nat
         /\ \A s \in Pulses : /\ rekor[s] \subseteq Times /\ records[s] \subseteq Times
                              /\ job.records[s] \subseteq Times /\ audit.records[s] \subseteq Times
         /\ job.at \in Nat /\ job.upto \in Nat
         /\ audit.main \in Nat /\ audit.live \in Nat /\ audit.now \in Nat
         /\ walk.seq \in Nat /\ walk.copy \in Nat /\ walk.now \in Nat
         /\ Times \subseteq Nat
<1>1. Len(chain) \in Nat /\ DOMAIN chain = 1 .. Len(chain) /\ \A s \in 1 .. Len(chain) : chain[s] \in PulseSet
  BY LenProperties, ElementOfSeq DEF Typed, WorldTyped
<1>2. /\ MaxPulses \in Nat /\ MaxTime \in Nat /\ Lead \in Nat /\ Lead >= 1 /\ Grace \in Nat /\ Grace >= 1 /\ After \in Nat
      /\ Times \subseteq Nat /\ now \in Times /\ Len(chain) <= MaxPulses
  BY AnchorsAssumption, SelectionAssumption DEF Times, Typed, WorldTyped
<1>3. \A s \in DOMAIN chain : chain[s].rel \in Nat /\ chain[s].at \in Nat
  BY <1>1, <1>2, PulseTimes
<1>4. /\ job.at \in Nat /\ job.upto \in Nat /\ audit.main \in Nat /\ audit.live \in Nat /\ audit.now \in Times
      /\ walk.seq \in 0 .. MaxPulses /\ walk.copy \in 0 .. MaxPulses /\ walk.now \in Times
  BY DEF Typed, JobSet, AuditSet, WalkSet
<1>5. rekor \in EntryMaps /\ records \in EntryMaps /\ job.records \in EntryMaps /\ audit.records \in EntryMaps
  BY DEF Typed, WorldTyped, JobSet, AuditSet
<1>6. \A s \in Pulses : /\ rekor[s] \subseteq Times /\ records[s] \subseteq Times
                        /\ job.records[s] \subseteq Times /\ audit.records[s] \subseteq Times
  BY <1>5 DEF EntryMaps
<1>7. DOMAIN chain \subseteq Pulses
  BY <1>1, <1>2 DEF Pulses
<1>8. \A s \in DOMAIN chain : chain[s] \in PulseSet /\ chain[s].rel \in Nat /\ chain[s].at \in Nat
  BY <1>1, <1>3
<1>9. audit.now \in Nat /\ walk.now \in Nat /\ walk.seq \in Nat /\ walk.copy \in Nat
  <2>1. audit.now \in Nat /\ walk.now \in Nat
    BY <1>2, <1>4
  <2>2. walk.seq \in Nat /\ walk.copy \in Nat
    BY <1>4
  <2> QED
    BY <2>1, <2>2
<1>10. now \in Nat
  BY <1>2
<1> HIDE DEF Typed
<1> QED
  BY <1>1, <1>2, <1>4, <1>6, <1>7, <1>8, <1>9, <1>10

\* Time passes, the chain and Rekor grow.
Grows ==
  /\ now <= now' /\ Len(chain) <= Len(chain')
  /\ DOMAIN chain \subseteq DOMAIN chain' /\ \A s \in DOMAIN chain : chain'[s] = chain[s]
  /\ \A s \in Pulses : /\ rekor[s] \subseteq rekor'[s]
                       /\ \A t \in rekor'[s] : t \in rekor[s] \/ (t = now /\ s <= Len(chain))

\* A pulse more on main.
LEMMA PublishGrows ==
  ASSUME Typed, NEW p \in PulseSet, Publish(p)
  PROVE  /\ chain' \in Seq(PulseSet) /\ Len(chain') <= MaxPulses
         /\ Grows
<1>1. chain \in Seq(PulseSet) /\ chain' = Append(chain, p) /\ Len(chain) < MaxPulses
  BY DEF Typed, WorldTyped, Publish
<1>2. /\ chain' \in Seq(PulseSet) /\ Len(chain') = Len(chain) + 1
      /\ \A s \in 1 .. Len(chain) : chain'[s] = chain[s]
  BY <1>1, AppendProperties
<1>3. DOMAIN chain' = 1 .. Len(chain')
  BY <1>2, LenProperties
<1>4. now' = now /\ rekor' = rekor
  BY DEF Publish
<1>5. DOMAIN chain = 1 .. Len(chain) /\ Len(chain) \in Nat /\ now \in Nat /\ MaxPulses \in Nat
  BY Parts
<1>6. Len(chain') <= MaxPulses
  BY <1>1, <1>2, <1>5
<1>7. Grows
  BY <1>2, <1>3, <1>4, <1>5 DEF Grows
<1> QED
  BY <1>2, <1>6, <1>7

\* Every publication is of a pulse, and leaves the rest alone.
Published == \E p \in PulseSet : Publish(p)
LEMMA PublishedPulses ==
  ASSUME Typed,
         \/ \E sound \in BOOLEAN, tokens \in {"before", "late"} : PublishCommit(sound, tokens)
         \/ \E sound \in BOOLEAN : PublishReveal(sound)
         \/ PublishFailure
  PROVE  Published
<1>1. now + Lead \in 0 .. MaxTime + Lead /\ now \in Times
  BY AnchorsAssumption DEF Typed, WorldTyped, Times
<1>2. ASSUME Open PROVE chain[Len(chain)].rel \in 0 .. MaxTime + Lead
  <2>1. Len(chain) \in DOMAIN chain
    BY <1>2, Parts, EmptySeq DEF Open, Typed, WorldTyped
  <2> QED
    BY <2>1, Parts DEF PulseSet
<1>3. ASSUME NEW sound \in BOOLEAN, NEW tokens \in {"before", "late"}, PublishCommit(sound, tokens) PROVE Published
  BY <1>1, <1>3 DEF PublishCommit, Published, PulseSet
<1>4. ASSUME NEW sound \in BOOLEAN, PublishReveal(sound) PROVE Published
  BY <1>1, <1>2, <1>4 DEF PublishReveal, Published, PulseSet
<1>5. ASSUME PublishFailure PROVE Published
  BY <1>1, <1>2, <1>5 DEF PublishFailure, Published, PulseSet
<1> QED
  BY <1>3, <1>4, <1>5

-----------------------------------------------------------------------------
(* What grows leaves the invariant true of those who do not move.  Each    *)
(* lemma is about one of them.                                             *)

\* Rekor is still true of the branch.
LEMMA GrowthKeepsRekor ==
  ASSUME SelectionInv, Grows, UNCHANGED records, now' \in Nat, Len(chain') \in Nat
  PROVE  RekorTrue'
<1> SUFFICES ASSUME NEW s \in Pulses
             PROVE  (\A t \in rekor'[s] : t <= now' /\ s <= Len(chain')) /\ records'[s] \subseteq rekor'[s]
  BY DEF RekorTrue, Pulses
<1>1. /\ now \in Nat /\ Len(chain) \in Nat /\ now <= now' /\ Len(chain) <= Len(chain') /\ s \in Nat
      /\ rekor[s] \subseteq Nat
  BY Parts DEF SelectionInv, Grows, Pulses
<1>2. \A t \in rekor[s] : t <= now /\ s <= Len(chain)
  BY DEF SelectionInv, RekorTrue
<1>3. \A t \in rekor'[s] : t \in rekor[s] \/ (t = now /\ s <= Len(chain))
  BY DEF Grows
<1>4. records[s] \subseteq rekor[s] /\ rekor[s] \subseteq rekor'[s]
  BY DEF SelectionInv, RekorTrue, Grows
<1> QED
  BY <1>1, <1>2, <1>3, <1>4

\* So is the run of the anchoring job.
LEMMA GrowthKeepsJob ==
  ASSUME SelectionInv, Grows, UNCHANGED <<job, records>>, Len(chain') \in Nat
  PROVE  JobTrue'
<1>1. /\ Len(chain) \in Nat /\ Len(chain) <= Len(chain') /\ job.upto \in Nat
      /\ \A s \in Pulses : rekor[s] \subseteq rekor'[s]
  BY Parts DEF SelectionInv, Grows
<1>2. Pulses' = Pulses
  BY DEF Pulses
<1> QED
  BY <1>1, <1>2 DEF SelectionInv, JobTrue, None

\* What was hidden is found; what is hidden now is young.
Hides == \A t \in hidden' : t \in hidden \/ t = now

\* So is the audit: what has changed since is later than its snapshot.
LEMMA GrowthKeepsAudit ==
  ASSUME SelectionInv, Grows, Hides, UNCHANGED audit, now' \in Nat, Len(chain') \in Nat
  PROVE  AuditTrue' /\ AuditIsExact'
<1>1. /\ now \in Nat /\ Len(chain) \in Nat /\ audit.main \in Nat /\ audit.live \in Nat /\ audit.now \in Nat
      /\ Grace \in Nat /\ Grace >= 1 /\ DOMAIN chain = 1 .. Len(chain)
  BY Parts DEF SelectionInv
<1>2. CASE audit.pc \in {"search", "done"}
  <2>1. /\ audit.main <= audit.live /\ audit.live <= Len(chain) /\ audit.now <= now
        /\ RecordsLooked /\ LiveLooked
        /\ audit.pc # "done" => audit.alarms = {} /\ ~audit.searched
    BY <1>2 DEF SelectionInv, AuditTrue
  <2>2. /\ now <= now' /\ Len(chain) <= Len(chain') /\ \A s \in DOMAIN chain : chain'[s] = chain[s]
        /\ \A s \in Pulses : \A t \in rekor'[s] : t \in rekor[s] \/ (t = now /\ s <= Len(chain))
    BY DEF Grows
  <2>3. \A s \in 1 .. audit.main : chain'[s] = chain[s]
    BY <1>1, <2>1, <2>2
  <2>4. RecordsLooked'
    BY <2>1, <2>3 DEF RecordsLooked, AgeAt, None
  <2>5. LiveLooked'
    <3> SUFFICES ASSUME "main" \in audit.fetched, NEW s \in Pulses, s > audit.live, NEW t \in rekor'[s]
                 PROVE  t >= audit.now
      BY DEF LiveLooked, Pulses
    <3>1. t \in rekor[s] => t >= audit.now
      BY <2>1 DEF LiveLooked
    <3> QED
      BY <1>1, <2>1, <2>2, <3>1
  <2>6. audit.live <= Len(chain') /\ audit.now <= now'
    BY <1>1, <2>1, <2>2
  <2>7. AuditTrue'
    BY <1>2, <2>1, <2>4, <2>5, <2>6 DEF AuditTrue
  <2>8. AuditIsExact'
    <3>1. ASSUME NEW t \in hidden', t + Grace <= audit.now, audit.searched
          PROVE  <<0, t>> \in audit.alarms
      <4>1. CASE t = now
        BY <1>1, <2>1, <3>1, <4>1
      <4>2. CASE t # now
        BY <3>1, <4>2 DEF Hides, SelectionInv, AuditIsExact
      <4> QED
        BY <4>1, <4>2
    <3>2. ASSUME NEW e \in audit.alarms \ audit.lost, InCheckout(e[1])
          PROVE  chain'[e[1]].at + Grace < audit.now /\ ("anchors" \in audit.fetched => e[1] \in audit.overdue)
      BY <2>3, <3>2 DEF InCheckout, SelectionInv, AuditIsExact
    <3>3. ASSUME NEW e \in audit.alarms \ audit.lost, ~InCheckout(e[1])
          PROVE  /\ e[2] + Grace <= audit.now
                 /\ e[1] = 0 \/ "main" \notin audit.fetched \/ e[1] > audit.main + Ahead
      BY <3>3 DEF SelectionInv, AuditIsExact
    <3>4. \A e : InCheckout(e[1])' <=> InCheckout(e[1])
      BY DEF InCheckout
    <3> QED
      BY <3>1, <3>2, <3>3, <3>4 DEF AuditIsExact, InCheckout
  <2> QED
    BY <2>7, <2>8
<1>3. CASE audit.pc \notin {"search", "done"}
  <2>1. audit.alarms = {} /\ ~audit.searched
    BY <1>3 DEF SelectionInv, AuditTrue
  <2>2. audit.pc = "snapshot" => audit.main = audit.live /\ audit.live <= Len(chain')
    BY <1>1 DEF SelectionInv, AuditTrue, Grows
  <2> QED
    BY <1>3, <2>1, <2>2 DEF AuditTrue, AuditIsExact
<1> QED
  BY <1>2, <1>3

\* Who is passed over stays so, and who is eligible.
LEMMA VerdictsLast ==
  ASSUME SelectionInv, Grows, NEW r \in DOMAIN chain, now' \in Nat
  PROVE  (NeverEligible(r) => NeverEligible(r)') /\ (Eligible(r) => Eligible(r)')
<1>1. /\ r \in Pulses /\ chain'[r] = chain[r] /\ r \in DOMAIN chain' /\ now <= now' /\ rekor[r] \subseteq rekor'[r]
      /\ \A t \in rekor'[r] : t \in rekor[r] \/ t = now
  BY Parts DEF SelectionInv, Grows
<1>2. now \in Nat /\ chain[r].rel \in Nat
  BY Parts DEF SelectionInv
<1>3. ASSUME NeverEligible(r) PROVE NeverEligible(r)'
  <2>1. CASE chain[r].rel <= now /\ \A t \in rekor[r] : chain[r].rel <= t
    <3>1. chain[r].rel <= now' /\ \A t \in rekor'[r] : chain[r].rel <= t
      BY <1>1, <1>2, <2>1
    <3> QED
      BY <1>1, <3>1 DEF NeverEligible
  <2>2. CASE chain[r].type # "commit" \/ chain[r].rel < After \/ ~chain[r].sound \/ chain[r].tokens = "late"
    BY <1>1, <2>2, Zenon DEF NeverEligible
  <2> QED
    BY <1>3, <2>1, <2>2, Zenon DEF NeverEligible
<1>4. ASSUME Eligible(r) PROVE Eligible(r)'
  BY <1>1, <1>4, Zenon DEF Eligible, Commits
<1> QED
  BY <1>3, <1>4

\* So is the walk.
LEMMA GrowthKeepsWalk ==
  ASSUME SelectionInv, Grows, UNCHANGED walk, now' \in Nat, Len(chain') \in Nat
  PROVE  WalkTrue'
<1>1. /\ now \in Nat /\ Len(chain) \in Nat /\ walk.now \in Nat /\ walk.copy \in Nat /\ walk.seq \in Nat
      /\ DOMAIN chain = 1 .. Len(chain)
  BY Parts DEF SelectionInv
<1>2. /\ now <= now' /\ Len(chain) <= Len(chain') /\ \A s \in DOMAIN chain : chain'[s] = chain[s]
      /\ DOMAIN chain \subseteq DOMAIN chain'
  BY DEF Grows
<1>3. ASSUME PassedRightly, walk.seq <= Len(chain) PROVE PassedRightly'
  <2>1. \A r \in 1 .. walk.seq - 1 : r \in DOMAIN chain
    BY <1>1, <1>3
  <2> QED
    BY <1>3, <2>1, VerdictsLast DEF PassedRightly, Excused
<1>4. CASE walk.pc = "walk"
  <2>1. walk.copy <= Len(chain) /\ walk.seq \in Candidates(walk.copy) /\ walk.now <= now /\ (TokensInCopy => walk.tokens)
        /\ PassedRightly
    BY <1>4 DEF SelectionInv, WalkTrue
  <2>2. walk.seq \in 1 .. walk.copy /\ chain[walk.seq].type = "commit" /\ chain[walk.seq].rel >= After
    BY <2>1 DEF Candidates
  <2>3. walk.seq \in DOMAIN chain /\ walk.seq <= Len(chain)
    BY <1>1, <2>1, <2>2
  <2>4. walk.seq \in Candidates(walk.copy)'
    BY <1>2, <2>2, <2>3 DEF Candidates
  <2>5. walk.copy <= Len(chain') /\ walk.now <= now'
    BY <1>1, <1>2, <2>1
  <2>6. PassedRightly'
    BY <1>3, <2>1, <2>3
  <2> QED
    BY <1>4, <2>1, <2>4, <2>5, <2>6, Zenon DEF WalkTrue
<1>5. CASE walk.pc = "selected"
  <2>1. Eligible(walk.seq) /\ PassedRightly
    BY <1>5 DEF SelectionInv, WalkTrue
  <2>2. walk.seq \in DOMAIN chain /\ walk.seq <= Len(chain)
    BY <1>1, <2>1 DEF Eligible, Commits
  <2>3. Eligible(walk.seq)'
    BY <2>1, <2>2, VerdictsLast
  <2>4. PassedRightly'
    BY <1>3, <2>1, <2>2
  <2> QED
    BY <1>5, <2>3, <2>4 DEF WalkTrue
<1>6. CASE walk.pc \notin {"walk", "selected"}
  BY <1>6 DEF WalkTrue
<1> QED
  BY <1>4, <1>5, <1>6

-----------------------------------------------------------------------------
(* The world and the anchoring job. *)

\* Where nothing happens in the world, nothing is lost.
LEMMA NothingGrows == ASSUME Typed, UNCHANGED <<now, chain, rekor>> PROVE Grows
BY Parts DEF Grows

\* Time, publications and entries of hidden pulses.
LEMMA WorldStep ==
  ASSUME SelectionInv, Grows, Hides, WorldTyped', UNCHANGED <<records, job, audit, walk>>
  PROVE  SelectionInv'
<1>1. now' \in Nat /\ Len(chain') \in Nat
  <2>1. now' \in Times /\ chain' \in Seq(PulseSet)
    BY DEF WorldTyped, Times, PulseSet
  <2> QED
    BY <2>1, Parts, LenProperties DEF SelectionInv
<1>2. Typed'
  BY DEF SelectionInv, Typed, JobSet, AuditSet, WalkSet, EntryMaps, Times, Pulses
<1> QED
  BY <1>1, <1>2, GrowthKeepsRekor, GrowthKeepsJob, GrowthKeepsAudit, GrowthKeepsWalk DEF SelectionInv

LEMMA WorldSteps ==
  ASSUME SelectionInv, Tick \/ Published \/ EnterHidden, UNCHANGED walk
  PROVE  SelectionInv'
<1>1. WorldTyped /\ now \in Nat
  BY Parts DEF SelectionInv, Typed
<1>2. CASE Tick
  <2>1. Grows /\ Hides
    BY <1>1, <1>2, Parts DEF Tick, Grows, Hides, SelectionInv
  <2>2. now' \in Times
    BY <1>1, <1>2, AnchorsAssumption DEF Tick, Times
  <2>3. WorldTyped'
    BY <1>1, <1>2, <2>2 DEF Tick, WorldTyped, Times, EntryMaps, Pulses, PulseSet
  <2> QED
    BY <1>2, <2>1, <2>3, WorldStep DEF Tick
<1>3. CASE Published
  <2>1. PICK p \in PulseSet : Publish(p)
    BY <1>3 DEF Published
  <2>2. Grows /\ chain' \in Seq(PulseSet) /\ Len(chain') <= MaxPulses
    BY <2>1, PublishGrows DEF SelectionInv
  <2>3. Hides /\ WorldTyped'
    BY <1>1, <2>1, <2>2 DEF Publish, Hides, WorldTyped, Times, EntryMaps, Pulses, PulseSet
  <2> QED
    BY <2>1, <2>2, <2>3, WorldStep DEF Publish
<1>4. CASE EnterHidden
  <2>1. Grows
    BY <1>4, NothingGrows DEF EnterHidden, SelectionInv
  <2>2. Hides /\ WorldTyped'
    BY <1>1, <1>4 DEF EnterHidden, Hides, WorldTyped, Times, EntryMaps, Pulses, PulseSet
  <2> QED
    BY <1>4, <2>1, <2>2, WorldStep DEF EnterHidden
<1> QED
  BY <1>2, <1>3, <1>4

\* A step of the job, which may enter a pulse into Rekor.
LEMMA JobStep ==
  ASSUME SelectionInv, Grows, WorldTyped', job' \in JobSet, JobTrue', RekorTrue',
         UNCHANGED <<now, chain, hidden, audit, walk>>
  PROVE  SelectionInv'
<1>1. now' \in Nat /\ Len(chain') \in Nat /\ Hides
  BY Parts DEF SelectionInv, Hides
<1>2. Typed'
  BY DEF SelectionInv, Typed, JobSet, AuditSet, WalkSet, EntryMaps, Times, Pulses
<1> QED
  BY <1>1, <1>2, GrowthKeepsAudit, GrowthKeepsWalk DEF SelectionInv

\* The job starts, or is lost.
LEMMA StartsOrEnds ==
  ASSUME SelectionInv, StartJob \/ LoseJob, UNCHANGED walk
  PROVE  SelectionInv'
<1>1. /\ WorldTyped /\ Len(chain) \in Nat /\ records \in EntryMaps
      /\ \A s \in Pulses : records[s] \subseteq rekor[s]
  BY Parts DEF SelectionInv, Typed, WorldTyped, RekorTrue
<1>2. UNCHANGED <<now, chain, rekor, hidden, records, audit>> /\ WorldTyped'
  <2>1. CASE StartJob
    BY <1>1, <2>1 DEF StartJob, world, WorldTyped, Times, EntryMaps, Pulses, PulseSet
  <2>2. CASE LoseJob
    <3>1. faults' \in 0 .. MaxFaults
      BY <1>1, <2>2, AnchorsAssumption DEF LoseJob, Fault, WorldTyped
    <3> QED
      BY <1>1, <2>2, <3>1 DEF LoseJob, WorldTyped, Times, EntryMaps, Pulses, PulseSet
  <2> QED
    BY <2>1, <2>2
<1>3. Grows /\ RekorTrue'
  BY <1>1, <1>2, NothingGrows DEF SelectionInv, RekorTrue, Pulses
<1>4. job' \in JobSet /\ JobTrue'
  <2>1. CASE StartJob
    <3> DEFINE n == NextUnanchored(0, Len(chain), records)
    <3>1. n \in Nat /\ n >= 1 /\ (n <= Len(chain) => records[n] = None)
      BY <1>1, NextIsUnanchored
    <3>2. job' = [pc |-> "anchor", upto |-> Len(chain), at |-> n, errors |-> FALSE, records |-> records]
      BY <2>1 DEF StartJob
    <3> HIDE DEF n
    <3>3. job' \in JobSet
      BY <1>1, <3>1, <3>2 DEF JobSet
    <3>4. JobTrue'
      BY <1>1, <1>2, <3>1, <3>2 DEF JobTrue, None, Pulses
    <3> QED
      BY <3>3, <3>4
  <2>2. CASE LoseJob
    <3>1. job' = NoJob
      BY <2>2 DEF LoseJob
    <3>2. NoJob \in JobSet
      BY DEF NoJob, JobSet, EntryMaps, None
    <3> QED
      BY <3>1, <3>2 DEF JobTrue, NoJob
  <2> QED
    BY <2>1, <2>2
<1> QED
  BY <1>2, <1>3, <1>4, JobStep

\* The job finishes a pulse, with a record of one of its entries or none.
LEMMA PulseDone ==
  ASSUME SelectionInv, job.pc = "anchor", job.at <= job.upto, NEW r \in SUBSET Times, NEW failed \in BOOLEAN,
         Done(r, failed), r \subseteq rekor'[job.at], \A s \in Pulses : rekor[s] \subseteq rekor'[s],
         UNCHANGED <<chain, records>>
  PROVE  job' \in JobSet /\ JobTrue' /\ job.at \in Pulses /\ job.at <= Len(chain)
<1> DEFINE n == NextUnanchored(job.at, job.upto, job.records)
<1> DEFINE recs == [job.records EXCEPT ![job.at] = r]
<1>1. /\ job \in JobSet /\ Len(chain) \in Nat /\ Len(chain) <= MaxPulses /\ MaxPulses \in Nat
      /\ job.at \in Nat /\ job.upto \in Nat
  BY Parts DEF SelectionInv, Typed
<1>2. /\ job.upto <= Len(chain) /\ job.at >= 1
      /\ \A s \in Pulses : job.records[s] \subseteq rekor[s]
      /\ \A s \in Pulses : records[s] # None => job.records[s] = records[s]
      /\ job.records[job.at] = None
  BY DEF SelectionInv, JobTrue
<1>3. job.at \in Pulses /\ job.at <= Len(chain)
  BY <1>1, <1>2 DEF Pulses
<1>4. n \in Nat /\ n >= 1 /\ (n <= job.upto => n > job.at /\ job.records[n] = None)
  <2> DEFINE at == job.at
             upto == job.upto
             rs == job.records
  <2>1. at \in Nat /\ upto \in Nat /\ n = NextUnanchored(at, upto, rs)
    BY <1>1
  <2> HIDE DEF at, upto, rs, n
  <2>2. n \in Nat /\ n >= 1 /\ (n <= upto => n > at /\ rs[n] = None)
    BY <2>1, NextIsUnanchored
  <2> QED
    BY <2>2 DEF at, upto, rs
<1>5. recs \in EntryMaps /\ \A s \in Pulses : recs[s] = IF s = job.at THEN r ELSE job.records[s]
  <2>1. job.records \in EntryMaps
    BY <1>1 DEF JobSet
  <2> QED
    BY <2>1, <1>3 DEF EntryMaps
<1>6. /\ job'.pc = "anchor" /\ job'.upto = job.upto /\ job'.at = n /\ job'.records = recs
      /\ job' \in JobSet
  <2>1. job' = [job EXCEPT !.at = n, !.records = recs, !.errors = @ \/ failed]
    BY <1>1 DEF Done, JobSet
  <2>2. (job.errors \/ failed) \in BOOLEAN
    BY <1>1 DEF JobSet
  <2> HIDE DEF n, recs
  <2>3. job' = [pc |-> "anchor", upto |-> job.upto, at |-> n, errors |-> job.errors \/ failed, records |-> recs]
    BY <1>1, <2>1 DEF JobSet
  <2> QED
    BY <1>1, <1>4, <1>5, <2>2, <2>3 DEF JobSet
<1> HIDE DEF n, recs
<1>7. \A s \in Pulses : recs[s] \subseteq rekor'[s]
  BY <1>2, <1>5
<1>8. \A s \in Pulses : records[s] # None => recs[s] = records[s]
  BY <1>2, <1>3, <1>5
<1>9. n <= job.upto => recs[n] = None
  <2>1. ASSUME n <= job.upto PROVE n \in Pulses /\ n # job.at /\ job.records[n] = None
    BY <1>1, <1>2, <1>4, <2>1 DEF Pulses
  <2> QED
    BY <2>1, <1>5
<1>10. JobTrue'
  BY <1>1, <1>2, <1>4, <1>6, <1>7, <1>8, <1>9 DEF JobTrue, None, Pulses
<1> QED
  BY <1>3, <1>6, <1>10

\* The job anchors a pulse: with an entry that is there, or a new one.
LEMMA Anchoring ==
  ASSUME SelectionInv, AnchorPulse, UNCHANGED walk
  PROVE  SelectionInv'
<1>1. /\ WorldTyped /\ now \in Nat /\ now \in Times /\ Len(chain) \in Nat
      /\ \A s \in Pulses : rekor[s] \subseteq Times /\ records[s] \subseteq rekor[s]
      /\ \A s \in Pulses : \A t \in rekor[s] : t <= now /\ s <= Len(chain)
      /\ Times \subseteq Nat
  BY Parts DEF SelectionInv, Typed, WorldTyped, RekorTrue
<1>2. job.pc = "anchor" /\ job.at <= job.upto /\ UNCHANGED <<now, chain, hidden, records, audit>>
  BY DEF AnchorPulse
<1>3. job.at \in Pulses /\ job.at <= Len(chain)
  <2>1. /\ job.at \in Nat /\ job.upto \in Nat /\ MaxPulses \in Nat /\ Len(chain) <= MaxPulses
        /\ job.upto <= Len(chain) /\ job.at >= 1
    BY <1>2, Parts DEF SelectionInv, JobTrue
  <2> QED
    BY <1>1, <1>2, <2>1 DEF Pulses
<1>4. CASE FindOurs
  <2>1. PICK t \in rekor[job.at] : Done({t}, FALSE) /\ UNCHANGED <<rekor, faults>>
    BY <1>4 DEF FindOurs
  <2>2. {t} \in SUBSET Times /\ {t} \subseteq rekor'[job.at]
    BY <1>1, <1>3, <2>1
  <2>3. \A s \in Pulses : rekor[s] \subseteq rekor'[s]
    BY <2>1
  <2>4. job' \in JobSet /\ JobTrue'
    BY <1>2, <2>1, <2>2, <2>3, PulseDone
  <2>5. Grows /\ RekorTrue'
    BY <1>1, <1>2, <2>1, NothingGrows DEF SelectionInv, RekorTrue, Pulses
  <2>6. WorldTyped'
    BY <1>1, <1>2, <2>1 DEF WorldTyped, Times, EntryMaps, Pulses, PulseSet
  <2> QED
    BY <1>2, <2>4, <2>5, <2>6, JobStep
<1>5. ASSUME NEW added \in SUBSET {now}, rekor' = [rekor EXCEPT ![job.at] = @ \cup added],
             NEW r \in SUBSET added, NEW failed \in BOOLEAN, Done(r, failed), UNCHANGED faults \/ Fault
      PROVE  SelectionInv'
  <2>1. rekor' = [rekor EXCEPT ![job.at] = rekor[job.at] \cup added]
    BY <1>5
  <2>2. /\ rekor' \in EntryMaps
        /\ \A s \in Pulses : rekor'[s] = IF s = job.at THEN rekor[s] \cup added ELSE rekor[s]
    <3>1. rekor \in EntryMaps
      BY <1>1 DEF WorldTyped
    <3>2. rekor[job.at] \cup added \in SUBSET Times
      BY <1>1, <1>3
    <3> QED
      BY <1>3, <2>1, <3>1, <3>2 DEF EntryMaps
  <2>3. \A s \in Pulses : rekor[s] \subseteq rekor'[s]
    BY <2>2
  <2>4. r \subseteq rekor'[job.at] /\ r \in SUBSET Times
    BY <1>1, <1>3, <2>2
  <2>6. job' \in JobSet /\ JobTrue'
    BY <1>2, <1>5, <2>3, <2>4, PulseDone
  <2>7. Grows
    <3>1. \A s \in Pulses : \A t \in rekor'[s] : t \in rekor[s] \/ (t = now /\ s <= Len(chain))
      BY <1>3, <2>2
    <3> QED
      BY <1>1, <1>2, <2>3, <3>1 DEF Grows
  <2>8. RekorTrue'
    BY <1>1, <1>2, <2>7, GrowthKeepsRekor DEF SelectionInv
  <2>9. WorldTyped'
    <3>2. faults' \in 0 .. MaxFaults
      BY <1>1, <1>5, AnchorsAssumption DEF Fault, WorldTyped
    <3> QED
      BY <1>1, <1>2, <2>2, <3>2 DEF WorldTyped, Times, EntryMaps, Pulses, PulseSet
  <2> QED
    BY <1>2, <2>6, <2>7, <2>8, <2>9, JobStep
<1>6. CASE Upload
  <2>1. CASE /\ rekor' = [rekor EXCEPT ![job.at] = @ \union {now}]
             /\ (Done({now}, FALSE) /\ UNCHANGED faults) \/ (Done(None, TRUE) /\ Fault)
    BY <1>5, <2>1 DEF None
  <2>2. CASE Done(None, TRUE) /\ Fault /\ UNCHANGED rekor
    <3>1. rekor' = [rekor EXCEPT ![job.at] = @ \cup {}]
      BY <1>1, <1>3, <2>2 DEF WorldTyped, EntryMaps
    <3>2. {} \in SUBSET {now} /\ {} \in SUBSET {} /\ TRUE \in BOOLEAN /\ Done({}, TRUE)
      BY <2>2 DEF None
    <3> QED
      BY <1>5, <2>2, <3>1, <3>2
  <2> QED
    BY <1>6, <2>1, <2>2 DEF Upload
<1> QED
  BY <1>4, <1>6 DEF AnchorPulse

\* What a push does to the branch: nothing is taken away.
LEMMA PushAdds ==
  ASSUME SelectionInv, PushRecords
  PROVE  \A s \in Pulses : /\ records'[s] \subseteq rekor'[s]
                           /\ records[s] # None => records'[s] = records[s]
BY DEF PushRecords, SelectionInv, JobTrue, RekorTrue

LEMMA Pushing ==
  ASSUME SelectionInv, PushRecords, UNCHANGED walk
  PROVE  SelectionInv'
<1>1. WorldTyped /\ UNCHANGED <<now, chain, rekor, hidden, audit, faults>> /\ job' = NoJob
  BY DEF PushRecords, SelectionInv, Typed
<1>2. records' \in EntryMaps
  BY <1>1 DEF PushRecords, SelectionInv, Typed, JobSet, WorldTyped
<1>3. WorldTyped'
  BY <1>1, <1>2 DEF WorldTyped, Times, EntryMaps, Pulses, PulseSet
<1>4. Grows
  BY <1>1, NothingGrows DEF SelectionInv
<1>5. RekorTrue'
  BY <1>1, PushAdds DEF SelectionInv, RekorTrue, Pulses
<1>6. NoJob \in JobSet
  BY DEF NoJob, JobSet, EntryMaps, None
<1>7. JobTrue'
  BY <1>1 DEF JobTrue, NoJob
<1> QED
  BY <1>1, <1>3, <1>4, <1>5, <1>6, <1>7, JobStep

-----------------------------------------------------------------------------
(* The audit, and the client that selects: they only look at the world. *)

\* A look changes nothing for anybody else.
LEMMA LookStep ==
  ASSUME SelectionInv, UNCHANGED <<world, job>>, audit' \in AuditSet, walk' \in WalkSet,
         AuditTrue', AuditIsExact', WalkTrue'
  PROVE  SelectionInv'
<1>1. Typed'
  BY DEF SelectionInv, Typed, WorldTyped, world, JobSet, EntryMaps, Times, Pulses, PulseSet, AuditSet, WalkSet
<1>2. RekorTrue' /\ JobTrue'
  BY DEF SelectionInv, RekorTrue, JobTrue, world, Pulses, None
<1> QED
  BY <1>1, <1>2 DEF SelectionInv

LEMMA AuditLooks ==
  ASSUME SelectionInv, StartAudit \/ Snapshot \/ EndAudit, UNCHANGED walk
  PROVE  SelectionInv'
<1>1. /\ Len(chain) \in Nat /\ now \in Times /\ now \in Nat /\ records \in EntryMaps /\ audit \in AuditSet /\ walk \in WalkSet
      /\ audit.main \in Nat
  BY Parts DEF SelectionInv, Typed, WorldTyped
<1>2. UNCHANGED <<world, job>> /\ UNCHANGED <<now, chain, rekor, hidden, records>>
  BY DEF StartAudit, Snapshot, EndAudit, world
<1>3. WalkTrue'
  BY <1>1, <1>2, NothingGrows, GrowthKeepsWalk, Parts DEF SelectionInv
<1>4. 0 \in Times /\ [s \in Pulses |-> None] \in EntryMaps
  BY AnchorsAssumption DEF Times, EntryMaps, None
<1>5. NoAudit \in AuditSet
  BY <1>4 DEF NoAudit, AuditSet, EntrySets
<1>6. CASE EndAudit
  <2>1. audit' = NoAudit
    BY <1>6 DEF EndAudit
  <2>2. AuditTrue' /\ AuditIsExact'
    BY <2>1 DEF AuditTrue, AuditIsExact, NoAudit
  <2> QED
    BY <1>1, <1>2, <1>3, <1>5, <2>1, <2>2, LookStep
<1>7. CASE StartAudit
  <2>1. audit' = [NoAudit EXCEPT !.pc = "snapshot", !.main = Len(chain), !.live = Len(chain), !.records = records]
    BY <1>7 DEF StartAudit
  <2>2. /\ audit' \in AuditSet /\ audit'.pc = "snapshot" /\ audit'.main = Len(chain) /\ audit'.live = Len(chain)
        /\ audit'.alarms = {} /\ ~audit'.searched
    BY <1>1, <1>5, <2>1 DEF AuditSet, NoAudit
  <2>3. AuditTrue' /\ AuditIsExact'
    BY <1>1, <1>2, <2>2 DEF AuditTrue, AuditIsExact
  <2> QED
    BY <1>1, <1>2, <1>3, <2>2, <2>3, LookStep
<1>8. CASE Snapshot
  <2> DEFINE od == Overdue(audit.main, records, now)
  <2>1. PICK fetched \in SUBSET {"anchors", "main"} :
          audit' = [audit EXCEPT !.pc = "search", !.now = now, !.fetched = fetched,
                                 !.records = IF "anchors" \in fetched THEN records ELSE @,
                                 !.live = IF "main" \in fetched THEN Len(chain) ELSE @,
                                 !.overdue = od]
    BY <1>8 DEF Snapshot
  <2>2. /\ audit.pc = "snapshot" /\ audit.main = audit.live /\ audit.live <= Len(chain)
        /\ audit.alarms = {} /\ ~audit.searched
    BY <1>8 DEF Snapshot, SelectionInv, AuditTrue
  <2>3. od \in SUBSET Nat
    BY <1>1 DEF Overdue
  <2>4. \A s \in 1 .. audit.main : records[s] = None /\ now - chain[s].at > Grace => s \in od
    BY DEF Overdue
  <2> HIDE DEF od
  <2>5. /\ audit'.pc = "search" /\ audit'.main = audit.main /\ audit'.now = now /\ audit'.fetched = fetched
        /\ audit'.live = (IF "main" \in fetched THEN Len(chain) ELSE audit.live)
        /\ audit'.records = (IF "anchors" \in fetched THEN records ELSE audit.records)
        /\ audit'.overdue = od /\ audit'.alarms = {} /\ ~audit'.searched
    BY <1>1, <2>1, <2>2 DEF AuditSet
  <2>6. audit' \in AuditSet
    <3>1. audit' = [audit EXCEPT !.pc = "search", !.now = now, !.fetched = fetched, !.records = audit'.records,
                                 !.live = audit'.live, !.overdue = od]
      BY <1>1, <2>1, <2>5 DEF AuditSet
    <3>2. audit'.records \in EntryMaps /\ audit'.live \in Nat
      BY <1>1, <2>5 DEF AuditSet
    <3> QED
      BY <1>1, <2>3, <3>1, <3>2 DEF AuditSet
  <2>7. RecordsLooked'
    BY <1>2, <2>4, <2>5 DEF RecordsLooked, AgeAt, None
  <2>8. LiveLooked'
    <3>1. \A s \in Pulses : s > Len(chain) => \A t \in rekor[s] : t >= now
      BY <1>1 DEF SelectionInv, RekorTrue, Pulses
    <3> QED
      BY <1>2, <2>5, <3>1 DEF LiveLooked, Pulses
  <2>9. audit'.main <= audit'.live /\ audit'.live <= Len(chain') /\ audit'.now <= now'
    BY <1>1, <1>2, <2>2, <2>5
  <2>10. AuditTrue' /\ AuditIsExact'
    BY <2>5, <2>7, <2>8, <2>9 DEF AuditTrue, AuditIsExact
  <2> QED
    BY <1>1, <1>2, <1>3, <2>6, <2>10, LookStep
<1> QED
  BY <1>6, <1>7, <1>8

\* What the audit makes of Rekor's answer.
LEMMA AuditJudges ==
  ASSUME SelectionInv, SearchRekor, UNCHANGED walk
  PROVE  SelectionInv'
<1>1. /\ Len(chain) \in Nat /\ audit \in AuditSet /\ walk \in WalkSet /\ audit.main \in Nat /\ audit.live \in Nat
      /\ audit.now \in Nat /\ Grace \in Nat /\ Grace >= 1 /\ MaxPulses \in Nat /\ Times \subseteq Nat
      /\ hidden \subseteq Times /\ Ahead \in Nat
  BY Parts, AnchorsAssumption DEF SelectionInv, Typed, WorldTyped
<1>2. UNCHANGED <<world, job>> /\ UNCHANGED <<now, chain, rekor, hidden, records>>
  BY DEF SearchRekor, world
<1>3. WalkTrue'
  BY <1>1, <1>2, NothingGrows, GrowthKeepsWalk, Parts DEF SelectionInv
<1>4. audit.pc = "search"
  BY DEF SearchRekor
<1>5. /\ audit.main <= audit.live /\ audit.live <= Len(chain) /\ audit.now <= now
      /\ RecordsLooked /\ LiveLooked /\ audit.alarms = {} /\ ~audit.searched
  BY <1>4 DEF SelectionInv, AuditTrue
<1>6. Entries \subseteq (0 .. MaxPulses) \X Times
  <2>1. Pulses \subseteq 0 .. MaxPulses /\ {0} \subseteq 0 .. MaxPulses
    BY <1>1 DEF Pulses
  <2>2. Pulses \X Times \subseteq (0 .. MaxPulses) \X Times
    BY <2>1
  <2>3. {0} \X hidden \subseteq (0 .. MaxPulses) \X Times
    BY <1>1, <2>1
  <2> QED
    BY <2>2, <2>3 DEF Entries
<1>7. ASSUME NEW e \in Entries, Unexplained(e), InCheckout(e[1])
      PROVE  chain[e[1]].at + Grace < audit.now /\ ("anchors" \in audit.fetched => e[1] \in audit.overdue)
  <2>1. e[1] \in 1 .. audit.main /\ audit.records[e[1]] = None /\ AgeAt(e[1]) > Grace
    BY <1>7 DEF Unexplained, InCheckout
  <2>2. e[1] \in DOMAIN chain
    BY <1>1, <1>5, <2>1, Parts DEF SelectionInv
  <2>3. chain[e[1]].at \in Nat
    BY <2>2, Parts DEF SelectionInv
  <2>4. chain[e[1]].at + Grace < audit.now
    BY <1>1, <2>1, <2>3 DEF AgeAt
  <2> QED
    BY <1>5, <2>1, <2>4 DEF RecordsLooked
<1>8. ASSUME NEW e \in Entries, Unexplained(e), ~InCheckout(e[1])
      PROVE  /\ e[2] + Grace <= audit.now
             /\ e[1] = 0 \/ "main" \notin audit.fetched \/ e[1] > audit.main + Ahead
  <2>1. ~OnLiveMain(e[1]) /\ ~Young(e[2])
    BY <1>8 DEF Unexplained
  <2>2. e[1] \in 0 .. MaxPulses /\ e[2] \in Nat /\ e[1] \in Nat
    <3>1. e \in (0 .. MaxPulses) \X Times
      BY <1>6
    <3>2. e[1] \in 0 .. MaxPulses /\ e[2] \in Times
      BY <3>1
    <3>3. Times \subseteq Nat
      BY <1>1
    <3>4. \A x \in 0 .. MaxPulses : x \in Nat
      OBVIOUS
    <3> QED
      BY <3>2, <3>3, <3>4, Zenon
  <2>3. e[2] + Grace <= audit.now
    BY <1>1, <2>1, <2>2 DEF Young
  <2>4. ASSUME e[1] # 0, "main" \in audit.fetched, ~(e[1] > audit.main + Ahead) PROVE FALSE
    <3>1. e[1] \in Pulses /\ e[2] \in rekor[e[1]]
      BY <2>4 DEF Entries
    <3>2. e[1] \in audit.main + 1 .. audit.main + Ahead
      BY <1>1, <1>8, <2>2, <2>4 DEF InCheckout
    <3>3. e[1] > audit.live
      BY <1>1, <2>1, <2>2, <3>2 DEF OnLiveMain
    <3>4. e[2] >= audit.now
      BY <1>5, <2>4, <3>1, <3>3 DEF LiveLooked
    <3> QED
      BY <1>1, <2>2, <2>3, <3>4
  <2> QED
    BY <2>3, <2>4
<1>9. CASE audit' = [audit EXCEPT !.pc = "done"]
  <2>1. /\ audit' \in AuditSet /\ audit'.pc = "done" /\ audit'.alarms = {} /\ ~audit'.searched
        /\ audit'.main = audit.main /\ audit'.live = audit.live /\ audit'.now = audit.now
        /\ audit'.records = audit.records /\ audit'.overdue = audit.overdue /\ audit'.fetched = audit.fetched
    BY <1>1, <1>5, <1>9 DEF AuditSet
  <2>2. AuditTrue' /\ AuditIsExact'
    BY <1>2, <1>5, <2>1 DEF AuditTrue, RecordsLooked, LiveLooked, AgeAt, None, Pulses, AuditIsExact
  <2> QED
    BY <1>1, <1>2, <1>3, <2>1, <2>2, LookStep
<1>10. ASSUME NEW lost \in SUBSET {e \in Entries : ~Recorded(e)},
              audit' = [audit EXCEPT !.pc = "done", !.searched = TRUE, !.lost = lost,
                          !.alarms = {e \in Entries : ~Recorded(e) /\ (e \in lost \/ Unexplained(e))}]
       PROVE  SelectionInv'
  <2> DEFINE A == {e \in Entries : ~Recorded(e) /\ (e \in lost \/ Unexplained(e))}
  <2>1. A \in EntrySets /\ lost \in EntrySets
    BY <1>6 DEF EntrySets
  <2>2. ASSUME NEW e \in A \ lost PROVE e \in Entries /\ Unexplained(e)
    OBVIOUS
  <2>3. ASSUME NEW t \in hidden, t + Grace <= audit.now PROVE <<0, t>> \in A
    <3>1. <<0, t>> \in Entries
      BY DEF Entries
    <3>2. t \in Nat /\ ~Young(t)
      BY <1>1, <2>3 DEF Young
    <3>3. ~InCheckout(0) /\ ~OnLiveMain(0)
      BY <1>1 DEF InCheckout, OnLiveMain
    <3>4. Unexplained(<<0, t>>) /\ ~Recorded(<<0, t>>)
      BY <3>2, <3>3 DEF Unexplained, Recorded
    <3> QED
      BY <3>1, <3>4
  <2>4. audit' = [audit EXCEPT !.pc = "done", !.searched = TRUE, !.lost = lost, !.alarms = A]
    BY <1>10
  <2> HIDE DEF A
  <2>5. /\ audit' \in AuditSet /\ audit'.pc = "done" /\ audit'.alarms = A /\ audit'.lost = lost
        /\ audit'.main = audit.main /\ audit'.live = audit.live /\ audit'.now = audit.now
        /\ audit'.records = audit.records /\ audit'.overdue = audit.overdue /\ audit'.fetched = audit.fetched
    BY <1>1, <2>1, <2>4 DEF AuditSet
  <2>6. AuditTrue'
    BY <1>2, <1>5, <2>5 DEF AuditTrue, RecordsLooked, LiveLooked, AgeAt, None, Pulses
  <2>7. ASSUME NEW e \in A \ lost, InCheckout(e[1])'
        PROVE  chain'[e[1]].at + Grace < audit'.now /\ ("anchors" \in audit'.fetched => e[1] \in audit'.overdue)
    <3>1. InCheckout(e[1])
      BY <2>5, <2>7 DEF InCheckout
    <3> QED
      BY <1>2, <1>7, <2>2, <2>5, <2>7, <3>1
  <2>8. ASSUME NEW e \in A \ lost, ~InCheckout(e[1])'
        PROVE  /\ e[2] + Grace <= audit'.now
               /\ e[1] = 0 \/ "main" \notin audit'.fetched \/ e[1] > audit'.main + Ahead
    <3>1. ~InCheckout(e[1])
      BY <2>5, <2>8 DEF InCheckout
    <3> QED
      BY <1>8, <2>2, <2>5, <2>8, <3>1
  <2>9. AuditIsExact'
    BY <1>2, <2>3, <2>5, <2>7, <2>8 DEF AuditIsExact
  <2> QED
    BY <1>1, <1>2, <1>3, <2>5, <2>6, <2>9, LookStep
<1> QED
  BY <1>9, <1>10 DEF SearchRekor

\* Between two candidates there is nothing that could become eligible.
LEMMA NothingBetween ==
  ASSUME Typed, NEW s \in Nat, NEW copy \in Nat, copy <= Len(chain), NextAfter(s, copy) # 0,
         NEW r \in Nat, r > s, r < NextAfter(s, copy)
  PROVE  NeverEligible(r)
<1> DEFINE n == NextAfter(s, copy)
<1>1. n \in Candidates(copy) /\ \A d \in Candidates(copy) : d > s => n <= d
  BY NextIsCandidate
<1>2. n \in 1 .. copy /\ r < n
  BY <1>1 DEF Candidates
<1> HIDE DEF n
<1>3. r \in 1 .. copy /\ r \notin Candidates(copy)
  BY <1>1, <1>2
<1>4. chain[r].type # "commit" \/ ~(chain[r].rel >= After)
  BY <1>3 DEF Candidates
<1>5. CASE chain[r].type # "commit"
  BY <1>5 DEF NeverEligible
<1>6. CASE chain[r].type = "commit"
  <2>1. ~(chain[r].rel >= After)
    BY <1>4, <1>6
  <2>2. r \in DOMAIN chain
    BY <1>3, Parts
  <2>3. chain[r].rel \in Nat /\ After \in Nat
    BY <2>2, Parts
  <2> QED
    BY <2>1, <2>3 DEF NeverEligible
<1> QED
  BY <1>5, <1>6

\* The client begins at the first candidate of its copy.
LEMMA Beginning ==
  ASSUME SelectionInv, Begin
  PROVE  SelectionInv'
<1>1. /\ Len(chain) \in Nat /\ Len(chain) <= MaxPulses /\ MaxPulses \in Nat /\ now \in Nat /\ now \in Times
      /\ audit \in AuditSet
  BY Parts DEF SelectionInv, Typed, WorldTyped
<1>2. UNCHANGED <<world, job, audit>> /\ UNCHANGED <<now, chain, rekor, hidden, records>>
  BY DEF Begin, anchorVars, world
<1>3. AuditTrue' /\ AuditIsExact'
  BY <1>1, <1>2, NothingGrows, GrowthKeepsAudit, Parts DEF SelectionInv, Hides
<1>4. PICK copy \in 0 .. Len(chain), online \in BOOLEAN, tokens \in {TRUE, TokensInCopy} :
        /\ NextAfter(0, copy) # 0
        /\ walk' = [Idle EXCEPT !.pc = "walk", !.seq = NextAfter(0, copy), !.now = now, !.copy = copy,
                                !.tokens = tokens, !.online = online]
  BY DEF Begin
<1> DEFINE n == NextAfter(0, copy)
<1>5. n \in Candidates(copy)
  BY <1>4, NextIsCandidate
<1>6. \A r \in 1 .. n - 1 : NeverEligible(r)
  <2> SUFFICES ASSUME NEW r \in 1 .. n - 1 PROVE NeverEligible(r)
    OBVIOUS
  <2>1. n \in 1 .. copy
    BY <1>5 DEF Candidates
  <2>2. r \in Nat /\ r > 0 /\ r < n
    <3> HIDE DEF n
    <3> QED BY <1>1, <2>1
  <2> QED
    BY <1>1, <1>4, <2>2, NothingBetween DEF SelectionInv
<1> HIDE DEF n
<1>7. n \in 0 .. MaxPulses /\ copy \in 0 .. MaxPulses /\ copy <= Len(chain)
  BY <1>1, <1>5 DEF Candidates
<1>8. walk' = [pc |-> "walk", seq |-> n, now |-> now, copy |-> copy, tokens |-> tokens, online |-> online,
                      local |-> {}, cut |-> {}]
  BY <1>4 DEF Idle, n
<1>9. tokens \in BOOLEAN /\ (TokensInCopy => tokens)
  BY SelectionAssumption
<1>10. walk' \in WalkSet
  BY <1>1, <1>7, <1>8, <1>9 DEF WalkSet
<1>11. n \in Candidates(copy)'
  BY <1>2, <1>5 DEF Candidates
<1>12. PassedRightly'
  BY <1>2, <1>6, <1>8 DEF PassedRightly, NeverEligible
<1>13. WalkTrue'
  BY <1>1, <1>2, <1>7, <1>8, <1>9, <1>11, <1>12 DEF WalkTrue
<1> QED
  BY <1>1, <1>2, <1>3, <1>10, <1>13, LookStep

\* What the evidence says, says the world, when Rekor returns all it has.
LEMMA EvidenceIsTrue ==
  ASSUME SelectionInv, walk.pc = "walk", NEW reached \in BOOLEAN, NEW view \in Views, NEW seen \in SUBSET rekor[walk.seq]
  PROVE  /\ Evidence(Here, reached, seen, view) = "eligible" => \E t \in rekor[walk.seq] : t < Here.rel
         /\ /\ Evidence(Here, reached, seen, view) = "ineligible"
            /\ walk.online /\ reached /\ seen = rekor[walk.seq]
            => NeverEligible(walk.seq)
<1>1. /\ walk.seq \in Pulses /\ walk.seq \in DOMAIN chain /\ walk.now <= now /\ walk.now \in Nat /\ now \in Nat
      /\ Here.rel \in Nat /\ Grace \in Nat /\ rekor[walk.seq] \in SUBSET Times /\ records[walk.seq] \in SUBSET Times
      /\ Times \subseteq Nat
  <2>1. walk.seq \in 1 .. walk.copy /\ walk.copy <= Len(chain) /\ walk.now <= now
    BY DEF SelectionInv, WalkTrue, Candidates
  <2>2. walk.seq \in DOMAIN chain
    BY <2>1, Parts DEF SelectionInv
  <2> QED
    BY <2>1, <2>2, Parts DEF SelectionInv, Here
<1>2. \A t \in rekor[walk.seq] : t <= now /\ t \in Nat
  BY <1>1 DEF SelectionInv, RekorTrue
<1>3. CASE walk.online /\ reached
  <2>1. Evidence(Here, reached, seen, view) = AskRekor(Here, seen)
    BY <1>3 DEF Evidence
  <2>2. CASE seen # {}
    <3>1. Earliest(seen) \in seen /\ \A t \in seen : Earliest(seen) <= t
      <4>1. seen \in SUBSET Times
        BY <1>1
      <4> QED
        BY <2>2, <4>1, EarliestIsThere
    <3>2. AskRekor(Here, seen) = IF Earliest(seen) < Here.rel THEN "eligible" ELSE "ineligible"
      BY <2>2 DEF AskRekor
    <3>3. CASE Earliest(seen) < Here.rel
      BY <2>1, <3>1, <3>2, <3>3
    <3>4. CASE ~(Earliest(seen) < Here.rel)
      <4>1. ASSUME seen = rekor[walk.seq] PROVE Here.rel <= now /\ \A t \in rekor[walk.seq] : Here.rel <= t
        BY <1>1, <1>2, <3>1, <3>4, <4>1
      <4>2. seen = rekor[walk.seq] => NeverEligible(walk.seq)
        BY <4>1 DEF NeverEligible, Here
      <4> QED
        BY <2>1, <3>2, <3>4, <4>2
    <3> QED
      BY <3>3, <3>4
  <2>3. CASE seen = {}
    <3>1. AskRekor(Here, seen) = IF walk.now < Here.rel + Grace THEN "wait" ELSE "ineligible"
      BY <2>3 DEF AskRekor
    <3>2. CASE ~(walk.now < Here.rel + Grace)
      <4>1. Here.rel <= now
        BY <1>1, <3>2
      <4>2. seen = rekor[walk.seq] => NeverEligible(walk.seq)
        BY <2>3, <4>1 DEF NeverEligible, Here
      <4> QED
        BY <2>1, <3>1, <3>2, <4>2
    <3> QED
      BY <2>1, <3>1, <3>2
  <2> QED
    BY <2>2, <2>3
<1>4. CASE ~(walk.online /\ reached)
  <2>1. Evidence(Here, reached, seen, view) = AskRecord(Here, view)
    BY <1>4 DEF Evidence
  <2>2. CASE AskRecord(Here, view) = "eligible"
    <3>1. Record(walk.seq, view) # None /\ Record(walk.seq, view) = records[walk.seq]
      BY <2>2 DEF AskRecord, Record
    <3>2. Earliest(records[walk.seq]) < Here.rel
      BY <2>2, <3>1 DEF AskRecord
    <3>3. Earliest(records[walk.seq]) \in records[walk.seq]
      BY <1>1, <3>1, EarliestIsThere DEF None
    <3>4. records[walk.seq] \subseteq rekor[walk.seq]
      BY <1>1 DEF SelectionInv, RekorTrue
    <3> QED
      BY <1>4, <3>2, <3>3, <3>4
  <2> QED
    BY <1>4, <2>1, <2>2
<1> QED
  BY <1>3, <1>4

\* A step of the walk: it goes on, ends with nothing, or ends with a commit.
LEMMA Advancing ==
  ASSUME SelectionInv, walk.pc = "walk", NEW local \in SUBSET (0 .. MaxPulses), NEW cut \in SUBSET (0 .. MaxPulses),
         Advance(local, cut), UNCHANGED anchorVars, Excused \subseteq local \union cut,
         TokensInCopy => walk.seq \in local \union cut \/ NeverEligible(walk.seq)
  PROVE  walk' \in WalkSet /\ WalkTrue'
<1> DEFINE n == NextAfter(walk.seq, walk.copy)
<1>1. /\ walk \in WalkSet /\ walk.copy \in Nat /\ walk.seq \in Nat /\ walk.copy <= Len(chain) /\ Len(chain) \in Nat
      /\ Len(chain) <= MaxPulses /\ MaxPulses \in Nat /\ walk.now <= now /\ (TokensInCopy => walk.tokens) /\ PassedRightly
  BY Parts DEF SelectionInv, Typed, WalkTrue
<1>2. UNCHANGED <<now, chain, rekor>>
  BY DEF anchorVars, world
<1>3. CASE n = 0
  <2>1. walk' = [Idle EXCEPT !.pc = "halted"]
    BY <1>3 DEF Advance, Halt
  <2>2. 0 \in Times /\ 0 \in 0 .. MaxPulses
    BY <1>1, AnchorsAssumption DEF Times
  <2> QED
    BY <2>1, <2>2 DEF Idle, WalkSet, WalkTrue
<1>4. CASE n # 0
  <2>1. walk' = [walk EXCEPT !.seq = n, !.local = local, !.cut = cut]
    BY <1>4 DEF Advance
  <2>2. n \in Candidates(walk.copy) /\ n > walk.seq
    BY <1>1, <1>4, NextIsCandidate
  <2>3. \A r \in Nat : r > walk.seq /\ r < n => NeverEligible(r)
    BY <1>1, <1>4, NothingBetween DEF SelectionInv
  <2> HIDE DEF n
  <2>4. n \in 1 .. walk.copy /\ n \in 0 .. MaxPulses
    BY <1>1, <2>2 DEF Candidates
  <2>5. /\ walk' \in WalkSet /\ walk'.pc = "walk" /\ walk'.seq = n /\ walk'.copy = walk.copy /\ walk'.now = walk.now
        /\ walk'.local = local /\ walk'.cut = cut /\ walk'.tokens = walk.tokens
    BY <1>1, <2>1, <2>4 DEF WalkSet
  <2>7. ASSUME TokensInCopy PROVE \A r \in 1 .. n - 1 : r \in local \union cut \/ NeverEligible(r)
    <3> SUFFICES ASSUME NEW r \in 1 .. n - 1 PROVE r \in local \union cut \/ NeverEligible(r)
      OBVIOUS
    <3>1. \A q \in 1 .. walk.seq - 1 : q \in local \union cut \/ NeverEligible(q)
      BY <1>1, <2>7 DEF PassedRightly
    <3>2. r \in Nat /\ r < n /\ r >= 1
      BY <1>1, <2>4
    <3>3. CASE r < walk.seq
      <4>1. r \in 1 .. walk.seq - 1
        BY <1>1, <3>2, <3>3
      <4> QED
        BY <3>1, <4>1
    <3>4. CASE r = walk.seq
      BY <2>7, <3>4
    <3>5. CASE r > walk.seq
      BY <2>3, <3>2, <3>5
    <3> QED
      BY <1>1, <3>2, <3>3, <3>4, <3>5
  <2>8. PassedRightly'
    BY <1>2, <2>5, <2>7 DEF PassedRightly, Excused, NeverEligible
  <2>9. walk'.copy <= Len(chain') /\ walk'.now <= now' /\ (TokensInCopy => walk'.tokens)
    BY <1>1, <1>2, <2>5
  <2>10. (walk.seq \in Candidates(walk.copy))'
    <3>1. walk.seq' = n /\ walk.copy' = walk.copy
      BY <2>5
    <3> QED
      BY <1>2, <2>2, <3>1 DEF Candidates
  <2> QED
    BY <2>5, <2>8, <2>9, <2>10 DEF WalkTrue
<1> QED
  BY <1>3, <1>4

LEMMA Halting ==
  ASSUME SelectionInv, Halt
  PROVE  walk' \in WalkSet /\ WalkTrue'
<1>1. walk' = [Idle EXCEPT !.pc = "halted"]
  BY DEF Halt
<1>2. 0 \in Times /\ 0 \in 0 .. MaxPulses
  BY AnchorsAssumption DEF Times
<1> QED
  BY <1>1, <1>2 DEF Idle, WalkSet, WalkTrue

LEMMA Finishing ==
  ASSUME SelectionInv, walk.pc = "walk", NEW label, Finish(label), UNCHANGED anchorVars, Eligible(walk.seq)
  PROVE  walk' \in WalkSet /\ WalkTrue'
<1>1. CASE Halt
  BY <1>1, Halting
<1>2. CASE ~Halt
  <2>1. walk' = [Idle EXCEPT !.pc = "selected", !.seq = walk.seq, !.local = walk.local, !.cut = walk.cut]
    BY <1>2 DEF Finish
  <2>2. /\ walk.seq \in 0 .. MaxPulses /\ PassedRightly /\ 0 \in Times /\ 0 \in 0 .. MaxPulses
        /\ walk.local \in SUBSET (0 .. MaxPulses) /\ walk.cut \in SUBSET (0 .. MaxPulses)
    BY AnchorsAssumption DEF SelectionInv, Typed, WalkSet, WalkTrue, Times
  <2>3. /\ walk' \in WalkSet /\ walk'.pc = "selected" /\ walk'.seq = walk.seq
        /\ walk'.local = walk.local /\ walk'.cut = walk.cut
    BY <2>1, <2>2 DEF Idle, WalkSet
  <2>4. UNCHANGED <<now, chain, rekor>>
    BY DEF anchorVars, world
  <2>5. Eligible(walk.seq)'
    <3>1. walk.seq' = walk.seq
      BY <2>3
    <3> QED
      BY <2>4, <3>1 DEF Eligible, Commits
  <2>6. PassedRightly'
    BY <2>2, <2>3, <2>4 DEF PassedRightly, Excused, NeverEligible
  <2> QED
    BY <2>3, <2>5, <2>6 DEF WalkTrue
<1> QED
  BY <1>1, <1>2

\* A candidate is judged.
LEMMA Judging ==
  ASSUME SelectionInv, Judge
  PROVE  SelectionInv'
<1>1. walk.pc = "walk" /\ UNCHANGED anchorVars
  BY DEF Judge
<1>2. PICK reached \in {FALSE, walk.online}, view \in Views :
        \E seen \in SUBSET rekor[walk.seq] : Candidate(reached, seen, view)
  BY DEF Judge
<1>3. PICK seen \in SUBSET rekor[walk.seq] : Candidate(reached, seen, view)
  BY <1>2
<1>4. /\ reached \in BOOLEAN /\ walk.online \in BOOLEAN /\ walk.tokens \in BOOLEAN /\ walk.seq \in 0 .. MaxPulses
      /\ walk.local \in SUBSET (0 .. MaxPulses) /\ walk.cut \in SUBSET (0 .. MaxPulses)
  BY DEF SelectionInv, Typed, WalkSet
<1> DEFINE asked == walk.online /\ reached
           local == walk.local \union {s \in {walk.seq} : ~asked}
           cut == walk.cut \union {s \in {walk.seq} : asked /\ seen # rekor[s]}
           verdict == Evidence(Here, reached, seen, view)
<1>5. /\ walk.seq \in DOMAIN chain /\ Here.type = "commit" /\ Here.rel >= After /\ Here.tokens \in {"before", "late"}
      /\ (TokensInCopy => walk.tokens)
  <2>1. /\ walk.seq \in 1 .. walk.copy /\ walk.copy <= Len(chain) /\ Here.type = "commit" /\ Here.rel >= After
        /\ (TokensInCopy => walk.tokens)
    BY <1>1 DEF SelectionInv, WalkTrue, Candidates, Here
  <2>2. walk.seq \in DOMAIN chain
    BY <2>1, Parts DEF SelectionInv
  <2>3. Here \in PulseSet
    BY <2>2, Parts DEF SelectionInv, Here
  <2> QED
    BY <2>1, <2>2, <2>3 DEF PulseSet
<1>6. /\ verdict = "eligible" => \E t \in rekor[walk.seq] : t < Here.rel
      /\ verdict = "ineligible" /\ asked /\ seen = rekor[walk.seq] => NeverEligible(walk.seq)
  BY <1>1, <1>4, EvidenceIsTrue
<1>7. \/ (~Verified(Here) \/ Here.tokens = "late") /\ Advance(walk.local, walk.cut)
      \/ verdict = "ineligible" /\ Advance(local, cut)
      \/ Verified(Here) /\ Here.tokens # "late" /\ verdict = "eligible" /\ Finish(Label(view))
      \/ Halt
  BY <1>3 DEF Candidate
<1>8. walk' \in WalkSet /\ WalkTrue'
  <2>1. CASE (~Verified(Here) \/ Here.tokens = "late") /\ Advance(walk.local, walk.cut)
    <3>1. TokensInCopy => NeverEligible(walk.seq)
      BY <1>5, <2>1, Zenon DEF Verified, TokensVerify, NeverEligible, Here
    <3> QED
      BY <1>1, <1>4, <2>1, <3>1, Advancing DEF Excused
  <2>2. CASE verdict = "ineligible" /\ Advance(local, cut)
    <3>1. walk.seq \in local \union cut \/ NeverEligible(walk.seq)
      BY <1>6, <2>2
    <3>2. local \in SUBSET (0 .. MaxPulses) /\ cut \in SUBSET (0 .. MaxPulses) /\ Excused \subseteq local \union cut
      BY <1>4 DEF Excused
    <3> HIDE DEF verdict, local, cut
    <3> QED
      BY <1>1, <2>2, <3>1, <3>2, Advancing
  <2>3. CASE Verified(Here) /\ Here.tokens # "late" /\ verdict = "eligible" /\ Finish(Label(view))
    <3> HIDE DEF verdict
    <3>1. Here.tokens = "before"
      BY <1>5, <2>3
    <3>2. \E t \in rekor[walk.seq] : t < Here.rel
      BY <1>6, <2>3
    <3>3. Eligible(walk.seq)
      BY <1>5, <2>3, <3>1, <3>2, Zenon DEF Eligible, Commits, Verified, Here
    <3> QED
      BY <1>1, <2>3, <3>3, Finishing
  <2>4. CASE Halt
    BY <2>4, Halting
  <2> QED
    BY <1>7, <2>1, <2>2, <2>3, <2>4
<1>9. UNCHANGED <<world, job, audit>> /\ UNCHANGED <<now, chain, rekor, hidden>>
  BY <1>1 DEF anchorVars, world
<1>10. AuditTrue' /\ AuditIsExact'
  BY <1>9, NothingGrows, GrowthKeepsAudit, Parts DEF SelectionInv, Hides
<1> QED
  BY <1>8, <1>9, <1>10, LookStep DEF SelectionInv, Typed

-----------------------------------------------------------------------------
(* The invariant. *)

\* Initially nothing is published.
LEMMA InitInv == Init => SelectionInv
<1> SUFFICES ASSUME Init PROVE SelectionInv
  OBVIOUS
<1>1. /\ now = 0 /\ chain = <<>> /\ faults = 0 /\ rekor = [s \in Pulses |-> {}] /\ hidden = {}
      /\ records = [s \in Pulses |-> None] /\ job = NoJob /\ audit = NoAudit /\ walk = Idle
  BY DEF Init, AnchorsInit
<1>2. 0 \in Times /\ 0 \in 0 .. MaxPulses /\ 0 \in 0 .. MaxFaults /\ MaxPulses \in Nat
  BY AnchorsAssumption DEF Times
<1>3. [s \in Pulses |-> None] \in EntryMaps
  BY DEF EntryMaps, None
<1>4. WorldTyped
  BY <1>1, <1>2, <1>3, EmptySeq DEF WorldTyped, EntryMaps, None
<1>5. job \in JobSet /\ audit \in AuditSet /\ walk \in WalkSet
  BY <1>1, <1>2, <1>3 DEF NoJob, JobSet, NoAudit, AuditSet, EntrySets, Idle, WalkSet
<1>6. RekorTrue /\ JobTrue /\ AuditTrue /\ AuditIsExact /\ WalkTrue
  BY <1>1 DEF RekorTrue, None, JobTrue, NoJob, AuditTrue, AuditIsExact, NoAudit, WalkTrue, Idle
<1> QED
  BY <1>4, <1>5, <1>6 DEF SelectionInv, Typed

\* Every step keeps it.
LEMMA NextInv == SelectionInv /\ [Next]_vars => SelectionInv'
<1> SUFFICES ASSUME SelectionInv, [Next]_vars PROVE SelectionInv'
  OBVIOUS
<1>1. CASE UNCHANGED vars
  <2>1. UNCHANGED <<now, chain, rekor, hidden, records, faults, job, audit, walk>>
    BY <1>1 DEF vars, anchorVars, world
  <2>2. Grows /\ Hides /\ WorldTyped'
    BY <2>1, NothingGrows DEF SelectionInv, Typed, Hides, WorldTyped, Times, EntryMaps, Pulses, PulseSet
  <2> QED
    BY <2>1, <2>2, WorldStep
<1>2. CASE AnchorsNext /\ UNCHANGED walk
  <2>1. CASE Tick \/ EnterHidden
    BY <1>2, <2>1, WorldSteps
  <2>2. CASE \/ \E sound \in BOOLEAN, tokens \in {"before", "late"} : PublishCommit(sound, tokens)
             \/ \E sound \in BOOLEAN : PublishReveal(sound)
             \/ PublishFailure
    <3>1. Published
      BY <2>2, PublishedPulses DEF SelectionInv
    <3> QED
      BY <1>2, <3>1, WorldSteps
  <2>3. CASE StartJob \/ LoseJob
    BY <1>2, <2>3, StartsOrEnds
  <2>4. CASE AnchorPulse
    BY <1>2, <2>4, Anchoring
  <2>5. CASE PushRecords
    BY <1>2, <2>5, Pushing
  <2>6. CASE StartAudit \/ Snapshot \/ EndAudit
    BY <1>2, <2>6, AuditLooks
  <2>7. CASE SearchRekor
    BY <1>2, <2>7, AuditJudges
  <2> QED
    BY <1>2, <2>1, <2>2, <2>3, <2>4, <2>5, <2>6, <2>7 DEF AnchorsNext
<1>3. CASE Begin
  BY <1>3, Beginning
<1>4. CASE Judge
  BY <1>4, Judging
<1>5. CASE Unauthenticated
  <2>1. walk' \in WalkSet /\ WalkTrue'
    BY <1>5, Halting DEF Unauthenticated
  <2>2. UNCHANGED <<world, job, audit>> /\ UNCHANGED <<now, chain, rekor, hidden>>
    BY <1>5 DEF Unauthenticated, anchorVars, world
  <2>3. AuditTrue' /\ AuditIsExact'
    BY <2>2, NothingGrows, GrowthKeepsAudit, Parts DEF SelectionInv, Hides
  <2> QED
    BY <2>1, <2>2, <2>3, LookStep DEF SelectionInv, Typed
<1> QED
  BY <1>1, <1>2, <1>3, <1>4, <1>5 DEF Next

\* The inductive invariant.
THEOREM SelectionAlways == Spec => []SelectionInv
<1> QED
  BY InitInv, NextInv, PTL DEF Spec

-----------------------------------------------------------------------------
(* What follows. *)

\* Types of the published world, the job, the audit and the client: a walk ends in
\* "selected" or "halted" and is never left waiting (commitbound.py).
THEOREM SelectionTypes == Spec => []SelectionTypeOK
<1>1. SelectionInv => SelectionTypeOK
  <2> SUFFICES ASSUME SelectionInv PROVE SelectionTypeOK
    OBVIOUS
  <2>1. AnchorsTypeOK
    BY DEF SelectionInv, Typed, WorldTyped, PulseSet, EntryMaps, JobSet, AuditSet, AnchorsTypeOK
  <2> QED
    BY <2>1 DEF SelectionInv, Typed, WalkSet, SelectionTypeOK
<1> QED
  BY <1>1, SelectionAlways, PTL

\* A record on the branch `anchors` names an entry of Rekor and is never replaced
\* by another one, whatever runs of the job were lost (anchor_pulses.py).
THEOREM RecordsStayFinal == Spec => RecordsFinal
<1>1. SelectionInv /\ [Next]_vars => [\A s \in Pulses : /\ records'[s] \subseteq rekor'[s]
                                                      /\ records[s] # None => records'[s] = records[s]]_records
  <2> SUFFICES ASSUME SelectionInv, [Next]_vars, records' # records
               PROVE  \A s \in Pulses : /\ records'[s] \subseteq rekor'[s]
                                        /\ records[s] # None => records'[s] = records[s]
    OBVIOUS
  <2>1. PushRecords
    BY DEF Next, AnchorsNext, vars, anchorVars, world, Tick, PublishCommit, PublishReveal, PublishFailure, Publish,
           EnterHidden, StartJob, AnchorPulse, LoseJob, StartAudit, Snapshot, SearchRekor, EndAudit,
           Begin, Judge, Unauthenticated
  <2> QED
    BY <2>1, PushAdds
<1> QED
  BY <1>1, SelectionAlways, PTL DEF Spec, RecordsFinal

\* What the audit reports of an entry it was given is of something older than the
\* grace period, and of no pulse whose record or publication it could have found;
\* and a search that was made misses no branch that old (verify_anchors.py).
THEOREM AuditStaysExact == Spec => []AuditIsExact
<1>1. SelectionInv => AuditIsExact
  BY DEF SelectionInv
<1> QED
  BY <1>1, SelectionAlways, PTL

\* A client whose copy of the log has the tokens selects an eligible commit, and
\* passes over an eligible one only on a local record, or where Rekor lost an
\* entry of it (commitbound.select_commit).
THEOREM FirstStaysSelected == TokensInCopy => (Spec => []FirstEligible)
<1>1. ASSUME TokensInCopy, SelectionInv PROVE FirstEligible
  <2> SUFFICES ASSUME walk.pc = "selected"
               PROVE  Eligible(walk.seq) /\ PassedOver \subseteq walk.local \union walk.cut
    BY DEF FirstEligible
  <2>1. Eligible(walk.seq) /\ \A r \in 1 .. walk.seq - 1 : r \in Excused \/ NeverEligible(r)
    BY <1>1 DEF SelectionInv, WalkTrue, PassedRightly
  <2>2. ASSUME NEW r, NeverEligible(r), r \in DOMAIN chain PROVE ~Eligible(r)
    <3>1. \A t \in rekor[r] : t \in Nat
      BY <1>1, <2>2, Parts DEF SelectionInv
    <3>2. chain[r].rel \in Nat /\ After \in Nat
      BY <1>1, <2>2, Parts DEF SelectionInv
    <3>3. CASE chain[r].type # "commit" \/ ~chain[r].sound \/ chain[r].tokens = "late"
      BY <3>3, Zenon DEF Eligible, Commits
    <3>4. CASE chain[r].rel < After
      BY <3>2, <3>4 DEF Eligible
    <3>5. CASE \A t \in rekor[r] : chain[r].rel <= t
      BY <3>1, <3>2, <3>5 DEF Eligible
    <3> QED
      BY <2>2, <3>3, <3>4, <3>5, Zenon DEF NeverEligible
  <2>3. \A r \in 1 .. walk.seq - 1 : Eligible(r) => r \in Excused
    BY <2>1, <2>2 DEF Eligible, Commits
  <2> QED
    BY <2>1, <2>3 DEF PassedOver, Excused
<1>2. ASSUME TokensInCopy PROVE SelectionInv => FirstEligible
  BY <1>1, <1>2
<1>3. ASSUME TokensInCopy PROVE Spec => []FirstEligible
  BY <1>2, <1>3, SelectionAlways, PTL
<1> QED
  BY <1>3
===============================================================================
