-------------------------- MODULE BeaconCycleProofs --------------------------
(***************************************************************************)
(* What the aggregator and the entropy host guarantee together, for every  *)
(* length of the chain, every number of faults and every interleaving.     *)
(*                                                                         *)
(* The argument has two halves.  Every step of BeaconCycle is one of a few *)
(* kinds of step of the world (WorldStep): nothing is sealed and nothing   *)
(* is asked of the host, a pulse is sealed, or the host serves one request *)
(* about one of three numbers.  The invariants about the chain and the     *)
(* host (World) are preserved by the kinds; the invariants about where the *)
(* cycle is (Control) are what puts each action into its kind.  From both  *)
(* follows that the beacon implements BeaconContract.                      *)
(*                                                                         *)
(* The entropy host comes first, on its own: what it guarantees for every  *)
(* set of pulse numbers and hashes, every sequence of requests and every   *)
(* power loss.                                                             *)
(*                                                                         *)
(* What the pulses hold (Minting) comes last: for every history of keys,   *)
(* what is sealed passes the verifier.                                     *)
(***************************************************************************)
EXTENDS BeaconCycle, Minting, SequenceTheorems, TLAPS

-----------------------------------------------------------------------------
(* The entropy host.                                                       *)
(* The inductive invariant: the checked invariants and what they rest on.  *)

\* Every draw a file, a statement or a record names has been made.
DrawBounds ==
  /\ \A s \in Seqs : draw[s] <= drawn
  /\ \A c \in signed : c.e <= drawn
  /\ \A r \in retired : r.e <= drawn

\* The commitments of a number are to draws no later than its last one.
LatestDraw == \A c \in signed : c.phase = "commit" => c.e <= draw[c.seq]

\* A file that is held holds a draw that is not retired.
HeldNotRetired == \A s \in Pending : \A r \in retired : r.e # draw[s]

\* A resolution against a published pulse is on record, its number is closed.
PublishedOnRecord ==
  \A r \in retired : r.by \in Hashes =>
    /\ held[r.seq] = "none"
    /\ revealedBy[r.seq] \in Hashes \/ abandonedBy[r.seq] \in Hashes

\* A .secret file still has its E.
SecretIntact == \A s \in Seqs : held[s] = "secret" => content[s] = "E"

\* Only an .abandoning file can hold a draw whose abandonment was signed.
AbandonSticks ==
  \A s \in Pending : \A d \in signed :
    d.phase = "failure" /\ d.e = draw[s] => held[s] = "abandoning"

HostInv ==
  /\ OneSecretHeld /\ DrawBounds /\ LatestDraw /\ HeldNotRetired
  /\ PublishedOnRecord /\ SecretIntact /\ AbandonSticks
  /\ NoCommitAfterResolution /\ CommitmentBacked /\ RetiredOnce

\* No request takes a variable out of its type.
LEMMA HostTypeInductive == HostTypeOK /\ [HostNext]_hostVars => HostTypeOK'
<1> SUFFICES ASSUME HostTypeOK, [HostNext]_hostVars PROVE HostTypeOK'
  OBVIOUS
<1> USE SeqsAssumption DEF HostTypeOK, recordVars, Admit, Phases, Statement, Records, Resolver
<1>1. ASSUME NEW s \in Seqs, Commit(s) PROVE HostTypeOK'
  BY <1>1 DEF Commit
<1>2. ASSUME NEW s \in Seqs, CommitCrash(s) PROVE HostTypeOK'
  BY <1>2 DEF CommitCrash
<1>3. ASSUME NEW s \in Seqs, CommitRefused(s) PROVE HostTypeOK'
  BY <1>3 DEF CommitRefused
<1>4. ASSUME NEW s \in Seqs, RevealRefused(s) PROVE HostTypeOK'
  BY <1>4 DEF RevealRefused
<1>5. ASSUME NEW s \in Seqs, AbandonRefused(s) PROVE HostTypeOK'
  BY <1>5 DEF AbandonRefused
<1>6. ASSUME NEW s \in Seqs, FinalizeCrash(s) PROVE HostTypeOK'
  BY <1>6 DEF FinalizeCrash
<1>7. ASSUME NEW s \in Seqs, NEW b \in Resolver, RevealPrepare(s, b) PROVE HostTypeOK'
  BY <1>7 DEF RevealPrepare
<1>8. ASSUME NEW s \in Seqs, NEW b \in Resolver, AbandonPrepare(s, b) PROVE HostTypeOK'
  BY <1>8 DEF AbandonPrepare
<1>9. ASSUME NEW s \in Seqs, NEW b \in Resolver, Finalize(s, b) PROVE HostTypeOK'
  BY <1>9 DEF Finalize, Finalizable, Retirement
<1>10. ASSUME NEW e \in 1..drawn, Release(e) PROVE HostTypeOK'
  BY <1>10 DEF Release
<1>11. CASE UNCHANGED hostVars
  BY <1>11 DEF hostVars
<1> QED
  BY <1>1, <1>2, <1>3, <1>4, <1>5, <1>6, <1>7, <1>8, <1>9, <1>10, <1>11 DEF HostNext

\* The host starts well typed.
LEMMA HostTypeInitially == HostInit => HostTypeOK
BY SeqsAssumption DEF HostInit, HostTypeOK, Records, Phases

\* Type correctness of the host's files, counters and histories.
THEOREM HostTypeCorrect == HostSpec => []HostTypeOK
BY HostTypeInitially, HostTypeInductive, PTL DEF HostSpec

\* Only these requests touch a file, a record or a history; the others leave
\* every part of HostInv as it is.
LEMMA HostInvInductive == HostTypeOK /\ HostInv /\ [HostNext]_hostVars => HostInv'
<1> SUFFICES ASSUME HostTypeOK, HostInv, [HostNext]_hostVars PROVE HostInv'
  OBVIOUS
<1> USE SeqsAssumption, HashAssumption
    DEF HostTypeOK, HostInv, recordVars, Admit, Phases, Statement, Pending,
        Resolver, Records
<1>1. ASSUME NEW s \in Seqs, Commit(s) PROVE HostInv'
  <2> USE <1>1 DEF Commit, MayCommit, ResolvedPublished
  <2>1. /\ drawn' = drawn + 1 /\ drawn \in Nat
        /\ \A t \in Seqs : held[t] = "none"
        /\ \A t \in Seqs : held'[t] = IF t = s THEN "secret" ELSE "none"
        /\ \A t \in Seqs : draw'[t] = IF t = s THEN drawn + 1 ELSE draw[t]
        /\ \A t \in Seqs : t = s => content'[t] = "E"
        /\ UNCHANGED <<retired, released, revealedBy, abandonedBy>>
    OBVIOUS
  <2>2. OneSecretHeld' /\ SecretIntact'
    BY <2>1 DEF OneSecretHeld, SecretIntact
  <2>3. DrawBounds'
    BY <2>1 DEF DrawBounds
  <2>4. LatestDraw'
    BY <2>1 DEF LatestDraw, DrawBounds
  <2>5. HeldNotRetired' /\ RetiredOnce'
    BY <2>1 DEF HeldNotRetired, DrawBounds, RetiredOnce
  <2>6. AbandonSticks'
    BY <2>1 DEF AbandonSticks, DrawBounds
  <2>7. PublishedOnRecord'
    BY <2>1 DEF PublishedOnRecord
  <2>8. NoCommitAfterResolution'
    BY <2>1 DEF NoCommitAfterResolution, PublishedOnRecord
  <2>9. CommitmentBacked'
    BY <2>1 DEF CommitmentBacked
  <2> QED BY <2>2, <2>3, <2>4, <2>5, <2>6, <2>7, <2>8, <2>9
<1>2. ASSUME NEW s \in Seqs, CommitCrash(s) PROVE HostInv'
  BY <1>2 DEF CommitCrash, OneSecretHeld, DrawBounds, LatestDraw, HeldNotRetired,
     PublishedOnRecord, SecretIntact, AbandonSticks, NoCommitAfterResolution,
     CommitmentBacked, RetiredOnce
<1>3. ASSUME NEW s \in Seqs, CommitRefused(s) PROVE HostInv'
  BY <1>3 DEF CommitRefused, OneSecretHeld, DrawBounds, LatestDraw, HeldNotRetired,
     PublishedOnRecord, SecretIntact, AbandonSticks, NoCommitAfterResolution,
     CommitmentBacked, RetiredOnce
<1>4. ASSUME NEW s \in Seqs, RevealRefused(s) PROVE HostInv'
  BY <1>4 DEF RevealRefused, OneSecretHeld, DrawBounds, LatestDraw, HeldNotRetired,
     PublishedOnRecord, SecretIntact, AbandonSticks, NoCommitAfterResolution,
     CommitmentBacked, RetiredOnce
<1>5. ASSUME NEW s \in Seqs, AbandonRefused(s) PROVE HostInv'
  BY <1>5 DEF AbandonRefused, Abandonable, OneSecretHeld, DrawBounds, LatestDraw,
     HeldNotRetired, PublishedOnRecord, SecretIntact, AbandonSticks,
     NoCommitAfterResolution, CommitmentBacked, RetiredOnce
<1>6. ASSUME NEW s \in Seqs, FinalizeCrash(s) PROVE HostInv'
  BY <1>6 DEF FinalizeCrash, Finalizable, OneSecretHeld, DrawBounds, LatestDraw,
     HeldNotRetired, PublishedOnRecord, SecretIntact, AbandonSticks,
     NoCommitAfterResolution, CommitmentBacked, RetiredOnce
<1>7. ASSUME NEW s \in Seqs, NEW b \in Resolver, RevealPrepare(s, b) PROVE HostInv'
  <2> USE <1>7 DEF RevealPrepare, Revealable
  <2>1. OneSecretHeld' /\ SecretIntact' /\ DrawBounds' /\ HeldNotRetired'
    BY DEF OneSecretHeld, SecretIntact, DrawBounds, HeldNotRetired
  <2>2. LatestDraw' /\ PublishedOnRecord' /\ AbandonSticks'
    BY DEF LatestDraw, PublishedOnRecord, AbandonSticks
  <2>3. NoCommitAfterResolution' /\ CommitmentBacked'
    BY DEF NoCommitAfterResolution, CommitmentBacked
  <2>4. RetiredOnce'
    BY DEF RetiredOnce
  <2> QED BY <2>1, <2>2, <2>3, <2>4
<1>8. ASSUME NEW s \in Seqs, NEW b \in Resolver, AbandonPrepare(s, b) PROVE HostInv'
  <2> USE <1>8 DEF AbandonPrepare, Abandonable
  <2>1. OneSecretHeld' /\ SecretIntact' /\ DrawBounds' /\ HeldNotRetired'
    BY DEF OneSecretHeld, SecretIntact, DrawBounds, HeldNotRetired
  <2>2. LatestDraw' /\ PublishedOnRecord'
    BY DEF LatestDraw, PublishedOnRecord
  <2>3. AbandonSticks'
    BY DEF AbandonSticks, OneSecretHeld
  <2>4. NoCommitAfterResolution' /\ CommitmentBacked'
    BY DEF NoCommitAfterResolution, CommitmentBacked
  <2>5. RetiredOnce'
    BY DEF RetiredOnce
  <2> QED BY <2>1, <2>2, <2>3, <2>4, <2>5
<1>9. ASSUME NEW s \in Seqs, NEW b \in Resolver, Finalize(s, b) PROVE HostInv'
  <2> USE <1>9 DEF Finalize, Finalizable, Retirement
  <2>1. OneSecretHeld' /\ SecretIntact' /\ DrawBounds'
    BY DEF OneSecretHeld, SecretIntact, DrawBounds
  <2>2. HeldNotRetired'
    BY DEF HeldNotRetired, OneSecretHeld
  <2>3. LatestDraw' /\ AbandonSticks'
    BY DEF LatestDraw, AbandonSticks
  <2> DEFINE new == [seq |-> s, e |-> draw[s], how |-> held[s], by |-> b]
  <2>a. /\ retired' = retired \cup {new} /\ new.seq = s /\ new.e = draw[s] /\ new.by = b
        /\ \A t \in Seqs \ {s} : /\ held'[t] = held[t] /\ content'[t] = content[t]
                                  /\ revealedBy'[t] = revealedBy[t]
                                  /\ abandonedBy'[t] = abandonedBy[t]
        /\ held'[s] = "none"
        /\ revealedBy'[s] = b \/ abandonedBy'[s] = b
        /\ UNCHANGED <<draw, signed>>
    OBVIOUS
  <2> HIDE DEF new
  <2>4. PublishedOnRecord'
    <3> SUFFICES ASSUME NEW r \in retired', r.by \in Hashes
                 PROVE  /\ held'[r.seq] = "none"
                        /\ revealedBy'[r.seq] \in Hashes \/ abandonedBy'[r.seq] \in Hashes
      BY DEF PublishedOnRecord
    <3>1. CASE r = new
      BY <2>a, <3>1
    <3>2. CASE r \in retired
      <4>1. r.seq \in Seqs /\ r.seq # s
        BY <3>2 DEF PublishedOnRecord
      <4> QED BY <2>a, <3>2, <4>1 DEF PublishedOnRecord
    <3> QED BY <2>a, <3>1, <3>2
  <2>5. NoCommitAfterResolution'
    BY DEF NoCommitAfterResolution, LatestDraw
  <2>6. CommitmentBacked'
    <3> SUFFICES ASSUME NEW c \in signed, c.phase = "commit"
                 PROVE  \/ \E r \in retired' : r.seq = c.seq /\ r.e = c.e
                        \/ /\ held'[c.seq] # "none" /\ draw'[c.seq] = c.e
                           /\ held'[c.seq] = "secret" => content'[c.seq] = "E"
      BY <2>a DEF CommitmentBacked
    <3>1. CASE \E r \in retired : r.seq = c.seq /\ r.e = c.e
      BY <2>a, <3>1
    <3>2. CASE c.seq = s /\ draw[s] = c.e
      BY <2>a, <3>2
    <3>3. CASE c.seq # s
      BY <2>a, <3>3 DEF CommitmentBacked
    <3> QED BY <3>1, <3>2, <3>3 DEF CommitmentBacked
  <2>7. RetiredOnce'
    BY DEF RetiredOnce, HeldNotRetired
  <2> QED BY <2>1, <2>2, <2>3, <2>4, <2>5, <2>6, <2>7
<1>10. ASSUME NEW e \in 1..drawn, Release(e) PROVE HostInv'
  BY <1>10 DEF Release, OneSecretHeld, DrawBounds, LatestDraw, HeldNotRetired,
     PublishedOnRecord, SecretIntact, AbandonSticks, NoCommitAfterResolution,
     CommitmentBacked, RetiredOnce
<1>11. CASE UNCHANGED hostVars
  BY <1>11 DEF hostVars, OneSecretHeld, DrawBounds, LatestDraw, HeldNotRetired,
     PublishedOnRecord, SecretIntact, AbandonSticks, NoCommitAfterResolution,
     CommitmentBacked, RetiredOnce
<1> QED
  BY <1>1, <1>2, <1>3, <1>4, <1>5, <1>6, <1>7, <1>8, <1>9, <1>10, <1>11 DEF HostNext

\* The host starts with nothing held, signed or retired.
LEMMA HostInvInitially == HostInit => HostInv
BY DEF HostInit, HostInv, Pending, OneSecretHeld, DrawBounds, LatestDraw,
   HeldNotRetired, PublishedOnRecord, SecretIntact, AbandonSticks,
   NoCommitAfterResolution, CommitmentBacked, RetiredOnce

\* The inductive invariant holds of every behaviour of the host.
THEOREM HostInvariant == HostSpec => []HostInv
BY HostInvInitially, HostInvInductive, HostTypeCorrect, PTL DEF HostSpec

\* At most one secret awaits its resolution, whatever is requested.
THEOREM HostOneSecret == HostSpec => []OneSecretHeld
<1>1. HostInv => OneSecretHeld
  BY DEF HostInv
<1> QED BY <1>1, HostInvariant, PTL

\* The equivocation guard: no commitment to a later draw of a number whose
\* commitment was resolved against a published pulse.
THEOREM HostNoEquivocation == HostSpec => []NoCommitAfterResolution
<1>1. HostInv => NoCommitAfterResolution
  BY DEF HostInv
<1> QED BY <1>1, HostInvariant, PTL

\* Every signed commitment stays resolvable until it is retired.
THEOREM HostBacksCommitments == HostSpec => []CommitmentBacked
<1>1. HostInv => CommitmentBacked
  BY DEF HostInv
<1> QED BY <1>1, HostInvariant, PTL

\* No draw is retired twice, in particular never as revealed and as abandoned.
THEOREM HostRetiresOnce == HostSpec => []RetiredOnce
<1>1. HostInv => RetiredOnce
  BY DEF HostInv
<1> QED BY <1>1, HostInvariant, PTL

\* After the abandonment of a draw is signed, its reveal never is.
THEOREM HostAbandonIsFinal == HostSpec => NoRevealAfterAbandon
<1> DEFINE Act == \A c \in signed' \ signed : c.phase = "reveal" =>
                    \A d \in signed : d.phase = "failure" => d.e # c.e
<1>1. HostTypeOK /\ HostInv /\ [HostNext]_hostVars => [Act]_hostVars
  <2> SUFFICES ASSUME HostTypeOK, HostInv, HostNext, NEW c \in signed' \ signed,
                      c.phase = "reveal", NEW d \in signed, d.phase = "failure"
               PROVE  d.e # c.e
    OBVIOUS
  <2>1. PICK s \in Seqs, b \in Resolver : RevealPrepare(s, b)
    BY DEF HostNext, Commit, CommitCrash, CommitRefused, RevealRefused, AbandonRefused,
       FinalizeCrash, AbandonPrepare, Finalize, Release, Statement
  <2>2. c.e = draw[s] /\ s \in Pending /\ held[s] # "abandoning"
    BY <2>1 DEF RevealPrepare, Statement, Revealable, Pending
  <2> QED
    BY <2>2 DEF HostInv, AbandonSticks
<1> QED
  BY <1>1, HostTypeCorrect, HostInvariant, PTL DEF HostSpec, NoRevealAfterAbandon

\* Custody of E, whoever calls the host in whatever order.
THEOREM HostKeepsCustody == HostSpec => []HostCustody
<1>1. HostInv => HostCustody
  BY DEF HostInv, HostCustody
<1> QED BY <1>1, HostInvariant, PTL

-----------------------------------------------------------------------------
(* The cycle.                                                              *)

PulseSet == [type : Types, e : Nat]

\* The checkout, in its type.
GitOK ==
  /\ chain \in Seq(PulseSet) /\ HeadSeq \in 0..MaxPulses
  /\ pushed \in 0..committed /\ committed \in 0..HeadSeq
  /\ {ahead, behind, litter} \subseteq BOOLEAN /\ late \subseteq Seqs
  /\ (~ahead => pushed = committed)
\* The process, in its type.
ProcessOK ==
  /\ claimed \in BOOLEAN /\ phase \in {PhaseOrder[i] : i \in 1..5}
  /\ mode \in {"plain", "tick"} /\ pc \in Labels /\ job \in Jobs
  /\ todo \subseteq Seqs /\ faults \in 0..MaxFaults

\* What each place of the cycle may rely on.
Control ==
  /\ HeadIsCommit => Room(1)
  /\ pc \in {"commit", "draw", "collect", "seal"} => ~HeadIsCommit /\ Room(2)
  /\ pc \in {"await", "ask", "attest", "abandon", "sealfail"} => HeadIsCommit
  /\ pc \in {"add", "push"} /\ job = "commit" => HeadIsCommit
  /\ pc = "ask" => pushed = HeadSeq
  /\ pc \in {"collect", "seal"} => held[HeadSeq + 1] = "secret"
  /\ pc = "attest" => held[HeadSeq] = "revealing"
  /\ pc = "sealfail" => held[HeadSeq] = "abandoning"
  /\ \A s, t \in todo : s = t
  /\ pc = "retire0" => todo # {} /\ Unpublished(First)
  /\ pc \in {"retire", "retire0"} => pushed = HeadSeq \/ todo \subseteq {HeadSeq + 1}

\* The draws of the host and the pulses of the chain agree.
DrawsAgree ==
  /\ \A s, t \in Seqs : draw[s] = draw[t] /\ draw[s] # 0 => s = t
  /\ \A s \in Pending : draw[s] # 0
  /\ \A r \in retired : r.e # 0
  /\ \A i \in 1..HeadSeq : chain[i].type = "commit" => chain[i].e = draw[i] /\ draw[i] # 0
  /\ \A i \in 1..HeadSeq : chain[i].type = "skip" => chain[i].e = 0

\* What the host still holds for a resolved commit was prepared that way.
ResolvedAsHeld ==
  \A i \in 1..HeadSeq :
    /\ chain[i].type = "reveal"  => held[i - 1] \in {"none", "revealing"}
    /\ chain[i].type = "failure" => held[i - 1] \in {"none", "abandoning"}

World ==
  /\ ChainStateMachine /\ DrawsAgree /\ ResolvedAsHeld /\ HeadCommitBacked
  /\ ZeroMeansUnpublished /\ ErasedAfterPublication /\ RevealedAfterPublication

CycleInv == GitOK /\ ProcessOK /\ Control /\ World /\ HostTypeOK /\ HostInv

-----------------------------------------------------------------------------
(* The kinds of step                                                       *)

\* A pulse that may be sealed now.
Sealable(t, e) ==
  \/ t = "commit"  /\ ~HeadIsCommit /\ Room(2) /\ held[HeadSeq + 1] = "secret" /\ e = draw[HeadSeq + 1]
  \/ t = "reveal"  /\ HeadIsCommit /\ held[HeadSeq] = "revealing" /\ e = draw[HeadSeq]
  \/ t = "failure" /\ HeadIsCommit /\ held[HeadSeq] = "abandoning" /\ e = draw[HeadSeq]
  \/ t = "skip"    /\ ~HeadIsCommit /\ Room(1) /\ e = 0

\* Commit requests name the number after the head.
CommitKind ==
  /\ ~HeadIsCommit /\ Room(2)
  /\ Commit(HeadSeq + 1) \/ CommitCrash(HeadSeq + 1) \/ CommitRefused(HeadSeq + 1)

\* Abandonments bound to the zero hash are of secrets never published.
AbortKind ==
  \E s \in Seqs :
    /\ Unpublished(s)
    /\ \/ AbandonPrepare(s, ZeroHash) \/ AbandonRefused(s)
       \/ Finalize(s, ZeroHash) \/ FinalizeCrash(s)

\* The other finalizations follow the published resolver.
FinalizeKind ==
  \E s \in Seqs :
    /\ s + 1 \in 1..HeadSeq /\ pushed = HeadSeq /\ chain[s + 1].type \in Resolutions
    /\ Finalize(s, s + 1) \/ FinalizeCrash(s)

\* Reveals are asked for the published head commit.
RevealKind ==
  /\ HeadIsCommit /\ pushed = HeadSeq
  /\ RevealPrepare(HeadSeq, HeadSeq) \/ RevealRefused(HeadSeq)

\* So are failures, of the head commit.
FailKind ==
  /\ HeadIsCommit
  /\ AbandonPrepare(HeadSeq, HeadSeq) \/ AbandonRefused(HeadSeq)

HostKind ==
  \/ CommitKind \/ AbortKind \/ FinalizeKind \/ RevealKind \/ FailKind
  \/ \E e \in 1..drawn : Release(e)

QuietStep == UNCHANGED <<hostVars, chain>> /\ pushed' >= pushed
SealStep ==
  /\ UNCHANGED <<hostVars, pushed>>
  /\ \E t \in Types, e \in Nat : Sealable(t, e) /\ chain' = Append(chain, Pulse(t, e))
WorldStep == QuietStep \/ SealStep \/ (HostKind /\ UNCHANGED <<chain, pushed>>)

-----------------------------------------------------------------------------

\* The todo list has a first element while it is not empty.
LEMMA FirstInTodo ==
  ASSUME \A s, t \in todo : s = t, todo # {}, todo \subseteq Seqs, Seqs \subseteq Nat
  PROVE  First \in todo
<1>1. PICK s \in todo : TRUE
  OBVIOUS
<1>2. \E x \in todo : \A t \in todo : x <= t
  BY <1>1
<1> QED BY <1>2 DEF First

\* Sealing appends one pulse and leaves the older ones as they are.
LEMMA SealAppends ==
  ASSUME chain \in Seq(PulseSet), NEW t \in Types, NEW e \in Nat,
         chain' = Append(chain, Pulse(t, e))
  PROVE  /\ chain' \in Seq(PulseSet)
         /\ HeadSeq' = HeadSeq + 1 /\ HeadSeq \in Nat
         /\ \A i \in 1..HeadSeq : chain'[i] = chain[i]
         /\ chain'[HeadSeq + 1] = Pulse(t, e)
         /\ HeadPulse' = Pulse(t, e)
<1>1. Pulse(t, e) \in PulseSet
  BY DEF Pulse, PulseSet
<1>2. /\ chain' \in Seq(PulseSet) /\ chain' # <<>>
      /\ Len(chain') = Len(chain) + 1 /\ Len(chain) \in Nat
      /\ \A i \in 1..Len(chain) : chain'[i] = chain[i]
      /\ chain'[Len(chain) + 1] = Pulse(t, e)
  BY <1>1, AppendProperties, LenProperties
<1> QED BY <1>2 DEF HeadSeq, HeadPulse

\* What the lemmas about the world take from the rest of the invariant.
Ground ==
  /\ chain \in Seq(PulseSet) /\ pushed \in 0..HeadSeq /\ HeadSeq \in 0..MaxPulses
  /\ (HeadIsCommit => Room(1)) /\ HostTypeOK /\ HostInv

\* A step that seals nothing and asks nothing leaves the world as it is.
LEMMA QuietKeepsWorld == Ground /\ World /\ QuietStep /\ pushed' \in Nat => World'
BY DEF Ground, QuietStep, hostVars, World, ChainStateMachine, DrawsAgree, ResolvedAsHeld,
       HeadCommitBacked, ZeroMeansUnpublished, ErasedAfterPublication,
       RevealedAfterPublication, HeadIsCommit, HeadPulse, HeadSeq, Pending

\* A pulse that may be sealed extends the chain as the world demands.
LEMMA SealKeepsWorld == Ground /\ World /\ SealStep => World'
<1>0. SUFFICES ASSUME Ground, World, UNCHANGED <<hostVars, pushed>>,
                      NEW t \in Types, NEW e \in Nat, Sealable(t, e),
                      chain' = Append(chain, Pulse(t, e))
               PROVE  World'
  BY DEF SealStep
<1>1. /\ chain' \in Seq(PulseSet)
      /\ HeadSeq' = HeadSeq + 1 /\ HeadSeq \in Nat
      /\ \A i \in 1..HeadSeq : chain'[i] = chain[i]
      /\ chain'[HeadSeq + 1] = Pulse(t, e)
      /\ HeadPulse' = Pulse(t, e)
  BY <1>0, SealAppends DEF Ground
<1>2. /\ \A i \in 1..HeadSeq : chain[i] \in PulseSet
      /\ HeadIsCommit => HeadSeq \in 1..HeadSeq /\ chain[HeadSeq] = HeadPulse
  BY <1>0, LenProperties DEF Ground, HeadSeq, HeadPulse, HeadIsCommit, Pulse
<1>3. /\ held' = held /\ content' = content /\ draw' = draw
      /\ signed' = signed /\ retired' = retired /\ pushed' = pushed
  BY <1>0 DEF hostVars
<1>12. Ground /\ World /\ Sealable(t, e)
  BY <1>0
<1>4. HeadSeq + 1 \in Seqs
  BY <1>12, BeaconAssumption, <1>1 DEF Sealable, Room, Ground, HeadIsCommit
<1>5. ChainStateMachine'
  <2> SUFFICES ASSUME NEW i \in 1..HeadSeq + 1
               PROVE  /\ chain'[i].type \in Resolutions =>
                           i > 1 /\ chain'[i - 1] = Pulse("commit", chain'[i].e)
                      /\ chain'[i].type = "commit" /\ i < HeadSeq + 1 =>
                           chain'[i + 1].type \in Resolutions
    BY <1>1 DEF ChainStateMachine
  <2>1. CASE i = HeadSeq + 1
    <3>1. CASE t \in Resolutions
      <4>1. HeadIsCommit /\ e = draw[HeadSeq]
        BY <1>12, <3>1 DEF Sealable, Resolutions
      <4>2. chain[HeadSeq].type = "commit" /\ chain[HeadSeq].e = e /\ HeadSeq \in 1..HeadSeq
        BY <1>12, <4>1, <1>2 DEF World, DrawsAgree, HeadIsCommit
      <4>3. chain[HeadSeq] = Pulse("commit", e)
        BY <4>2, <1>2 DEF PulseSet, Pulse
      <4>4. chain'[i].type = t /\ chain'[i].e = e
        BY <2>1, <1>1 DEF Pulse
      <4>5. i > 1 /\ chain'[i - 1] = Pulse("commit", e)
        BY <4>2, <4>3, <2>1, <1>1
      <4> QED BY <4>4, <4>5, <2>1
    <3>2. CASE t \notin Resolutions
      BY <3>2, <2>1, <1>1 DEF Pulse
    <3> QED BY <3>1, <3>2
  <2>2. CASE i \in 1..HeadSeq
    <3>1. /\ chain[i].type \in Resolutions =>
               i > 1 /\ chain[i - 1] = Pulse("commit", chain[i].e)
          /\ chain[i].type = "commit" /\ i < HeadSeq => chain[i + 1].type \in Resolutions
      BY <1>12, <2>2 DEF World, ChainStateMachine
    <3>2. chain[i].type = "commit" /\ i = HeadSeq => t \in Resolutions
      BY <1>12, <1>1, <1>2 DEF Sealable, Resolutions, HeadIsCommit, HeadPulse, HeadSeq
    <3> QED BY <3>1, <3>2, <2>2, <1>1 DEF Pulse
  <2> QED BY <2>1, <2>2, <1>1
<1>6. DrawsAgree'
  BY <1>12, <1>1, <1>2, <1>3, <1>4 DEF World, DrawsAgree, Sealable, Pulse, Pending
<1>7. ResolvedAsHeld'
  <2> SUFFICES ASSUME NEW i \in 1..HeadSeq + 1
               PROVE  /\ chain'[i].type = "reveal"  => held[i - 1] \in {"none", "revealing"}
                      /\ chain'[i].type = "failure" => held[i - 1] \in {"none", "abandoning"}
    BY <1>1, <1>3 DEF ResolvedAsHeld
  <2>1. CASE i = HeadSeq + 1
    <3>1. chain'[i].type = t /\ i - 1 = HeadSeq
      BY <2>1, <1>1 DEF Pulse
    <3> QED BY <3>1, <1>12 DEF Sealable
  <2>2. CASE i \in 1..HeadSeq
    BY <1>12, <2>2, <1>1 DEF World, ResolvedAsHeld
  <2> QED BY <2>1, <2>2, <1>1
<1>8. HeadCommitBacked'
  BY <1>12, <1>1, <1>3, <1>4 DEF Ground, HostInv, SecretIntact, HeadCommitBacked, Sealable, Pulse, HeadIsCommit
<1>9. ZeroMeansUnpublished'
  <2> SUFFICES ASSUME NEW r \in retired, r.by = ZeroHash PROVE e # r.e
    BY <1>12, <1>1, <1>3 DEF World, ZeroMeansUnpublished, Pulse
  <2>1. CASE t = "commit"
    BY <1>12, <2>1, <1>4 DEF Sealable, Ground, HostInv, HeldNotRetired, Pending
  <2>2. CASE t \in Resolutions
    BY <1>12, <2>2, <1>2 DEF Sealable, World, ZeroMeansUnpublished, DrawsAgree, HeadIsCommit, Resolutions
  <2>3. CASE t = "skip"
    BY <1>12, <2>3 DEF Sealable, World, DrawsAgree
  <2> QED BY <2>1, <2>2, <2>3 DEF Types, Resolutions
<1>10. ErasedAfterPublication'
  BY <1>12, <1>1, <1>3 DEF Ground, World, ErasedAfterPublication
<1>11. RevealedAfterPublication'
  BY <1>12, <1>1, <1>3 DEF Ground, World, RevealedAfterPublication
<1> QED
  BY <1>5, <1>6, <1>7, <1>8, <1>9, <1>10, <1>11 DEF World

\* How the pulses of the chain and the draws of the host are tied together.
LEMMA ChainFacts ==
  ASSUME Ground, World
  PROVE  /\ Seqs = 1..MaxPulses /\ HeadSeq \in Nat /\ HeadSeq <= MaxPulses
         /\ \A i \in 1..HeadSeq :
              /\ chain[i] \in PulseSet /\ i \in Seqs
              /\ chain[i].type = "commit" => chain[i].e = draw[i] /\ draw[i] # 0
              /\ chain[i].type \in Resolutions =>
                   i - 1 \in Seqs /\ i - 1 \in 1..HeadSeq /\ chain[i].e = draw[i - 1]
              /\ chain[i].type = "skip" => chain[i].e = 0
         /\ HeadIsCommit =>
              /\ HeadSeq \in 1..HeadSeq /\ HeadSeq + 1 \in Seqs
              /\ chain[HeadSeq] = Pulse("commit", draw[HeadSeq])
         /\ ~HeadIsCommit => \A i \in 1..HeadSeq : chain[i].type = "commit" => i # HeadSeq
<1>1. /\ Seqs = 1..MaxPulses /\ HeadSeq \in Nat /\ HeadSeq <= MaxPulses /\ MaxPulses \in Nat
      /\ \A i \in 1..HeadSeq : chain[i] \in PulseSet /\ i \in Seqs
  BY BeaconAssumption, LenProperties DEF Ground, HeadSeq
<1>2. HeadIsCommit => /\ HeadSeq \in 1..HeadSeq /\ HeadSeq + 1 \in Seqs
                      /\ chain[HeadSeq] = HeadPulse /\ HeadPulse.type = "commit"
  BY <1>1, LenProperties DEF Ground, HeadIsCommit, HeadPulse, HeadSeq, Pulse, Room
<1>3. HeadIsCommit => chain[HeadSeq] = Pulse("commit", draw[HeadSeq])
  BY <1>1, <1>2 DEF World, DrawsAgree, Pulse, PulseSet
<1>4. ~HeadIsCommit => \A i \in 1..HeadSeq : chain[i].type = "commit" => i # HeadSeq
  BY <1>1, LenProperties DEF Ground, HeadIsCommit, HeadPulse, HeadSeq
<1>5. ASSUME NEW i \in 1..HeadSeq, chain[i].type \in Resolutions
      PROVE  i - 1 \in Seqs /\ i - 1 \in 1..HeadSeq /\ chain[i].e = draw[i - 1]
  <2>1. i > 1 /\ chain[i - 1] = Pulse("commit", chain[i].e)
    BY <1>5 DEF World, ChainStateMachine
  <2> QED BY <2>1, <1>1 DEF World, DrawsAgree, Pulse
<1> QED
  BY <1>1, <1>2, <1>3, <1>4, <1>5 DEF World, DrawsAgree

\* A file whose number no commit pulse names holds a draw that no pulse names.
LEMMA UnpublishedDraw ==
  ASSUME Ground, World, NEW s \in Pending, Unpublished(s)
  PROVE  /\ draw[s] # 0
         /\ \A i \in 1..HeadSeq :
              /\ chain[i].e # draw[s]
              /\ chain[i].type = "commit" => i # s
              /\ chain[i].type \in Resolutions => i - 1 # s
<1>1. draw[s] # 0 /\ s \in Seqs
  BY DEF World, DrawsAgree, Pending
<1>2. ASSUME NEW i \in 1..HeadSeq
      PROVE  /\ chain[i].type = "commit" => i # s
             /\ chain[i].type \in Resolutions => i - 1 # s
  BY ChainFacts, <1>1 DEF Unpublished
<1>3. ASSUME NEW i \in 1..HeadSeq
      PROVE  chain[i].e # draw[s]
  <2>1. chain[i].type \in {"commit", "skip"} \cup Resolutions
    BY ChainFacts DEF PulseSet, Types, Resolutions
  <2> QED BY <2>1, <1>1, <1>2, ChainFacts DEF World, DrawsAgree
<1> QED BY <1>1, <1>2, <1>3

\* A request that leaves the chain, the histories, the draws and the contents
\* alone keeps the world if it changes files only in the way allowed here.
LEMMA FilesKeepWorld ==
  ASSUME Ground, World,
         UNCHANGED <<chain, pushed, content, draw, retired>>,
         \A i \in 1..HeadSeq : chain[i].type \in Resolutions => held'[i - 1] = held[i - 1],
         \A t \in Seqs : held[t] = "none" <=> held'[t] = "none",
         \A c \in signed' : c.phase = "reveal" /\ c \notin signed =>
           c.binding \in 1..pushed /\ chain[c.binding] = Pulse("commit", c.e)
  PROVE  World'
<1>1. Pending' = Pending
  BY DEF Pending
<1>2. HeadSeq' = HeadSeq /\ HeadPulse' = HeadPulse /\ HeadIsCommit' = HeadIsCommit
  BY DEF HeadSeq, HeadPulse, HeadIsCommit
<1>3. ChainStateMachine' /\ DrawsAgree'
  BY <1>1, <1>2 DEF World, ChainStateMachine, DrawsAgree
<1>4. ResolvedAsHeld'
  BY <1>2 DEF World, ResolvedAsHeld, Resolutions
<1>5. HeadCommitBacked'
  BY <1>2, ChainFacts DEF World, HeadCommitBacked
<1>6. ZeroMeansUnpublished' /\ ErasedAfterPublication'
  BY <1>2 DEF World, ZeroMeansUnpublished, ErasedAfterPublication
<1>7. RevealedAfterPublication'
  BY DEF World, RevealedAfterPublication
<1> QED BY <1>3, <1>4, <1>5, <1>6, <1>7 DEF World

\* entropy-commit adds the file of the next number, backed by a fresh draw.
LEMMA CommitKeepsWorld ==
  ASSUME Ground, World, CommitKind, UNCHANGED <<chain, pushed>>
  PROVE  World'
<1>1. /\ HeadSeq + 1 \in Seqs /\ ~HeadIsCommit
      /\ \A i \in 1..HeadSeq : chain[i].type \in Resolutions => i - 1 # HeadSeq + 1
  BY BeaconAssumption, ChainFacts DEF CommitKind, Room, Ground
<1>2. CASE Commit(HeadSeq + 1)
  <2>1. /\ Pending = {} /\ drawn \in Nat /\ \A t \in Seqs : draw[t] <= drawn /\ draw[t] \in Nat
        /\ \A t \in Seqs : draw'[t] = IF t = HeadSeq + 1 THEN drawn + 1 ELSE draw[t]
        /\ \A t \in Seqs : held'[t] = IF t = HeadSeq + 1 THEN "secret" ELSE held[t]
        /\ retired' = retired
    BY <1>2 DEF Commit, MayCommit, recordVars, Ground, HostInv, DrawBounds, HostTypeOK
  <2>2. /\ HeadSeq' = HeadSeq /\ ~HeadIsCommit' /\ HeadSeq \in Nat
        /\ \A i \in 1..HeadSeq : i \in Seqs /\ i # HeadSeq + 1
    BY <1>1, ChainFacts DEF HeadSeq, HeadIsCommit, HeadPulse
  <2>3. DrawsAgree'
    BY <1>1, <2>1, <2>2 DEF World, DrawsAgree, Pending
  <2>4. ResolvedAsHeld'
    BY <1>1, <2>1, <2>2, ChainFacts DEF World, ResolvedAsHeld, Resolutions
  <2>5. HeadCommitBacked' /\ ChainStateMachine'
    BY <2>2 DEF World, HeadCommitBacked, ChainStateMachine
  <2>6. ZeroMeansUnpublished' /\ ErasedAfterPublication'
    BY <2>1, <2>2 DEF World, ZeroMeansUnpublished, ErasedAfterPublication
  <2>7. RevealedAfterPublication'
    BY <1>2 DEF Commit, Statement, World, RevealedAfterPublication
  <2> QED BY <2>3, <2>4, <2>5, <2>6, <2>7 DEF World
<1>3. CASE CommitCrash(HeadSeq + 1) \/ CommitRefused(HeadSeq + 1)
  BY <1>3, FilesKeepWorld DEF CommitCrash, CommitRefused, recordVars
<1> QED BY <1>2, <1>3 DEF CommitKind

\* A prepared reveal is of the draw the head commit names.
LEMMA RevealKeepsWorld ==
  ASSUME Ground, World, RevealKind, UNCHANGED <<chain, pushed>>
  PROVE  World'
<1>1. /\ HeadSeq \in Seqs /\ HeadSeq \in 1..pushed
      /\ chain[HeadSeq] = Pulse("commit", draw[HeadSeq])
      /\ \A i \in 1..HeadSeq : chain[i].type \in Resolutions => i - 1 # HeadSeq
  BY ChainFacts DEF RevealKind
<1>2. held \in [Seqs -> {"none", "secret", "revealing", "abandoning"}]
  BY DEF Ground, HostTypeOK
<1>3. CASE RevealPrepare(HeadSeq, HeadSeq)
  BY <1>1, <1>2, <1>3, FilesKeepWorld DEF RevealPrepare, Revealable, Statement, recordVars
<1>4. CASE RevealRefused(HeadSeq)
  BY <1>1, <1>2, <1>4, FilesKeepWorld DEF RevealRefused, recordVars
<1> QED BY <1>3, <1>4 DEF RevealKind

\* A prepared failure leaves the draw of the head commit on the host.
LEMMA FailKeepsWorld ==
  ASSUME Ground, World, FailKind, UNCHANGED <<chain, pushed>>
  PROVE  World'
<1>1. /\ HeadSeq \in Seqs
      /\ \A i \in 1..HeadSeq : chain[i].type \in Resolutions => i - 1 # HeadSeq
  BY ChainFacts DEF FailKind
<1>2. held \in [Seqs -> {"none", "secret", "revealing", "abandoning"}]
  BY DEF Ground, HostTypeOK
<1>3. CASE AbandonPrepare(HeadSeq, HeadSeq)
  BY <1>1, <1>2, <1>3, FilesKeepWorld DEF AbandonPrepare, Abandonable, Statement, recordVars
<1>4. CASE AbandonRefused(HeadSeq)
  BY <1>1, <1>2, <1>4, FilesKeepWorld DEF AbandonRefused, Abandonable, recordVars
<1> QED BY <1>3, <1>4 DEF FailKind

\* A published drand round unlocks reveals and touches nothing else.
LEMMA ReleaseKeepsWorld ==
  ASSUME Ground, World, NEW x, Release(x), UNCHANGED <<chain, pushed>>
  PROVE  World'
BY FilesKeepWorld DEF Release, recordVars

\* A finalization cut short touches one file, not that of the head commit.
LEMMA FinalizeCrashKeepsWorld ==
  ASSUME Ground, World, NEW s \in Seqs, FinalizeCrash(s), HeadIsCommit => s # HeadSeq,
         UNCHANGED <<chain, pushed>>
  PROVE  World'
<1>1. /\ UNCHANGED <<held, draw, retired, signed>>
      /\ \A t \in Seqs : t # s => content'[t] = content[t]
  BY DEF FinalizeCrash, recordVars, Ground, HostTypeOK
<1>2. HeadSeq' = HeadSeq /\ HeadPulse' = HeadPulse /\ HeadIsCommit' = HeadIsCommit
  BY DEF HeadSeq, HeadPulse, HeadIsCommit
<1>3. HeadCommitBacked'
  BY <1>1, <1>2, ChainFacts DEF World, HeadCommitBacked
<1> QED
  BY <1>1, <1>2, <1>3 DEF World, ChainStateMachine, DrawsAgree, ResolvedAsHeld, Pending,
     ZeroMeansUnpublished, ErasedAfterPublication, RevealedAfterPublication

\* A finalization keeps the world if its resolver is the right one.
LEMMA FinalizeKeepsWorld ==
  ASSUME Ground, World, NEW s \in Seqs, NEW r, Finalize(s, r), HeadIsCommit => s # HeadSeq,
         r = ZeroHash => \A i \in 1..HeadSeq : chain[i].e # draw[s],
         r # ZeroHash => /\ r \in 1..pushed
                         /\ chain[r].e = draw[s] /\ s = r - 1
                         /\ chain[r].type \in Resolutions,
         UNCHANGED <<chain, pushed>>
  PROVE  World'
<1>1. /\ UNCHANGED <<draw, signed>> /\ s \in Pending /\ held[s] \in {"revealing", "abandoning"}
      /\ \A t \in Seqs : t # s => content'[t] = content[t] /\ held'[t] = held[t]
      /\ held'[s] = "none"
      /\ retired' = retired \cup {Retirement(s, draw[s], held[s], r)}
  BY DEF Finalize, Finalizable, recordVars, Ground, HostTypeOK, Pending
<1>2. HeadSeq' = HeadSeq /\ HeadPulse' = HeadPulse /\ HeadIsCommit' = HeadIsCommit
  BY DEF HeadSeq, HeadPulse, HeadIsCommit
<1>3. HeadCommitBacked'
  BY <1>1, <1>2, ChainFacts DEF World, HeadCommitBacked
<1>4. ResolvedAsHeld'
  BY <1>1, <1>2, ChainFacts DEF World, ResolvedAsHeld, Resolutions
<1>5. DrawsAgree'
  BY <1>1, <1>2 DEF World, DrawsAgree, Pending, Retirement
<1>6. ZeroMeansUnpublished'
  BY <1>1, <1>2 DEF World, ZeroMeansUnpublished, Retirement
<1>7. ASSUME r # ZeroHash
      PROVE  chain[r] = Pulse(IF held[s] = "revealing" THEN "reveal" ELSE "failure", draw[s])
  <2>1. r \in 1..HeadSeq /\ chain[r] \in PulseSet /\ chain[r].e = draw[s]
    BY <1>7, ChainFacts DEF Ground
  <2>2. chain[r].type = IF held[s] = "revealing" THEN "reveal" ELSE "failure"
    BY <1>7, <2>1, <1>1 DEF World, ResolvedAsHeld, Resolutions
  <2> QED BY <2>1, <2>2 DEF Pulse, PulseSet
<1>8. ErasedAfterPublication'
  BY <1>1, <1>7 DEF World, ErasedAfterPublication, Retirement
<1> QED
  BY <1>1, <1>2, <1>3, <1>4, <1>5, <1>6, <1>8
     DEF World, ChainStateMachine, RevealedAfterPublication

\* An abandonment bound to zero is of a draw that no pulse will name.
LEMMA AbortKeepsWorld ==
  ASSUME Ground, World, AbortKind, UNCHANGED <<chain, pushed>>
  PROVE  World'
<1> SUFFICES ASSUME NEW s \in Seqs, Unpublished(s),
                    \/ AbandonPrepare(s, ZeroHash) \/ AbandonRefused(s)
                    \/ Finalize(s, ZeroHash) \/ FinalizeCrash(s)
             PROVE  World'
  BY DEF AbortKind
<1>1. /\ HeadIsCommit => s # HeadSeq
      /\ \A i \in 1..HeadSeq : chain[i].type \in Resolutions => i - 1 # s
  BY ChainFacts DEF Unpublished
<1>2. held \in [Seqs -> {"none", "secret", "revealing", "abandoning"}]
  BY DEF Ground, HostTypeOK
<1>3. CASE AbandonPrepare(s, ZeroHash)
  BY <1>1, <1>2, <1>3, ChainFacts, FilesKeepWorld DEF AbandonPrepare, Abandonable, Statement, recordVars
<1>4. CASE AbandonRefused(s)
  BY <1>1, <1>2, <1>4, ChainFacts, FilesKeepWorld DEF AbandonRefused, Abandonable, recordVars
<1>5. CASE Finalize(s, ZeroHash)
  <2>1. s \in Pending
    BY <1>5 DEF Finalize, Finalizable, Pending
  <2> QED BY <1>1, <1>5, <2>1, UnpublishedDraw, FinalizeKeepsWorld
<1>6. CASE FinalizeCrash(s)
  BY <1>1, <1>6, FinalizeCrashKeepsWorld
<1> QED BY <1>3, <1>4, <1>5, <1>6

\* finalize, whole or cut short, for any of its callers.
LEMMA FinalizeKindKeepsWorld ==
  ASSUME Ground, World, FinalizeKind, UNCHANGED <<chain, pushed>>
  PROVE  World'
<1> SUFFICES ASSUME NEW s \in Seqs, s + 1 \in 1..HeadSeq, pushed = HeadSeq,
                    chain[s + 1].type \in Resolutions,
                    Finalize(s, s + 1) \/ FinalizeCrash(s)
             PROVE  World'
  BY DEF FinalizeKind
<1>1. s \in Nat /\ s # HeadSeq /\ (s + 1) - 1 = s /\ s + 1 # ZeroHash
  BY SeqsAssumption, BeaconAssumption DEF Ground
<1>2. chain[s + 1].e = draw[s]
  BY <1>1, ChainFacts
<1>3. CASE Finalize(s, s + 1)
  BY <1>1, <1>2, <1>3, FinalizeKeepsWorld
<1>4. CASE FinalizeCrash(s)
  BY <1>1, <1>4, FinalizeCrashKeepsWorld
<1> QED BY <1>3, <1>4

\* Every kind of step keeps the world.
LEMMA WorldStepKeepsWorld ==
  Ground /\ World /\ WorldStep /\ pushed' \in Nat => World'
BY QuietKeepsWorld, SealKeepsWorld, CommitKeepsWorld, AbortKeepsWorld, FinalizeKindKeepsWorld,
   RevealKeepsWorld, FailKeepsWorld, ReleaseKeepsWorld DEF WorldStep, HostKind

\* Every kind of step is a step of the host that its own module allows.
LEMMA WorldStepIsHostStep == Ground /\ World /\ WorldStep => [HostNext]_hostVars
<1> SUFFICES ASSUME Ground, World, WorldStep PROVE [HostNext]_hostVars
  OBVIOUS
<1> USE DEF HostNext, Resolver
<1>1. Hashes = Seqs /\ Seqs = 1..MaxPulses /\ MaxPulses \in Nat
      /\ HeadSeq \in Nat /\ HeadSeq <= MaxPulses
      /\ (HeadIsCommit => HeadSeq \in Seqs)
  BY BeaconAssumption, ChainFacts
<1>2. CASE QuietStep \/ SealStep
  BY <1>2 DEF QuietStep, SealStep
<1>3. CASE CommitKind
  BY <1>1, <1>3 DEF CommitKind, Room
<1>4. CASE AbortKind
  BY <1>4 DEF AbortKind
<1>5. CASE FinalizeKind
  BY <1>1, <1>5 DEF FinalizeKind
<1>6. CASE RevealKind
  BY <1>1, <1>6 DEF RevealKind
<1>7. CASE FailKind
  BY <1>1, <1>7 DEF FailKind
<1> QED BY <1>2, <1>3, <1>4, <1>5, <1>6, <1>7 DEF WorldStep, HostKind

-----------------------------------------------------------------------------
(* Every action is of one of these kinds                                   *)

\* The lemmas about the world apply wherever the invariant holds.
LEMMA Grounded == CycleInv => Ground
BY DEF CycleInv, GitOK, Control, Ground

\* Every action of the beacon is one of the kinds of step listed above.
LEMMA ActionKinds == CycleInv /\ [Next]_vars => WorldStep
<1> SUFFICES ASSUME CycleInv, [Next]_vars PROVE WorldStep
  OBVIOUS
<1>1. Ground /\ Control
  BY Grounded DEF CycleInv
<1>2. /\ HeadSeq \in Nat /\ pushed \in Nat /\ committed \in Nat /\ pushed <= committed
      /\ todo \subseteq Seqs /\ drawn \in Nat
  <2>1. GitOK /\ ProcessOK /\ HostTypeOK
    BY DEF CycleInv
  <2>2. drawn \in Nat
    BY <2>1 DEF HostTypeOK
  <2> QED BY <2>1, <2>2 DEF GitOK, ProcessOK
<1>3. Synced => pushed = HeadSeq
  BY <1>2 DEF Synced, Dirty, CycleInv, GitOK
<1>4. todo # {} => First \in todo /\ First \in Seqs
  BY <1>1, <1>2, FirstInTodo, SeqsAssumption DEF Control
<1>5. ASSUME hostVars' = hostVars, chain' = chain, pushed' = pushed \/ pushed' = committed
      PROVE  WorldStep
  BY <1>5, <1>2 DEF WorldStep, QuietStep
<1>6. SealStep \/ (HostKind /\ UNCHANGED <<chain, pushed>>) => WorldStep
  BY DEF WorldStep
<1>7. FetchAndSync \/ SealLitter \/ PushFails \/ UNCHANGED gitVars => chain' = chain /\ pushed' = pushed
  BY DEF FetchAndSync, SealLitter, PushFails, gitVars
<1>8. PushTakesEffect => chain' = chain /\ pushed' = committed
  BY DEF PushTakesEffect
<1>9. ASSUME NEW t \in Types, NEW e \in Nat, Sealable(t, e), Seal(t, e), UNCHANGED hostVars
      PROVE  WorldStep
  BY <1>6, <1>9 DEF SealStep, Seal
<1>10. \A s \in Seqs : draw[s] \in Nat
  BY <1>1 DEF Ground, HostTypeOK
<1>11. HeadIsCommit => HeadSeq \in Seqs
  BY <1>1, ChainFacts DEF CycleInv
<1>12. Room(2) => HeadSeq + 1 \in Seqs
  BY <1>1, <1>2, BeaconAssumption DEF Room
<1>13. ASSUME Start PROVE WorldStep
  BY <1>13, <1>5, <1>7 DEF Start, TimerStart, TickStart
<1>14. ASSUME Pull PROVE WorldStep
  BY <1>14, <1>5, <1>7 DEF Pull
<1>15. ASSUME CatchUp PROVE WorldStep
  BY <1>15, <1>5, <1>7 DEF CatchUp
<1>16. ASSUME PublishAdd PROVE WorldStep
  BY <1>16, <1>5, <1>7 DEF PublishAdd
<1>17. ASSUME PublishPush PROVE WorldStep
  BY <1>17, <1>5, <1>7, <1>8 DEF PublishPush
<1>18. ASSUME RecoverList PROVE WorldStep
  BY <1>18, <1>5, <1>7 DEF RecoverList
<1>19. ASSUME RollbackList \/ RetireDone \/ RetirePassOver PROVE WorldStep
  BY <1>19, <1>5, <1>7 DEF RollbackList, RetireDone, RetirePassOver
<1>20. ASSUME RetireAbandon PROVE WorldStep
  <2>1. UNCHANGED <<chain, pushed>> /\ (AbortKind \/ UNCHANGED hostVars)
    BY <1>20, <1>4, <1>7 DEF RetireAbandon, AbortKind
  <2> QED BY <2>1, <1>5, <1>6 DEF HostKind
<1>21. ASSUME RetireAborted PROVE WorldStep
  <2>1. UNCHANGED <<chain, pushed>> /\ (AbortKind \/ UNCHANGED hostVars)
    BY <1>21, <1>1, <1>4, <1>7 DEF RetireAborted, RetireFinalize, AbortKind, Control, At
  <2> QED BY <2>1, <1>5, <1>6 DEF HostKind
<1>22. ASSUME RetireResolved PROVE WorldStep
  <2>1. PICK j \in {First + 1} \cap 1..HeadSeq : chain[j].type \in Resolutions
    BY <1>22 DEF RetireResolved, Finishable, ResolverOf
  <2>2. First \in todo /\ First \in Seqs /\ j = First + 1 /\ First < HeadSeq
    BY <1>22, <1>4, <2>1 DEF RetireResolved, Finishable
  <2>3. pushed = HeadSeq
    BY <1>22, <1>1, <1>2, <2>2 DEF Control, RetireResolved, At
  <2>4. UNCHANGED <<chain, pushed>> /\ (FinalizeKind \/ UNCHANGED hostVars)
    BY <1>22, <1>7, <2>1, <2>2, <2>3 DEF RetireResolved, RetireFinalize, FinalizeKind
  <2> QED BY <2>4, <1>5, <1>6 DEF HostKind
<1>23. ASSUME CommitGate PROVE WorldStep
  BY <1>23, <1>5, <1>7 DEF CommitGate
<1>24. ASSUME CommitDraw PROVE WorldStep
  <2>1. UNCHANGED <<chain, pushed>> /\ (CommitKind \/ UNCHANGED hostVars)
    BY <1>24, <1>1, <1>7 DEF CommitDraw, CommitKind, Control, At
  <2> QED BY <2>1, <1>5, <1>6 DEF HostKind
<1>25. ASSUME CommitCollect PROVE WorldStep
  BY <1>25, <1>5, <1>7 DEF CommitCollect
<1>26. ASSUME CommitSeal PROVE WorldStep
  <2>1. ~HeadIsCommit /\ Room(2) /\ held[HeadSeq + 1] = "secret"
    BY <1>26, <1>1 DEF CommitSeal, Control, At
  <2>2. Sealable("commit", draw[HeadSeq + 1]) /\ draw[HeadSeq + 1] \in Nat /\ "commit" \in Types
    BY <2>1, <1>10, <1>12 DEF Sealable, Types
  <2>3. UNCHANGED hostVars /\ (Seal("commit", draw[HeadSeq + 1]) \/ SealLitter)
    BY <1>26 DEF CommitSeal
  <2> QED BY <2>2, <2>3, <1>5, <1>7, <1>9
<1>27. ASSUME SkipMint PROVE WorldStep
  <2>1. UNCHANGED hostVars /\ ((MaySkip /\ Seal("skip", 0)) \/ UNCHANGED gitVars \/ SealLitter)
    BY <1>27 DEF SkipMint
  <2>2. MaySkip => Sealable("skip", 0) /\ "skip" \in Types
    BY DEF MaySkip, Sealable, Types
  <2> QED BY <2>1, <2>2, <1>5, <1>7, <1>9
<1>28. ASSUME AwaitRound \/ FailGate PROVE WorldStep
  BY <1>28, <1>5, <1>7 DEF AwaitRound, FailGate
<1>29. ASSUME RevealGate PROVE WorldStep
  BY <1>29, <1>5, <1>7 DEF RevealGate
<1>30. ASSUME RevealAsk PROVE WorldStep
  <2>1. UNCHANGED <<chain, pushed>> /\ (RevealKind \/ UNCHANGED hostVars)
    BY <1>30, <1>1, <1>7 DEF RevealAsk, RevealKind, Control, At
  <2> QED BY <2>1, <1>5, <1>6 DEF HostKind
<1>31. ASSUME RevealSeal PROVE WorldStep
  <2>1. HeadIsCommit /\ held[HeadSeq] = "revealing"
    BY <1>31, <1>1 DEF RevealSeal, Control, At
  <2>2. Sealable("reveal", draw[HeadSeq]) /\ draw[HeadSeq] \in Nat /\ "reveal" \in Types
    BY <2>1, <1>10, <1>11 DEF Sealable, Types
  <2>3. UNCHANGED hostVars /\ (Seal("reveal", draw[HeadSeq]) \/ SealLitter)
    BY <1>31 DEF RevealSeal
  <2> QED BY <2>2, <2>3, <1>5, <1>7, <1>9
<1>32. ASSUME FailAbandon PROVE WorldStep
  <2>1. UNCHANGED <<chain, pushed>> /\ (FailKind \/ UNCHANGED hostVars)
    BY <1>32, <1>1, <1>7 DEF FailAbandon, FailKind, Control, At
  <2> QED BY <2>1, <1>5, <1>6 DEF HostKind
<1>33. ASSUME FailSeal PROVE WorldStep
  <2>1. HeadIsCommit /\ held[HeadSeq] = "abandoning"
    BY <1>33, <1>1 DEF FailSeal, Control, At
  <2>2. Sealable("failure", draw[HeadSeq]) /\ draw[HeadSeq] \in Nat /\ "failure" \in Types
    BY <2>1, <1>10, <1>11 DEF Sealable, Types
  <2>3. UNCHANGED hostVars /\ (Seal("failure", draw[HeadSeq]) \/ SealLitter)
    BY <1>33 DEF FailSeal
  <2> QED BY <2>2, <2>3, <1>5, <1>7, <1>9
<1>34. ASSUME FinalizeCall PROVE WorldStep
  <2>1. CASE MayFinalize
    <3>1. /\ pushed = HeadSeq /\ HeadSeq \in 1..HeadSeq /\ chain[HeadSeq].type \in Resolutions
      BY <2>1, <1>2, <1>3 DEF MayFinalize, HeadPulse, Pulse, Resolutions, HeadSeq
    <3>2. HeadSeq - 1 \in Seqs /\ (HeadSeq - 1) + 1 = HeadSeq
      BY <3>1, <1>1, <1>2, ChainFacts DEF CycleInv
    <3>3. UNCHANGED <<chain, pushed>> /\ (FinalizeKind \/ UNCHANGED hostVars)
      BY <1>34, <3>1, <3>2, <1>7 DEF FinalizeCall, FinalizeKind
    <3> QED BY <3>3, <1>5, <1>6 DEF HostKind
  <2>2. CASE ~MayFinalize
    BY <1>34, <2>2, <1>5, <1>7 DEF FinalizeCall
  <2> QED BY <2>1, <2>2
<1>35. ASSUME Crash PROVE WorldStep
  BY <1>35, <1>5, <1>7 DEF Crash
<1>36. ASSUME Tick \/ NewHour \/ OtherPush PROVE WorldStep
  BY <1>36, <1>5, <1>7 DEF Tick, NewHour, OtherPush
<1>37. ASSUME RoundOut PROVE WorldStep
  <2>1. drawn \in 1..drawn /\ Release(drawn) /\ UNCHANGED gitVars
    BY <1>37, <1>2 DEF RoundOut
  <2> QED BY <2>1, <1>6, <1>7 DEF HostKind
<1>38. ASSUME MirrorPush PROVE WorldStep
  BY <1>38, <1>5, <1>7, <1>8 DEF MirrorPush
<1>39. ASSUME UNCHANGED vars PROVE WorldStep
  BY <1>39, <1>5, <1>7 DEF vars, gitVars
<1> QED
  BY <1>13, <1>14, <1>15, <1>16, <1>17, <1>18, <1>19, <1>20, <1>21, <1>22, <1>23, <1>24,
     <1>25, <1>26, <1>27, <1>28, <1>29, <1>30, <1>31, <1>32, <1>33, <1>34, <1>35, <1>36,
     <1>37, <1>38, <1>39 DEF Next, Cycle, Recover, Environment

-----------------------------------------------------------------------------
(* Types and control are preserved                                         *)

\* The clock stays, the fault counter stays in its range.
Steady == phase' = phase /\ faults' \in 0..MaxFaults

\* Every way of moving on leaves the process well typed.
LEMMA Moves ==
  ASSUME ProcessOK, Steady
  PROVE  /\ \A l \in Labels : Goto(l) => ProcessOK'
         /\ \A l \in Labels, j \in Jobs : GotoFor(l, j) => ProcessOK'
         /\ Exit => ProcessOK'
         /\ \A l \in Labels : Proceed(l) => ProcessOK'
         /\ Unhandled => ProcessOK'
<1>1. ASSUME NEW l \in Labels, Goto(l) PROVE ProcessOK'
  BY <1>1 DEF Goto, Steady, ProcessOK
<1>2. ASSUME NEW l \in Labels, NEW j \in Jobs, GotoFor(l, j) PROVE ProcessOK'
  BY <1>2 DEF GotoFor, Steady, ProcessOK
<1>3. "idle" \in Labels /\ "fail" \in Labels /\ "none" \in Jobs
  BY DEF Labels, Jobs
<1>4. ASSUME Exit PROVE ProcessOK'
  BY <1>3, <1>4 DEF Exit, Steady, ProcessOK
<1>5. ASSUME NEW l \in Labels, Proceed(l) PROVE ProcessOK'
  BY <1>3, <1>5 DEF Proceed, Steady, ProcessOK
<1> QED BY <1>1, <1>2, <1>3, <1>4, <1>5 DEF Unhandled

\* The cycle process keeps its type.
LEMMA ProcessTyped == CycleInv /\ [Next]_vars => ProcessOK'
<1> SUFFICES ASSUME CycleInv, [Next]_vars PROVE ProcessOK'
  OBVIOUS
<1>1. ProcessOK
  BY DEF CycleInv
<1>2. /\ Labels = {"idle", "pull", "catchup", "add", "push", "recover", "rollback",
                   "retire", "retire0", "commit", "draw", "collect", "seal", "skip",
                   "await", "reveal", "ask", "attest", "fail", "abandon", "sealfail",
                   "finalize"}
      /\ Jobs = {"none", "catchup", "commit", "reveal", "failure", "skip", "recover",
                 "rollback"}
  BY DEF Labels, Jobs
<1>3. Fault \/ NoFault => faults' \in 0..MaxFaults
  BY <1>1, BeaconAssumption DEF Fault, NoFault, ProcessOK
<1>4. ASSUME phase' = phase, Fault \/ NoFault PROVE Steady
  BY <1>3, <1>4 DEF Steady
<1>5. ASSUME TimerStart PROVE ProcessOK'
  BY <1>5, <1>1, <1>2, <1>3 DEF TimerStart, cycleVars, ProcessOK
<1>6. ASSUME TickStart PROVE ProcessOK'
  BY <1>6, <1>1, <1>2, <1>3 DEF TickStart, cycleVars, ProcessOK
<1>7. ASSUME Pull PROVE ProcessOK'
  BY <1>7, <1>1, <1>2, <1>4, Moves DEF Pull
<1>8. ASSUME CatchUp PROVE ProcessOK'
  BY <1>8, <1>1, <1>2, <1>4, Moves DEF CatchUp
<1>9. ASSUME PublishAdd PROVE ProcessOK'
  BY <1>9, <1>1, <1>2, <1>4, Moves DEF PublishAdd, Published, PublishRaised
<1>10. ASSUME PublishPush PROVE ProcessOK'
  BY <1>10, <1>1, <1>2, <1>4, Moves DEF PublishPush, Published, PublishRaised
<1>11. ASSUME RecoverList PROVE ProcessOK'
  BY <1>11, <1>1, <1>2, <1>3 DEF RecoverList, SyncDies, Goto, Pending, ProcessOK
<1>12. ASSUME RollbackList PROVE ProcessOK'
  BY <1>12, <1>1, <1>2, <1>3 DEF RollbackList, Goto, Pending, ProcessOK
<1>13. ASSUME RetireDone PROVE ProcessOK'
  BY <1>13, <1>1, <1>2, <1>4, Moves DEF RetireDone, AfterRetire
<1>14. ASSUME RetireAbandon PROVE ProcessOK'
  BY <1>14, <1>1, <1>2, <1>4, Moves DEF RetireAbandon
<1>15. ASSUME RetireAborted PROVE ProcessOK'
  BY <1>15, <1>1, <1>2, <1>3 DEF RetireAborted, RetireFinalize, Goto, Pending, ProcessOK
<1>16. ASSUME RetireResolved PROVE ProcessOK'
  BY <1>16, <1>1, <1>2, <1>3 DEF RetireResolved, RetireFinalize, Goto, Pending, ProcessOK
<1>17. ASSUME RetirePassOver PROVE ProcessOK'
  BY <1>17, <1>1, <1>2, <1>3 DEF RetirePassOver, Goto, Pending, ProcessOK
<1>18. ASSUME CommitGate PROVE ProcessOK'
  BY <1>18, <1>1, <1>2, <1>3 DEF CommitGate, SyncDies, Goto, ProcessOK, PhaseOrder
<1>19. ASSUME CommitDraw PROVE ProcessOK'
  BY <1>19, <1>1, <1>2, <1>4, Moves DEF CommitDraw
<1>20. ASSUME CommitCollect PROVE ProcessOK'
  BY <1>20, <1>1, <1>2, <1>4, Moves DEF CommitCollect
<1>21. ASSUME CommitSeal PROVE ProcessOK'
  BY <1>21, <1>1, <1>2, <1>4, Moves DEF CommitSeal
<1>22. ASSUME SkipMint PROVE ProcessOK'
  BY <1>22, <1>1, <1>2, <1>4, Moves DEF SkipMint
<1>23. ASSUME AwaitRound PROVE ProcessOK'
  BY <1>23, <1>1, <1>2, <1>4, Moves DEF AwaitRound
<1>24. ASSUME RevealGate PROVE ProcessOK'
  BY <1>24, <1>1, <1>2, <1>4, Moves DEF RevealGate, SyncDies
<1>25. ASSUME RevealAsk PROVE ProcessOK'
  BY <1>25, <1>1, <1>2, <1>4, Moves DEF RevealAsk
<1>26. ASSUME RevealSeal PROVE ProcessOK'
  BY <1>26, <1>1, <1>2, <1>4, Moves DEF RevealSeal
<1>27. ASSUME FailGate PROVE ProcessOK'
  BY <1>27, <1>1, <1>2, <1>4, Moves DEF FailGate, SyncDies
<1>28. ASSUME FailAbandon PROVE ProcessOK'
  BY <1>28, <1>1, <1>2, <1>4, Moves DEF FailAbandon
<1>29. ASSUME FailSeal PROVE ProcessOK'
  BY <1>29, <1>1, <1>2, <1>4, Moves DEF FailSeal
<1>30. ASSUME FinalizeCall PROVE ProcessOK'
  BY <1>30, <1>1, <1>2, <1>4, Moves DEF FinalizeCall
<1>31. ASSUME Crash PROVE ProcessOK'
  BY <1>31, <1>1, <1>2, <1>4, Moves DEF Crash
<1>32. ASSUME Tick PROVE ProcessOK'
  BY <1>32, <1>1 DEF Tick, cycleVars, ProcessOK
<1>33. ASSUME RoundOut PROVE ProcessOK'
  BY <1>33, <1>1, <1>2, <1>3 DEF RoundOut, cycleVars, ProcessOK
<1>34. ASSUME NewHour PROVE ProcessOK'
  BY <1>34, <1>1, <1>2, <1>3 DEF NewHour, cycleVars, ProcessOK
<1>35. ASSUME OtherPush PROVE ProcessOK'
  BY <1>35, <1>1, <1>2, <1>3 DEF OtherPush, cycleVars, ProcessOK
<1>36. ASSUME MirrorPush PROVE ProcessOK'
  BY <1>36, <1>1, <1>2, <1>3 DEF MirrorPush, cycleVars, ProcessOK
<1>37. ASSUME UNCHANGED vars PROVE ProcessOK'
  BY <1>37, <1>1 DEF vars, cycleVars, ProcessOK
<1> QED
  BY <1>5, <1>6, <1>7, <1>8, <1>9, <1>10, <1>11, <1>12, <1>13, <1>14, <1>15, <1>16,
     <1>17, <1>18, <1>19, <1>20, <1>21, <1>22, <1>23, <1>24, <1>25, <1>26, <1>27,
     <1>28, <1>29, <1>30, <1>31, <1>32, <1>33, <1>34, <1>35, <1>36, <1>37
     DEF Next, Start, Cycle, Recover, Environment

\* The chain stays a chain within its bound and never loses a pulse.
LEMMA ChainTyped ==
  ASSUME Ground, World, WorldStep
  PROVE  /\ chain' \in Seq(PulseSet) /\ HeadSeq' \in 0..MaxPulses /\ HeadSeq <= HeadSeq'
         /\ HeadIsCommit' => Room(1)'
<1>1. HeadSeq \in Nat /\ HeadSeq <= MaxPulses /\ MaxPulses \in Nat /\ (HeadIsCommit => Room(1))
  BY BeaconAssumption, ChainFacts DEF Ground
<1>2. CASE chain' = chain
  BY <1>1, <1>2 DEF Ground, HeadSeq, HeadIsCommit, HeadPulse, Room
<1>3. CASE SealStep
  <2>1. PICK t \in Types, e \in Nat : Sealable(t, e) /\ chain' = Append(chain, Pulse(t, e))
    BY <1>3 DEF SealStep
  <2>2. /\ chain' \in Seq(PulseSet) /\ HeadSeq' = HeadSeq + 1 /\ HeadPulse' = Pulse(t, e)
    BY <2>1, SealAppends DEF Ground
  <2>3. HeadSeq + 1 <= MaxPulses /\ (t = "commit" => HeadSeq + 2 <= MaxPulses)
    BY <2>1, <1>1 DEF Sealable, Room
  <2> QED BY <2>2, <2>3, <1>1 DEF HeadIsCommit, Pulse, Room
<1> QED BY <1>2, <1>3 DEF WorldStep, QuietStep

\* The checkout and the published branch keep their types and their order.
LEMMA GitTyped == CycleInv /\ [Next]_vars => GitOK'
<1> SUFFICES ASSUME CycleInv, [Next]_vars PROVE GitOK'
  OBVIOUS
<1>1. /\ chain' \in Seq(PulseSet) /\ HeadSeq' \in 0..MaxPulses /\ HeadSeq <= HeadSeq'
      /\ GitOK /\ HeadSeq \in Nat /\ Seqs = 1..MaxPulses /\ MaxPulses \in Nat
  BY Grounded, ActionKinds, ChainTyped, BeaconAssumption DEF CycleInv, GitOK
<1>2. ASSUME committed' = committed, pushed' = pushed, ahead' = ahead, late' = late,
             behind' \in BOOLEAN, litter' \in BOOLEAN
      PROVE  GitOK'
  BY <1>1, <1>2 DEF GitOK
<1>3. ASSUME FetchAndSync \/ SealLitter \/ PushFails \/ UNCHANGED gitVars PROVE GitOK'
  BY <1>1, <1>2, <1>3 DEF FetchAndSync, SealLitter, PushFails, gitVars, GitOK
<1>4. ASSUME NEW t, NEW e, Seal(t, e) PROVE GitOK'
  BY <1>1, <1>2, <1>4 DEF Seal, GitOK
<1>5. ASSUME PushTakesEffect PROVE GitOK'
  <2>1. /\ pushed \in 0..committed /\ committed \in 0..HeadSeq /\ late \subseteq Seqs
        /\ litter \in BOOLEAN /\ HeadSeq <= MaxPulses
    BY <1>1 DEF GitOK
  <2>2. {i \in pushed+1..committed : LateNow(i)} \subseteq Seqs
    BY <1>1, <2>1
  <2>3. late' \subseteq Seqs
    BY <1>5, <2>1, <2>2 DEF PushTakesEffect
  <2>4. /\ pushed' = committed /\ committed' = committed
        /\ ahead' = FALSE /\ behind' = FALSE /\ litter' = litter
    BY <1>5 DEF PushTakesEffect
  <2>5. pushed' \in 0..committed' /\ committed' \in 0..HeadSeq' /\ (~ahead' => pushed' = committed')
    BY <1>1, <2>1, <2>4
  <2> QED BY <1>1, <2>1, <2>3, <2>4, <2>5 DEF GitOK
<1>6. ASSUME TimerStart PROVE GitOK'
  BY <1>6, <1>3, <1>4, <1>5 DEF TimerStart
<1>7. ASSUME TickStart PROVE GitOK'
  BY <1>7, <1>3, <1>4, <1>5 DEF TickStart
<1>8. ASSUME CatchUp PROVE GitOK'
  BY <1>8, <1>3, <1>4, <1>5 DEF CatchUp
<1>9. ASSUME PublishPush PROVE GitOK'
  BY <1>9, <1>3, <1>4, <1>5 DEF PublishPush
<1>10. ASSUME RecoverList PROVE GitOK'
  BY <1>10, <1>3, <1>4, <1>5 DEF RecoverList
<1>11. ASSUME RollbackList PROVE GitOK'
  BY <1>11, <1>3, <1>4, <1>5 DEF RollbackList
<1>12. ASSUME RetireDone PROVE GitOK'
  BY <1>12, <1>3, <1>4, <1>5 DEF RetireDone
<1>13. ASSUME RetireAbandon PROVE GitOK'
  BY <1>13, <1>3, <1>4, <1>5 DEF RetireAbandon
<1>14. ASSUME RetireAborted PROVE GitOK'
  BY <1>14, <1>3, <1>4, <1>5 DEF RetireAborted, RetireFinalize
<1>15. ASSUME RetireResolved PROVE GitOK'
  BY <1>15, <1>3, <1>4, <1>5 DEF RetireResolved, RetireFinalize
<1>16. ASSUME RetirePassOver PROVE GitOK'
  BY <1>16, <1>3, <1>4, <1>5 DEF RetirePassOver
<1>17. ASSUME CommitGate PROVE GitOK'
  BY <1>17, <1>3, <1>4, <1>5 DEF CommitGate
<1>18. ASSUME CommitDraw PROVE GitOK'
  BY <1>18, <1>3, <1>4, <1>5 DEF CommitDraw
<1>19. ASSUME CommitCollect PROVE GitOK'
  BY <1>19, <1>3, <1>4, <1>5 DEF CommitCollect
<1>20. ASSUME CommitSeal PROVE GitOK'
  BY <1>20, <1>3, <1>4, <1>5 DEF CommitSeal
<1>21. ASSUME SkipMint PROVE GitOK'
  BY <1>21, <1>3, <1>4, <1>5 DEF SkipMint
<1>22. ASSUME AwaitRound PROVE GitOK'
  BY <1>22, <1>3, <1>4, <1>5 DEF AwaitRound
<1>23. ASSUME RevealGate PROVE GitOK'
  BY <1>23, <1>3, <1>4, <1>5 DEF RevealGate
<1>24. ASSUME RevealAsk PROVE GitOK'
  BY <1>24, <1>3, <1>4, <1>5 DEF RevealAsk
<1>25. ASSUME RevealSeal PROVE GitOK'
  BY <1>25, <1>3, <1>4, <1>5 DEF RevealSeal
<1>26. ASSUME FailGate PROVE GitOK'
  BY <1>26, <1>3, <1>4, <1>5 DEF FailGate
<1>27. ASSUME FailAbandon PROVE GitOK'
  BY <1>27, <1>3, <1>4, <1>5 DEF FailAbandon
<1>28. ASSUME FailSeal PROVE GitOK'
  BY <1>28, <1>3, <1>4, <1>5 DEF FailSeal
<1>29. ASSUME FinalizeCall PROVE GitOK'
  BY <1>29, <1>3, <1>4, <1>5 DEF FinalizeCall
<1>30. ASSUME Crash PROVE GitOK'
  BY <1>30, <1>3, <1>4, <1>5 DEF Crash
<1>31. ASSUME Tick PROVE GitOK'
  BY <1>31, <1>3, <1>4, <1>5 DEF Tick
<1>32. ASSUME RoundOut PROVE GitOK'
  BY <1>32, <1>3, <1>4, <1>5 DEF RoundOut
<1>33. ASSUME NewHour PROVE GitOK'
  BY <1>33, <1>3, <1>4, <1>5 DEF NewHour
<1>34. ASSUME Pull PROVE GitOK'
  BY <1>34, <1>1, <1>3, <1>5 DEF Pull, GitOK, HeadSeq
<1>35. ASSUME PublishAdd PROVE GitOK'
  <2>1. CASE committed' = HeadSeq /\ litter' = FALSE /\ ahead' = TRUE
             /\ UNCHANGED <<chain, pushed, behind, late>>
    <3>1. HeadSeq' = HeadSeq
      BY <2>1 DEF HeadSeq
    <3>2. pushed' \in 0..committed' /\ committed' \in 0..HeadSeq'
      BY <1>1, <2>1, <3>1 DEF GitOK
    <3> QED BY <1>1, <2>1, <3>2 DEF GitOK
  <2> QED BY <1>35, <1>3, <2>1 DEF PublishAdd
<1>36. ASSUME OtherPush PROVE GitOK'
  BY <1>36, <1>1, <1>3, <1>5 DEF OtherPush, GitOK, HeadSeq
<1>37. ASSUME MirrorPush PROVE GitOK'
  BY <1>37, <1>1, <1>3, <1>5 DEF MirrorPush, GitOK, HeadSeq
<1>38. ASSUME UNCHANGED vars PROVE GitOK'
  BY <1>38, <1>3 DEF vars
<1> QED
  BY <1>6, <1>7, <1>8, <1>9, <1>10, <1>11, <1>12, <1>13, <1>14, <1>15, <1>16, <1>17,
     <1>18, <1>19, <1>20, <1>21, <1>22, <1>23, <1>24, <1>25, <1>26, <1>27, <1>28,
     <1>29, <1>30, <1>31, <1>32, <1>33, <1>34, <1>35, <1>36, <1>37, <1>38
     DEF Next, Start, Cycle, Recover, Environment

\* Places the cycle may reach whatever the chain looks like.
Anywhere == {"idle", "pull", "catchup", "recover", "rollback", "skip", "reveal",
             "fail", "finalize"}

\* Moving there, or on to publish something that is not a commit, is safe.
LEMMA CalmMoves ==
  ASSUME CycleInv, [Next]_vars, todo' \subseteq todo,
         \/ pc' \in Anywhere
         \/ pc' \in {"add", "push"} /\ (job' = "commit" => HeadIsCommit')
  PROVE  Control'
<1>1. HeadIsCommit' => Room(1)'
  BY Grounded, ActionKinds, ChainTyped DEF CycleInv
<1>2. \A s, t \in todo : s = t
  BY DEF CycleInv, Control
<1>3. pc' \notin {"commit", "draw", "collect", "seal", "await", "ask", "attest", "abandon",
                  "sealfail", "retire", "retire0"}
  BY DEF Anywhere
<1>4. pc' \in {"add", "push"} /\ job' = "commit" => HeadIsCommit'
  BY DEF Anywhere
<1>5. \A s, t \in todo' : s = t
  BY <1>2
<1> QED BY <1>1, <1>3, <1>4, <1>5 DEF Control

\* A step beside the cycle process leaves its place as good as it was.
LEMMA AsideMoves ==
  ASSUME Control, UNCHANGED <<chain, held, pc, job, todo>>, pushed = HeadSeq => pushed' = HeadSeq
  PROVE  Control'
BY DEF Control, HeadIsCommit, HeadPulse, HeadSeq, Room, Unpublished, First

\* What holds at each place of the cycle process is kept by every step.
LEMMA ControlKept == CycleInv /\ [Next]_vars => Control'
<1> SUFFICES ASSUME CycleInv, [Next]_vars PROVE Control'
  OBVIOUS
<1>1. Control /\ Ground /\ GitOK /\ ProcessOK
  BY Grounded DEF CycleInv
<1>2. Room(1)' \/ ~HeadIsCommit'
  BY <1>1, ActionKinds, ChainTyped DEF CycleInv
<1>3. ASSUME NEW l \in Anywhere, Goto(l) PROVE Control'
  BY <1>3, CalmMoves DEF Goto
<1>4. ASSUME Exit PROVE Control'
  BY <1>4, CalmMoves DEF Exit, Anywhere
<1>5. ASSUME NEW j, GotoFor("add", j), j = "commit" => HeadIsCommit' PROVE Control'
  BY <1>5, CalmMoves DEF GotoFor
<1>6. ASSUME Unhandled PROVE Control'
  BY <1>3, <1>4, <1>6 DEF Unhandled, Anywhere
<1>7. ASSUME PublishRaised PROVE Control'
  BY <1>3, <1>4, <1>6, <1>7 DEF PublishRaised, Anywhere
<1>8. /\ \A l \in {"recover", "fail", "skip", "rollback", "reveal", "finalize"} : l \in Anywhere
      /\ "idle" \in Anywhere /\ "pull" \in Anywhere
  BY DEF Anywhere
<1>9. FetchAndSync \/ SealLitter \/ PushFails \/ UNCHANGED gitVars \/ PushTakesEffect => chain' = chain
  BY DEF FetchAndSync, SealLitter, PushFails, gitVars, PushTakesEffect
<1>10. chain' = chain => /\ HeadSeq' = HeadSeq /\ HeadIsCommit' = HeadIsCommit
                         /\ Room(2)' = Room(2)
  BY DEF HeadIsCommit, HeadPulse, HeadSeq, Room
<1>11. Synced => pushed = HeadSeq
  BY <1>1, ChainFacts DEF Synced, Dirty, CycleInv, GitOK
<1>12. ASSUME TimerStart \/ TickStart PROVE Control'
  BY <1>12, <1>8, CalmMoves DEF TimerStart, TickStart
<1>13. ASSUME Pull PROVE Control'
  <2>1. Goto("catchup") \/ Unhandled
    BY <1>13 DEF Pull
  <2> QED BY <2>1, <1>3, <1>6 DEF Anywhere
<1>14. ASSUME CatchUp PROVE Control'
  BY <1>14, <1>3, <1>5, <1>8 DEF CatchUp
<1>15. ASSUME Published, chain' = chain, pc \in {"add", "push"} PROVE Control'
  <2>1. CASE job = "commit" /\ phase = "ample"
    <3>1. HeadIsCommit' /\ pc' = "await" /\ todo' = todo
      BY <1>1, <1>10, <1>15, <2>1 DEF Control, Published, Goto
    <3> QED BY <3>1, <1>1, <1>2 DEF Control
  <2>2. CASE ~(job = "commit" /\ phase = "ample")
    <3>1. Goto("recover") \/ Goto("fail") \/ Goto("finalize") \/ Exit
      BY <1>15, <2>2 DEF Published
    <3> QED BY <3>1, <1>3, <1>4, <1>8
  <2> QED BY <2>1, <2>2
<1>16. ASSUME PublishAdd PROVE Control'
  <2>1. CASE Goto("push") /\ chain' = chain
    BY <1>1, <1>10, <1>16, <2>1, CalmMoves DEF Control, Goto, PublishAdd, At
  <2>2. CASE Published /\ UNCHANGED gitVars
    BY <1>9, <1>15, <1>16, <2>2 DEF PublishAdd, At
  <2> QED BY <1>7, <1>16, <2>1, <2>2 DEF PublishAdd
<1>17. ASSUME PublishPush PROVE Control'
  BY <1>7, <1>9, <1>15, <1>17 DEF PublishPush, At
<1>18. ASSUME RecoverList PROVE Control'
  <2>1. CASE Synced /\ FetchAndSync /\ pc' = "retire" /\ job' = "recover" /\ todo' = Pending
    <3>1. \A s, t \in todo' : s = t
      BY <2>1 DEF CycleInv, HostInv, OneSecretHeld
    <3>2. pushed' = HeadSeq'
      BY <2>1, <1>9, <1>10, <1>11 DEF FetchAndSync
    <3> QED BY <2>1, <3>1, <3>2, <1>2 DEF Control
  <2> QED BY <1>18, <2>1, <1>3, <1>8 DEF RecoverList
<1>19. ASSUME RollbackList PROVE Control'
  <2>1. CASE /\ pc' = "retire" /\ job' = "rollback" /\ UNCHANGED gitVars
             /\ todo' = {s \in {HeadSeq + 1} \cap Pending : held[s] \in {"secret", "abandoning"}}
    <3>1. HeadSeq' = HeadSeq
      BY <2>1, <1>9, <1>10
    <3> QED BY <2>1, <3>1, <1>2 DEF Control
  <2> QED BY <1>19, <2>1, <1>3, <1>8 DEF RollbackList
<1>20. ASSUME NEW l \in {"await", "commit"}, Proceed(l), chain' = chain,
              l = "await" => HeadIsCommit, l = "commit" => ~HeadIsCommit /\ Room(2)
       PROVE  Control'
  <2>1. todo' = {} /\ job' = "none" /\ pc' \in {"idle", l}
    BY <1>20 DEF Proceed
  <2> QED BY <2>1, <1>2, <1>10, <1>20 DEF Control
<1>21. ASSUME RetireDone PROVE Control'
  <2>1. chain' = chain
    BY <1>21, <1>9 DEF RetireDone
  <2>2. \/ Goto("skip") \/ Exit
        \/ HeadIsCommit /\ Proceed("await")
        \/ ~HeadIsCommit /\ Room(2) /\ Proceed("commit")
    BY <1>21 DEF RetireDone, AfterRetire
  <2> QED BY <2>1, <2>2, <1>3, <1>4, <1>8, <1>20
<1>22. ASSUME RetireAbandon PROVE Control'
  <2>1. CASE Goto("retire0")
    <3>1. chain' = chain /\ pushed' = pushed /\ todo' = todo /\ pc' = "retire0"
      BY <1>22, <2>1 DEF RetireAbandon, gitVars, Goto
    <3>2. pc = "retire" /\ todo # {} /\ Unpublished(First)
      BY <1>22 DEF RetireAbandon, At
    <3>3. Unpublished(First)'
      BY <3>1, <3>2 DEF Unpublished, First, HeadIsCommit, HeadPulse, HeadSeq
    <3> QED BY <3>1, <3>2, <3>3, <1>1, <1>2, <1>10 DEF Control
  <2> QED BY <1>22, <2>1, <1>3, <1>8 DEF RetireAbandon
<1>23. ASSUME NEW r, RetireFinalize(r), pc \in {"retire", "retire0"} PROVE Control'
  <2>1. CASE pc' = "retire" /\ todo' = todo \ {First} /\ UNCHANGED gitVars
    <3>1. chain' = chain /\ pushed' = pushed
      BY <2>1 DEF gitVars
    <3> QED BY <1>23, <2>1, <3>1, <1>1, <1>2, <1>10 DEF Control
  <2> QED BY <1>23, <2>1, <1>3, <1>8 DEF RetireFinalize
<1>24. ASSUME RetireAborted \/ RetireResolved PROVE Control'
  BY <1>23, <1>24 DEF RetireAborted, RetireResolved, At
<1>25. ASSUME RetirePassOver PROVE Control'
  <2>1. /\ pc = "retire" /\ pc' = "retire" /\ todo' = todo \ {First}
        /\ chain' = chain /\ pushed' = pushed
    BY <1>25 DEF RetirePassOver, gitVars, At
  <2> QED BY <2>1, <1>1, <1>2, <1>10 DEF Control
<1>26. ASSUME CommitGate PROVE Control'
  <2>1. CASE ~HeadIsCommit /\ Goto("draw")
    <3>1. chain' = chain /\ pc' = "draw" /\ todo' = todo /\ pc = "commit"
      BY <1>26, <2>1, <1>9 DEF CommitGate, Goto, At
    <3> QED BY <2>1, <3>1, <1>1, <1>2, <1>10 DEF Control
  <2> QED BY <1>26, <2>1, <1>3, <1>8 DEF CommitGate
<1>27. ASSUME CommitDraw PROVE Control'
  <2>1. CASE Commit(HeadSeq + 1) /\ Goto("collect") /\ UNCHANGED gitVars
    <3>1. chain' = chain /\ pc' = "collect" /\ todo' = todo /\ pc = "draw"
      BY <1>27, <2>1, <1>9 DEF CommitDraw, Goto, At
    <3>2. ~HeadIsCommit /\ Room(2) /\ HeadSeq + 1 \in Seqs
      BY <3>1, <1>1, BeaconAssumption, ChainFacts DEF Control, Room, CycleInv
    <3>3. held'[HeadSeq + 1] = "secret"
      BY <2>1, <3>2 DEF Commit, CycleInv, HostTypeOK
    <3> QED BY <3>1, <3>2, <3>3, <1>1, <1>2, <1>10 DEF Control
  <2> QED BY <1>27, <2>1, <1>3, <1>8 DEF CommitDraw
<1>28. ASSUME CommitCollect PROVE Control'
  <2>1. CASE Goto("seal") /\ UNCHANGED <<hostVars, gitVars>>
    <3>1. /\ chain' = chain /\ pc' = "seal" /\ todo' = todo /\ pc = "collect" /\ held' = held
      BY <1>28, <2>1, <1>9 DEF CommitCollect, Goto, At, hostVars
    <3> QED BY <3>1, <1>1, <1>2, <1>10 DEF Control
  <2> QED BY <1>28, <2>1, <1>3, <1>8 DEF CommitCollect
<1>29. ASSUME CommitSeal PROVE Control'
  <2>1. CASE Seal("commit", draw[HeadSeq + 1]) /\ GotoFor("add", "commit")
    <3>1. HeadSeq + 1 \in Seqs
      BY <1>29, <1>1, BeaconAssumption, ChainFacts DEF CommitSeal, Control, At, Room, CycleInv
    <3>2. draw[HeadSeq + 1] \in Nat /\ "commit" \in Types
      BY <3>1 DEF CycleInv, HostTypeOK, Types
    <3>3. HeadPulse' = Pulse("commit", draw[HeadSeq + 1])
      BY <2>1, <3>2, <1>1, SealAppends DEF Seal, Ground
    <3>4. HeadIsCommit'
      BY <3>3 DEF HeadIsCommit, Pulse
    <3> QED BY <2>1, <3>4, <1>5
  <2> QED BY <1>29, <2>1, <1>3, <1>8 DEF CommitSeal
<1>30. ASSUME SkipMint PROVE Control'
  BY <1>30, <1>4, <1>5 DEF SkipMint
<1>31. ASSUME AwaitRound PROVE Control'
  BY <1>31, <1>3, <1>8 DEF AwaitRound
<1>32. ASSUME RevealGate PROVE Control'
  <2>1. CASE Synced /\ HeadIsCommit /\ FetchAndSync /\ Goto("ask")
    <3>1. chain' = chain /\ pushed' = pushed /\ pc' = "ask" /\ todo' = todo
      BY <2>1, <1>9 DEF Goto, FetchAndSync
    <3> QED BY <2>1, <3>1, <1>1, <1>2, <1>10, <1>11 DEF Control
  <2> QED BY <1>32, <2>1, <1>3, <1>8 DEF RevealGate
<1>33. ASSUME RevealAsk PROVE Control'
  <2>1. CASE RevealPrepare(HeadSeq, HeadSeq) /\ Goto("attest") /\ UNCHANGED gitVars
    <3>1. chain' = chain /\ pc' = "attest" /\ todo' = todo /\ pc = "ask"
      BY <1>33, <2>1, <1>9 DEF RevealAsk, Goto, At
    <3>2. HeadIsCommit /\ HeadSeq \in Seqs
      BY <3>1, <1>1, ChainFacts DEF Control, CycleInv
    <3>3. held'[HeadSeq] = "revealing"
      BY <2>1, <3>2 DEF RevealPrepare, CycleInv, HostTypeOK
    <3> QED BY <3>1, <3>2, <3>3, <1>1, <1>2, <1>10 DEF Control
  <2> QED BY <1>33, <2>1, <1>3, <1>8 DEF RevealAsk
<1>34. ASSUME RevealSeal PROVE Control'
  BY <1>34, <1>3, <1>5, <1>8 DEF RevealSeal
<1>35. ASSUME FailGate PROVE Control'
  <2>1. CASE HeadIsCommit /\ FetchAndSync /\ Goto("abandon")
    <3>1. chain' = chain /\ pc' = "abandon" /\ todo' = todo
      BY <2>1, <1>9 DEF Goto
    <3> QED BY <2>1, <3>1, <1>1, <1>2, <1>10 DEF Control
  <2> QED BY <1>35, <2>1, <1>5 DEF FailGate
<1>36. ASSUME FailAbandon PROVE Control'
  <2>1. CASE AbandonPrepare(HeadSeq, HeadSeq) /\ Goto("sealfail") /\ UNCHANGED gitVars
    <3>1. chain' = chain /\ pc' = "sealfail" /\ todo' = todo /\ pc = "abandon"
      BY <1>36, <2>1, <1>9 DEF FailAbandon, Goto, At
    <3>2. HeadIsCommit /\ HeadSeq \in Seqs
      BY <3>1, <1>1, ChainFacts DEF Control, CycleInv
    <3>3. held'[HeadSeq] = "abandoning"
      BY <2>1, <3>2 DEF AbandonPrepare, CycleInv, HostTypeOK
    <3> QED BY <3>1, <3>2, <3>3, <1>1, <1>2, <1>10 DEF Control
  <2> QED BY <1>36, <2>1, <1>5 DEF FailAbandon
<1>37. ASSUME FailSeal PROVE Control'
  BY <1>37, <1>5 DEF FailSeal
<1>38. ASSUME FinalizeCall \/ Crash PROVE Control'
  BY <1>38, <1>4 DEF FinalizeCall, Crash
<1>39. ASSUME Tick \/ NewHour \/ OtherPush \/ RoundOut PROVE Control'
  BY <1>39, <1>1, AsideMoves DEF Tick, NewHour, OtherPush, RoundOut, Release, hostVars, gitVars, cycleVars
<1>40. ASSUME MirrorPush PROVE Control'
  <2>1. pushed' = pushed \/ pushed' = committed
    BY <1>40 DEF MirrorPush, PushTakesEffect
  <2>2. pushed = HeadSeq => pushed' = HeadSeq
    <3>1. pushed \in 0 .. committed /\ committed \in 0 .. HeadSeq /\ HeadSeq \in Nat
      BY <1>1, ChainFacts DEF CycleInv, GitOK
    <3> QED BY <2>1, <3>1
  <2>3. UNCHANGED <<chain, held, pc, job, todo>>
    BY <1>40 DEF MirrorPush, PushTakesEffect, hostVars, cycleVars
  <2> QED BY <1>1, <2>2, <2>3, AsideMoves
<1>41. ASSUME UNCHANGED vars PROVE Control'
  BY <1>41, <1>1, AsideMoves DEF vars, hostVars, gitVars, cycleVars
<1> QED
  BY <1>12, <1>13, <1>14, <1>16, <1>17, <1>18, <1>19, <1>21, <1>22, <1>24, <1>25, <1>26, <1>27,
     <1>28, <1>29, <1>30, <1>31, <1>32, <1>33, <1>34, <1>35, <1>36, <1>37, <1>38, <1>39,
     <1>40, <1>41
     DEF Next, Start, Cycle, Recover, Environment

-----------------------------------------------------------------------------
(* The invariant and what it says                                          *)

\* The beacon starts with an empty chain and an empty host.
LEMMA CycleInvInitially == Init => CycleInv
<1> SUFFICES ASSUME Init PROVE CycleInv
  OBVIOUS
<1>1. HostTypeOK /\ HostInv
  BY HostTypeInitially, HostInvInitially DEF Init
<1>2. chain \in Seq(PulseSet) /\ HeadSeq = 0 /\ MaxPulses \in Nat /\ MaxFaults \in Nat
  BY BeaconAssumption DEF Init, HeadSeq
<1>3. GitOK
  <2>1. /\ pushed = 0 /\ committed = 0 /\ late = {}
        /\ ahead = FALSE /\ behind = FALSE /\ litter = FALSE
    BY DEF Init
  <2>2. {ahead, behind, litter} \subseteq BOOLEAN /\ late \subseteq Seqs
    BY <2>1
  <2>3. /\ pushed \in 0..committed /\ committed \in 0..HeadSeq /\ HeadSeq \in 0..MaxPulses
        /\ pushed = committed
    BY <1>2, <2>1
  <2> QED BY <1>2, <2>2, <2>3 DEF GitOK
<1>4. ProcessOK
  <2>1. /\ phase = PhaseOrder[5] /\ claimed = FALSE /\ mode = "plain" /\ pc = "idle"
        /\ job = "none" /\ todo = {} /\ faults = 0
    BY DEF Init, PhaseOrder
  <2>2. pc \in Labels /\ job \in Jobs
    BY <2>1 DEF Labels, Jobs
  <2>3. phase \in {PhaseOrder[i] : i \in 1..5}
    BY <2>1
  <2>4. claimed \in BOOLEAN
    BY <2>1
  <2>5. mode \in {"plain", "tick"} /\ todo \subseteq Seqs /\ faults \in 0..MaxFaults
    BY <1>2, <2>1
  <2> QED BY <2>2, <2>3, <2>4, <2>5 DEF ProcessOK
<1>5. ~HeadIsCommit
  BY DEF Init, HeadIsCommit, HeadPulse, Pulse
<1>6. Control
  BY <1>5 DEF Init, Control
<1>7. Pending = {} /\ retired = {} /\ signed = {} /\ \A s \in Seqs : draw[s] = 0
  BY DEF Init, HostInit, Pending
<1>8. World
  BY <1>2, <1>5, <1>7 DEF World, ChainStateMachine, DrawsAgree, ResolvedAsHeld, HeadCommitBacked,
     ZeroMeansUnpublished, ErasedAfterPublication, RevealedAfterPublication
<1> QED BY <1>1, <1>3, <1>4, <1>6, <1>8 DEF CycleInv

\* No step of the cycle, of a crash or of the world around it breaks it.
LEMMA CycleInvInductive == CycleInv /\ [Next]_vars => CycleInv'
<1> SUFFICES ASSUME CycleInv, [Next]_vars PROVE CycleInv'
  OBVIOUS
<1>1. GitOK' /\ ProcessOK' /\ Control'
  BY GitTyped, ProcessTyped, ControlKept
<1>2. Ground /\ World /\ WorldStep /\ HostTypeOK /\ HostInv
  BY Grounded, ActionKinds DEF CycleInv
<1>3. pushed' \in Nat
  <2>1. committed' \in Nat /\ pushed' \in 0..committed'
    BY <1>1 DEF GitOK
  <2> QED BY <2>1
<1>4. World'
  BY <1>2, <1>3, WorldStepKeepsWorld
<1>5. HostTypeOK' /\ HostInv'
  BY <1>2, WorldStepIsHostStep, HostTypeInductive, HostInvInductive
<1> QED BY <1>1, <1>4, <1>5 DEF CycleInv

\* The strengthened invariant holds in every state of the beacon.
THEOREM CycleInvariant == Spec => []CycleInv
BY CycleInvInitially, CycleInvInductive, PTL DEF Spec

\* Type correctness: origin holds a prefix of HEAD, HEAD one of the tree.
THEOREM BeaconTypeCorrect == Spec => []BeaconTypeOK
<1>1. CycleInv => BeaconTypeOK
  BY DEF CycleInv, GitOK, ProcessOK, BeaconTypeOK, PulseSet
<1> QED BY <1>1, CycleInvariant, PTL

\* A commit is followed by its own resolution and by nothing else.
THEOREM BeaconChainsResolve == Spec => []ChainStateMachine
<1>1. CycleInv => ChainStateMachine
  BY DEF CycleInv, World
<1> QED BY <1>1, CycleInvariant, PTL

\* The host can always resolve the commit at the head.
THEOREM BeaconBacksHead == Spec => []HeadCommitBacked
<1>1. CycleInv => HeadCommitBacked
  BY DEF CycleInv, World
<1> QED BY <1>1, CycleInvariant, PTL

\* An abandonment bound to the zero hash is never of a published commit.
THEOREM BeaconZeroIsUnpublished == Spec => []ZeroMeansUnpublished
<1>1. CycleInv => ZeroMeansUnpublished
  BY DEF CycleInv, World
<1> QED BY <1>1, CycleInvariant, PTL

\* E is erased only against a published resolution of its own draw.
THEOREM BeaconErasesLast == Spec => []ErasedAfterPublication
<1>1. CycleInv => ErasedAfterPublication
  BY DEF CycleInv, World
<1> QED BY <1>1, CycleInvariant, PTL

\* E leaves the host only for the published commit that binds it.
THEOREM BeaconRevealsLast == Spec => []RevealedAfterPublication
<1>1. CycleInv => RevealedAfterPublication
  BY DEF CycleInv, World
<1> QED BY <1>1, CycleInvariant, PTL

\* The aggregator drives the host only in ways EntropyHost allows, so all that
\* is proved of the host alone holds in the beacon.
THEOREM BeaconImplementsHost == Spec => HostSpec
<1>1. Init => HostInit
  BY DEF Init
<1>2. CycleInv /\ [Next]_vars => [HostNext]_hostVars
  BY Grounded, ActionKinds, WorldStepIsHostStep DEF CycleInv
<1> QED BY <1>1, <1>2, CycleInvariant, PTL DEF Spec, HostSpec

\* Custody of E against the published branch.
THEOREM BeaconKeepsCustody == Spec => []Custody
<1>1. CycleInv => Custody
  BY DEF CycleInv, World, Custody
<1> QED BY <1>1, CycleInvariant, PTL

-----------------------------------------------------------------------------
(* The contract with a reader of the branch                                *)

Disclosed == {c.e : c \in {d \in signed : d.phase = "reveal"}}
Gone      == {r.e : r \in retired}

\* What a reveal pulse shows, and what the one about to be sealed will show, was
\* signed out by the host: a file that is `revealing` is not enough.
Shown ==
  /\ \A i \in 1..HeadSeq : chain[i].type = "reveal" => chain[i].e \in Disclosed
  /\ pc = "attest" => draw[HeadSeq] \in Disclosed

\* A step that neither asks for a reveal nor seals one.
Elsewhere ==
  /\ pc' = "attest" => pc = "attest" /\ UNCHANGED <<draw, chain>>
  /\ \/ chain' = chain
     \/ \E t \in Types \ {"reveal"}, e \in Nat : chain' = Append(chain, Pulse(t, e))

\* Reveals are asked for and sealed in one place each.
LEMMA RevealsInOnePlace == CycleInv /\ [Next]_vars => RevealAsk \/ RevealSeal \/ Elsewhere
<1> SUFFICES ASSUME CycleInv, [Next]_vars, ~RevealAsk, ~RevealSeal PROVE Elsewhere
  OBVIOUS
<1>1. FetchAndSync \/ SealLitter \/ PushFails \/ PushTakesEffect \/ UNCHANGED gitVars => chain' = chain
  BY DEF FetchAndSync, SealLitter, PushFails, PushTakesEffect, gitVars
<1>2. ASSUME NEW l, l # "attest", Goto(l) PROVE pc' # "attest"
  BY <1>2 DEF Goto
<1>3. ASSUME NEW l, NEW j, l # "attest", GotoFor(l, j) PROVE pc' # "attest"
  BY <1>3 DEF GotoFor
<1>4. ASSUME NEW l, l # "attest", Proceed(l) PROVE pc' # "attest"
  BY <1>4 DEF Proceed
<1>5. Exit \/ Unhandled \/ Published \/ PublishRaised \/ AfterRetire => pc' # "attest"
  BY <1>2, <1>3, <1>4 DEF Exit, Unhandled, Published, PublishRaised, AfterRetire
<1>6. ASSUME NEW t \in Types \ {"reveal"}, NEW e \in Nat, Seal(t, e), pc' # "attest" PROVE Elsewhere
  BY <1>6 DEF Elsewhere, Seal
<1>7. ASSUME chain' = chain, pc' # "attest" PROVE Elsewhere
  BY <1>7 DEF Elsewhere
<1>8. {"commit", "failure", "skip"} \subseteq Types \ {"reveal"}
  BY DEF Types
<1>9. /\ pc = "seal" => draw[HeadSeq + 1] \in Nat
      /\ pc = "sealfail" => draw[HeadSeq] \in Nat
  <2>1. Ground /\ World /\ Control /\ \A s \in Seqs : draw[s] \in Nat
    BY Grounded DEF CycleInv, HostTypeOK
  <2>2. pc = "seal" => Room(2)
    BY <2>1 DEF Control
  <2>3. HeadSeq \in Nat /\ HeadSeq <= MaxPulses /\ MaxPulses \in Nat /\ Seqs = 1..MaxPulses
    BY <2>1, ChainFacts, BeaconAssumption
  <2>4. pc = "seal" => HeadSeq + 1 \in Seqs
    BY <2>2, <2>3 DEF Room
  <2>5. pc = "sealfail" => HeadSeq \in Seqs
    BY <2>1, ChainFacts DEF Control
  <2> QED BY <2>1, <2>4, <2>5
<1>10. ASSUME Start \/ Pull \/ CatchUp \/ PublishAdd \/ PublishPush PROVE Elsewhere
  BY <1>10, <1>1, <1>2, <1>3, <1>5, <1>7 DEF Start, TimerStart, TickStart, Pull, CatchUp, PublishAdd, PublishPush
<1>11. ASSUME Recover PROVE Elsewhere
  BY <1>11, <1>1, <1>2, <1>5, <1>7 DEF Recover, RecoverList, RollbackList, RetireDone, RetireAbandon,
     RetireAborted, RetireResolved, RetirePassOver, RetireFinalize, At
<1>12. ASSUME CommitGate \/ CommitDraw \/ CommitCollect PROVE Elsewhere
  BY <1>12, <1>1, <1>2, <1>7 DEF CommitGate, CommitDraw, CommitCollect
<1>13. ASSUME CommitSeal PROVE Elsewhere
  BY <1>13, <1>1, <1>2, <1>3, <1>6, <1>7, <1>8, <1>9 DEF CommitSeal, At
<1>14. ASSUME SkipMint PROVE Elsewhere
  BY <1>14, <1>1, <1>3, <1>5, <1>6, <1>7, <1>8 DEF SkipMint
<1>15. ASSUME AwaitRound \/ RevealGate \/ FailGate \/ FailAbandon PROVE Elsewhere
  BY <1>15, <1>1, <1>2, <1>3, <1>7 DEF AwaitRound, RevealGate, FailGate, FailAbandon
<1>16. ASSUME FailSeal PROVE Elsewhere
  BY <1>16, <1>1, <1>3, <1>6, <1>7, <1>8, <1>9 DEF FailSeal, At
<1>17. ASSUME FinalizeCall \/ Crash PROVE Elsewhere
  BY <1>17, <1>1, <1>5, <1>7 DEF FinalizeCall, Crash
<1>18. ASSUME Tick \/ NewHour \/ OtherPush \/ RoundOut \/ MirrorPush \/ UNCHANGED vars PROVE Elsewhere
  <2>1. chain' = chain /\ pc' = pc /\ draw' = draw
    BY <1>18, <1>1 DEF Tick, NewHour, OtherPush, RoundOut, MirrorPush, Release, vars, hostVars, gitVars, cycleVars
  <2> QED BY <2>1 DEF Elsewhere
<1> QED
  BY <1>10, <1>11, <1>12, <1>13, <1>14, <1>15, <1>16, <1>17, <1>18 DEF Next, Cycle, Environment

\* What the host has signed out or erased stays so.
LEMMA HistoriesGrow ==
  CycleInv /\ [Next]_vars => Disclosed \subseteq Disclosed' /\ Gone \subseteq Gone'
<1> SUFFICES ASSUME CycleInv, [Next]_vars PROVE signed \subseteq signed' /\ retired \subseteq retired'
  BY DEF Disclosed, Gone
<1>1. [HostNext]_hostVars
  BY Grounded, ActionKinds, WorldStepIsHostStep DEF CycleInv
<1> QED
  BY <1>1 DEF HostNext, hostVars, recordVars, Commit, CommitCrash, CommitRefused, RevealRefused,
     AbandonRefused, FinalizeCrash, RevealPrepare, AbandonPrepare, Finalize, Release

\* A reveal is sealed after E was signed out.
LEMMA ShownKept == CycleInv /\ Shown /\ [Next]_vars => Shown'
<1> SUFFICES ASSUME CycleInv, Shown, [Next]_vars PROVE Shown'
  OBVIOUS
<1>1. Disclosed \subseteq Disclosed' /\ Ground /\ World /\ chain \in Seq(PulseSet)
  BY HistoriesGrow, Grounded DEF CycleInv, Ground
<1>2. CASE chain' = chain /\ (pc' = "attest" => pc = "attest" /\ draw' = draw)
  BY <1>1, <1>2 DEF Shown, HeadSeq
<1>3. ASSUME NEW t \in Types, NEW e \in Nat, chain' = Append(chain, Pulse(t, e)),
             t = "reveal" => e \in Disclosed, pc' # "attest"
      PROVE  Shown'
  <2>1. /\ HeadSeq' = HeadSeq + 1 /\ HeadSeq \in Nat
        /\ \A i \in 1..HeadSeq : chain'[i] = chain[i]
        /\ chain'[HeadSeq + 1] = Pulse(t, e)
    BY <1>1, <1>3, SealAppends
  <2>2. ASSUME NEW i \in 1..HeadSeq + 1, chain'[i].type = "reveal" PROVE chain'[i].e \in Disclosed
    <3>1. CASE i = HeadSeq + 1
      <4>1. chain'[i].type = t /\ chain'[i].e = e
        BY <2>1, <3>1 DEF Pulse
      <4> QED BY <1>3, <2>2, <4>1
    <3>2. CASE i \in 1..HeadSeq
      BY <2>1, <2>2, <3>2 DEF Shown
    <3> QED BY <2>1, <3>1, <3>2
  <2> QED BY <1>1, <1>3, <2>1, <2>2 DEF Shown
<1>4. CASE RevealAsk
  <2>1. chain' = chain /\ (pc' = "attest" => RevealPrepare(HeadSeq, HeadSeq))
    BY <1>4 DEF RevealAsk, Goto, gitVars
  <2>2. ASSUME RevealPrepare(HeadSeq, HeadSeq) PROVE draw'[HeadSeq] \in Disclosed'
    <3>1. Statement("reveal", HeadSeq, draw[HeadSeq], HeadSeq) \in signed' /\ draw' = draw
      BY <2>2 DEF RevealPrepare
    <3> QED BY <3>1 DEF Disclosed, Statement
  <2> QED BY <1>1, <2>1, <2>2 DEF Shown, HeadSeq
<1>5. CASE RevealSeal
  <2>1. pc = "attest" /\ pc' # "attest" /\ draw[HeadSeq] \in Nat /\ draw[HeadSeq] \in Disclosed
    BY <1>1, <1>5, ChainFacts DEF RevealSeal, At, Goto, GotoFor, CycleInv, Control, HostTypeOK, Shown
  <2>2. chain' = chain \/ chain' = Append(chain, Pulse("reveal", draw[HeadSeq]))
    BY <1>5 DEF RevealSeal, Seal, SealLitter
  <2> QED BY <1>2, <1>3, <2>1, <2>2 DEF Types
<1>6. CASE Elsewhere
  <2>1. CASE chain' = chain
    BY <1>2, <1>6, <2>1 DEF Elsewhere
  <2>2. PICK t \in Types \ {"reveal"}, e \in Nat : chain' = chain \/ chain' = Append(chain, Pulse(t, e))
    BY <1>6 DEF Elsewhere, Types
  <2>3. chain' = Append(chain, Pulse(t, e)) => chain' # chain
    BY <1>1, <2>2, SealAppends DEF HeadSeq
  <2> QED BY <1>3, <1>6, <2>1, <2>2, <2>3 DEF Elsewhere
<1> QED BY <1>4, <1>5, <1>6, RevealsInOnePlace

\* A prefix of a sequence holds its first elements.
LEMMA PrefixHolds ==
  ASSUME NEW S, NEW s \in Seq(S), NEW k \in 0..Len(s)
  PROVE  /\ SubSeq(s, 1, k) \in Seq(S) /\ Len(SubSeq(s, 1, k)) = k
         /\ \A i \in 1..k : SubSeq(s, 1, k)[i] = s[i]
<1>1. /\ k \in Int /\ k >= 0 /\ k <= Len(s) /\ k - 1 + 1 = k
      /\ (IF 1 <= k THEN k - 1 + 1 ELSE 0) = k
      /\ \A i \in 1..k : s[i] \in S /\ 1 + i - 1 = i
  BY LenProperties
<1> DEFINE p == SubSeq(s, 1, k)
<1>2. /\ p \in Seq(S) /\ Len(p) = IF 1 <= k THEN k - 1 + 1 ELSE 0
      /\ \A i \in 1..k - 1 + 1 : p[i] = s[1 + i - 1]
  BY <1>1, SubSeqProperties
<1> HIDE DEF p
<1>3. p \in Seq(S) /\ Len(p) = k /\ \A i \in 1..k : p[i] = s[i]
  BY <1>1, <1>2
<1> QED BY <1>3 DEF p

\* The pulses of origin, and what a reader finds in them.
LEMMA OriginHolds ==
  ASSUME CycleInv
  PROVE  /\ chain \in Seq(PulseSet) /\ HeadSeq = Len(chain) /\ HeadSeq \in Nat
         /\ pushed \in Nat /\ pushed <= HeadSeq
         /\ SubSeq(chain, 1, pushed) \in Seq(PulseSet) /\ Len(SubSeq(chain, 1, pushed)) = pushed
         /\ \A i \in 1..pushed : SubSeq(chain, 1, pushed)[i] = chain[i]
         /\ \A t, e : e \in Contract!About(t) <=> \E i \in 1..pushed : chain[i].type = t /\ chain[i].e = e
<1> DEFINE m == SubSeq(chain, 1, pushed)
<1>1. /\ chain \in Seq(PulseSet) /\ HeadSeq = Len(chain) /\ HeadSeq \in Nat
      /\ pushed \in Nat /\ pushed <= HeadSeq /\ pushed \in 0..Len(chain)
  BY DEF CycleInv, GitOK, HeadSeq
<1>2. m \in Seq(PulseSet) /\ Len(m) = pushed /\ \A i \in 1..pushed : m[i] = chain[i]
  BY <1>1, PrefixHolds
<1>3. DOMAIN m = 1..pushed
  BY <1>2
<1>4. ASSUME NEW t PROVE Contract!About(t) = {m[i].e : i \in {j \in DOMAIN m : m[j].type = t}}
  BY DEF Contract!About
<1> HIDE DEF m
<1>5. ASSUME NEW t, NEW e
      PROVE  e \in Contract!About(t) <=> \E i \in 1..pushed : chain[i].type = t /\ chain[i].e = e
  BY <1>2, <1>3, <1>4
<1> QED BY <1>1, <1>2, <1>5 DEF m

\* What is about to be published follows what is there; a new commitment is of a
\* draw that was neither shown, nor erased, nor published.
LEMMA NextPulseFollows ==
  ASSUME CycleInv, Shown, NEW i \in pushed + 1..HeadSeq
  PROVE  /\ Contract!MayFollow(IF i = 1 THEN Pulse("legacy", 0) ELSE chain[i - 1], chain[i])
         /\ chain[i].type = "commit" => chain[i].e \notin Gone \cup Disclosed \cup Contract!About("commit")
<1>1. /\ Ground /\ World /\ HeadSeq \in Nat /\ pushed \in Nat /\ i \in 1..HeadSeq /\ i > pushed
      /\ i > 1 => i - 1 \in 1..HeadSeq
      /\ \A j \in 1..HeadSeq : chain[j] \in PulseSet /\ j \in Seqs
  BY OriginHolds, Grounded, ChainFacts DEF CycleInv
<1>2. CASE i > 1 /\ chain[i - 1].type = "commit"
  <2>1. chain[i].type \in Resolutions
    BY <1>1, <1>2 DEF World, ChainStateMachine
  <2>2. chain[i - 1].e = chain[i].e
    <3>1. chain[i - 1] = Pulse("commit", chain[i].e)
      BY <1>1, <2>1 DEF World, ChainStateMachine
    <3> QED BY <3>1 DEF Pulse
  <2>3. chain[i].type = "reveal" => chain[i].e \in Disclosed
    BY <1>1 DEF Shown
  <2>4. chain[i] = Pulse(chain[i].type, chain[i - 1].e)
    BY <1>1, <2>2 DEF PulseSet, Pulse
  <2> QED BY <1>1, <1>2, <2>1, <2>3, <2>4 DEF Contract!MayFollow, Contract!Entry, Pulse, Resolutions, Disclosed
<1>3. CASE i = 1 \/ chain[i - 1].type # "commit"
  <2>1. chain[i].type \notin Resolutions
    <3>1. chain[i].type \in Resolutions => i > 1 /\ chain[i - 1] = Pulse("commit", chain[i].e)
      BY <1>1 DEF World, ChainStateMachine
    <3>2. Pulse("commit", chain[i].e).type = "commit"
      BY DEF Pulse
    <3> QED BY <1>1, <1>3, <3>1, <3>2
  <2>2. chain[i].type \in {"commit", "skip"}
    BY <1>1, <2>1 DEF PulseSet, Types, Resolutions
  <2>3. Contract!MayFollow(IF i = 1 THEN Pulse("legacy", 0) ELSE chain[i - 1], chain[i])
    BY <1>3, <2>2 DEF Contract!MayFollow, Pulse
  <2>4. ASSUME chain[i].type = "commit"
        PROVE  chain[i].e \notin Gone \cup Disclosed \cup Contract!About("commit")
    <3>1. chain[i].e = draw[i] /\ draw[i] # 0
      BY <1>1, <2>4 DEF World, DrawsAgree
    <3>2. ASSUME NEW j \in 1..pushed, chain[j].type = "commit" PROVE chain[j].e # chain[i].e
      BY <1>1, <3>1, <3>2 DEF World, DrawsAgree
    <3>3. ASSUME NEW r \in retired PROVE r.e # chain[i].e
      <4>1. CASE r.by = ZeroHash
        BY <1>1, <4>1 DEF World, ZeroMeansUnpublished
      <4>2. CASE r.by # ZeroHash
        <5>1. r.by \in 1..pushed /\ chain[r.by].type \in Resolutions /\ chain[r.by].e = r.e
          <6>1. /\ r.by \in 1..pushed
                /\ chain[r.by] = Pulse(IF r.how = "revealing" THEN "reveal" ELSE "failure", r.e)
            BY <1>1, <4>2 DEF World, ErasedAfterPublication
          <6> QED BY <6>1 DEF Pulse, Resolutions
        <5>2. r.by > 1 /\ chain[r.by - 1] = Pulse("commit", r.e)
          BY <1>1, <5>1 DEF World, ChainStateMachine
        <5> QED BY <1>1, <3>2, <5>1, <5>2 DEF Pulse
      <4> QED BY <4>1, <4>2
    <3>4. ASSUME NEW c \in signed, c.phase = "reveal" PROVE c.e # chain[i].e
      <4>1. c.binding \in 1..pushed /\ chain[c.binding] = Pulse("commit", c.e)
        BY <1>1, <3>4 DEF World, RevealedAfterPublication
      <4>2. chain[c.binding].type = "commit" /\ chain[c.binding].e = c.e
        BY <4>1 DEF Pulse
      <4> QED BY <3>2, <4>1, <4>2
    <3>5. chain[i].e \notin Contract!About("commit")
      BY <3>2, OriginHolds
    <3> QED BY <3>3, <3>4, <3>5 DEF Gone, Disclosed
  <2> QED BY <2>3, <2>4
<1> QED
  <2>1. ASSUME chain[i].type = "commit" PROVE ~(i > 1 /\ chain[i - 1].type = "commit")
    BY <1>1, <2>1 DEF World, ChainStateMachine, Resolutions
  <2> QED BY <1>1, <1>2, <1>3, <2>1

\* A push publishes pulses that may follow, and nothing else.
LEMMA PublishAllowed ==
  ASSUME CycleInv, CycleInv', Shown, QuietStep, pushed' # pushed
  PROVE  Contract!Publish
<1> DEFINE m == SubSeq(chain, 1, pushed)
           n == SubSeq(chain', 1, pushed')
<1>1. signed' = signed /\ retired' = retired /\ chain' = chain
  BY DEF QuietStep, hostVars
<1>2. pushed' \in Nat /\ pushed' <= HeadSeq /\ pushed' \in 0..Len(chain)
  BY <1>1 DEF CycleInv, GitOK, HeadSeq
<1>3. /\ m \in Seq(PulseSet) /\ Len(m) = pushed /\ \A i \in 1..pushed : m[i] = chain[i]
      /\ pushed \in Nat /\ pushed < pushed' /\ chain \in Seq(PulseSet)
  BY <1>2, OriginHolds DEF QuietStep
<1>4. n \in Seq(PulseSet) /\ Len(n) = pushed' /\ \A i \in 1..pushed' : n[i] = chain[i]
  BY <1>1, <1>2, <1>3, PrefixHolds
<1>5. SubSeq(n, 1, Len(m)) = m
  <2> HIDE DEF m, n
  <2>1. /\ SubSeq(n, 1, pushed) \in Seq(PulseSet) /\ Len(SubSeq(n, 1, pushed)) = pushed
        /\ \A i \in 1..pushed : SubSeq(n, 1, pushed)[i] = n[i]
    BY <1>2, <1>3, <1>4, PrefixHolds
  <2>2. \A i \in 1..pushed : SubSeq(n, 1, pushed)[i] = m[i]
    BY <1>2, <1>3, <1>4, <2>1
  <2> QED BY <1>3, <2>1, <2>2, SeqEqual
<1>6. ASSUME NEW i \in Len(m) + 1..Len(n)
      PROVE  /\ Contract!MayFollow(IF i = 1 THEN Contract!Entry("legacy", 0) ELSE n[i - 1], n[i])
             /\ n[i].type = "commit" => n[i].e \notin Gone \cup Disclosed \cup Contract!About("commit")
  <2>1. i \in pushed + 1..HeadSeq /\ n[i] = chain[i] /\ (i # 1 => n[i - 1] = chain[i - 1])
    <3> HIDE DEF m, n
    <3>1. HeadSeq \in Nat
      BY OriginHolds
    <3> QED BY <1>2, <1>3, <1>4, <3>1
  <2>2. Contract!Entry("legacy", 0) = Pulse("legacy", 0)
    BY DEF Contract!Entry, Pulse
  <2>3. (IF i = 1 THEN Contract!Entry("legacy", 0) ELSE n[i - 1]) = IF i = 1 THEN Pulse("legacy", 0) ELSE chain[i - 1]
    BY <2>1, <2>2
  <2> HIDE DEF n, m
  <2> QED BY <2>1, <2>3, NextPulseFollows
<1>7. Len(n) > Len(m)
  BY <1>2, <1>3, <1>4
<1> QED BY <1>1, <1>5, <1>6, <1>7 DEF Contract!Publish, Gone, Disclosed

\* Only finalize erases, and what it erases was resolved or never published.
LEMMA EraseAllowed ==
  ASSUME CycleInv, UNCHANGED <<chain, pushed>>, NEW s \in Seqs, NEW r, Finalize(s, r),
         r = ZeroHash => Unpublished(s),
         r # ZeroHash => s + 1 \in 1..pushed /\ chain[s + 1].type \in Resolutions
  PROVE  Contract!Erase
<1>1. Ground /\ World /\ HeadSeq \in Nat /\ pushed \in Nat /\ pushed <= HeadSeq /\ s \in Nat
  BY OriginHolds, Grounded, SeqsAssumption DEF CycleInv
<1>2. signed' = signed /\ retired' = retired \cup {Retirement(s, draw[s], held[s], r)} /\ s \in Pending
  BY DEF Finalize, Finalizable, Pending
<1>3. Gone' = Gone \cup {draw[s]}
  <2>1. Retirement(s, draw[s], held[s], r).e = draw[s]
    BY DEF Retirement
  <2> QED BY <1>2, <2>1 DEF Gone
<1>4. draw[s] \in Contract!About("commit") => draw[s] \in Contract!About("reveal") \cup Contract!About("failure")
  <2>1. CASE r = ZeroHash
    <3>1. \A i \in 1..HeadSeq : chain[i].e # draw[s]
      BY <1>1, <1>2, <2>1, UnpublishedDraw
    <3> QED BY <1>1, <3>1, OriginHolds
  <2>2. CASE r # ZeroHash
    <3>1. s + 1 \in 1..pushed /\ s + 1 \in 1..HeadSeq /\ chain[s + 1].type \in {"reveal", "failure"}
      BY <1>1, <2>2 DEF Resolutions
    <3>2. chain[s + 1].e = draw[(s + 1) - 1] /\ (s + 1) - 1 = s
      BY <1>1, <3>1, ChainFacts DEF Resolutions
    <3> QED BY <3>1, <3>2, OriginHolds
  <2> QED BY <2>1, <2>2
<1>5. draw[s] \in Gone'
  BY <1>3
<1> QED BY <1>2, <1>3, <1>4, <1>5 DEF Contract!Erase, Gone, Disclosed

\* E is shown while its commit is published and open.
LEMMA DiscloseAllowed ==
  ASSUME CycleInv, UNCHANGED <<chain, pushed>>, HeadIsCommit, pushed = HeadSeq,
         RevealPrepare(HeadSeq, HeadSeq)
  PROVE  Contract!Disclose
<1>1. Ground /\ World
  BY Grounded DEF CycleInv
<1>2. retired' = retired /\ signed' = signed \cup {Statement("reveal", HeadSeq, draw[HeadSeq], HeadSeq)}
  BY DEF RevealPrepare, recordVars
<1>3. Disclosed' = Disclosed \cup {draw[HeadSeq]} /\ draw[HeadSeq] \in Disclosed'
  <2> DEFINE d == Statement("reveal", HeadSeq, draw[HeadSeq], HeadSeq)
  <2>1. d.phase = "reveal" /\ d.e = draw[HeadSeq] /\ signed' = signed \cup {d}
    BY <1>2 DEF Statement
  <2> HIDE DEF d
  <2> QED BY <2>1 DEF Disclosed
<1>4. Contract!OpenCommit(draw[HeadSeq])
  <2> DEFINE m == SubSeq(chain, 1, pushed)
  <2>1. m \in Seq(PulseSet) /\ Len(m) = pushed /\ \A i \in 1..pushed : m[i] = chain[i]
    BY OriginHolds
  <2>2. pushed \in 1..pushed /\ chain[pushed] = Pulse("commit", draw[HeadSeq])
    BY <1>1, ChainFacts
  <2> HIDE DEF m
  <2>3. m # <<>> /\ m[Len(m)] = Pulse("commit", draw[HeadSeq])
    BY <2>1, <2>2
  <2> QED BY <2>3 DEF m, Contract!OpenCommit, Contract!Entry, Pulse
<1> QED BY <1>2, <1>3, <1>4 DEF Contract!Disclose, Gone, Disclosed

\* A request that signs no reveal and erases nothing is not seen from outside.
LEMMA UnseenFromOutside ==
  ASSUME Disclosed' = Disclosed, retired' = retired, UNCHANGED <<chain, pushed>>
  PROVE  UNCHANGED Contract!contractVars
BY DEF Contract!contractVars, Disclosed

\* Every kind of step is a step of the contract, or not seen by a reader.
LEMMA StepsKeepContract ==
  CycleInv /\ CycleInv' /\ Shown /\ [Next]_vars => [Contract!Next]_(Contract!contractVars)
<1> SUFFICES ASSUME CycleInv, CycleInv', Shown, WorldStep
             PROVE  Contract!Next \/ UNCHANGED Contract!contractVars
  BY ActionKinds
<1>1. CASE QuietStep
  <2>1. pushed' = pushed => UNCHANGED Contract!contractVars
    BY <1>1, UnseenFromOutside DEF QuietStep, hostVars, Disclosed
  <2> QED BY <1>1, <2>1, PublishAllowed DEF Contract!Next
<1>2. CASE SealStep
  <2>1. PICK t \in Types, e \in Nat : chain' = Append(chain, Pulse(t, e))
    BY <1>2 DEF SealStep
  <2>2. signed' = signed /\ retired' = retired /\ pushed' = pushed
    BY <1>2 DEF SealStep, hostVars
  <2>3. /\ chain' \in Seq(PulseSet) /\ pushed \in 0..Len(chain) /\ pushed \in 0..Len(chain')
        /\ chain \in Seq(PulseSet) /\ \A i \in 1..pushed : chain'[i] = chain[i]
    BY <2>1, OriginHolds, SealAppends DEF HeadSeq
  <2> DEFINE m == SubSeq(chain, 1, pushed)
             n == SubSeq(chain', 1, pushed)
  <2>4. m \in Seq(PulseSet) /\ Len(m) = pushed /\ \A i \in 1..pushed : m[i] = chain[i]
    BY <2>3, PrefixHolds
  <2>5. n \in Seq(PulseSet) /\ Len(n) = pushed /\ \A i \in 1..pushed : n[i] = chain'[i]
    BY <2>3, PrefixHolds
  <2> HIDE DEF m, n
  <2>6. m = n
    BY <2>3, <2>4, <2>5, SeqEqual
  <2> QED BY <2>2, <2>6 DEF m, n, Contract!contractVars
<1>3. CASE HostKind /\ UNCHANGED <<chain, pushed>>
  <2>2. CASE CommitKind
    <3>1. retired' = retired /\ \A d \in signed' : d.phase = "reveal" => d \in signed
      BY <2>2 DEF CommitKind, Commit, CommitCrash, CommitRefused, recordVars, Statement
    <3>2. signed \subseteq signed'
      BY <2>2 DEF CommitKind, Commit, CommitCrash, CommitRefused
    <3> QED BY <1>3, <3>1, <3>2, UnseenFromOutside DEF Disclosed
  <2>3. CASE AbortKind
    <3>1. PICK s \in Seqs : /\ Unpublished(s)
                            /\ \/ AbandonPrepare(s, ZeroHash) \/ AbandonRefused(s)
                               \/ Finalize(s, ZeroHash) \/ FinalizeCrash(s)
      BY <2>3 DEF AbortKind
    <3>2. CASE Finalize(s, ZeroHash)
      BY <1>3, <3>1, <3>2, EraseAllowed DEF Contract!Next
    <3>3. CASE AbandonPrepare(s, ZeroHash) \/ AbandonRefused(s) \/ FinalizeCrash(s)
      <4>1. /\ retired' = retired /\ signed \subseteq signed'
            /\ \A d \in signed' : d.phase = "reveal" => d \in signed
        BY <3>3 DEF AbandonPrepare, AbandonRefused, FinalizeCrash, recordVars, Statement
      <4> QED BY <1>3, <4>1, UnseenFromOutside DEF Disclosed
    <3> QED BY <3>1, <3>2, <3>3
  <2>4. CASE FinalizeKind
    <3>1. PICK s \in Seqs : /\ s + 1 \in 1..HeadSeq /\ pushed = HeadSeq /\ chain[s + 1].type \in Resolutions
                            /\ Finalize(s, s + 1) \/ FinalizeCrash(s)
      BY <2>4 DEF FinalizeKind
    <3>2. s + 1 # ZeroHash
      BY <3>1, BeaconAssumption
    <3>3. CASE Finalize(s, s + 1)
      BY <1>3, <3>1, <3>2, <3>3, EraseAllowed DEF Contract!Next
    <3>4. CASE FinalizeCrash(s)
      BY <1>3, <3>4, UnseenFromOutside DEF FinalizeCrash, recordVars, Disclosed
    <3> QED BY <3>1, <3>3, <3>4
  <2>5. CASE RevealKind
    <3>1. CASE RevealPrepare(HeadSeq, HeadSeq)
      BY <1>3, <2>5, <3>1, DiscloseAllowed DEF RevealKind, Contract!Next
    <3>2. CASE RevealRefused(HeadSeq)
      BY <1>3, <3>2, UnseenFromOutside DEF RevealRefused, recordVars, Disclosed
    <3> QED BY <2>5, <3>1, <3>2 DEF RevealKind
  <2>6. CASE FailKind
    <3>1. /\ retired' = retired /\ signed \subseteq signed'
          /\ \A d \in signed' : d.phase = "reveal" => d \in signed
      BY <2>6 DEF FailKind, AbandonPrepare, AbandonRefused, recordVars, Statement
    <3> QED BY <1>3, <3>1, UnseenFromOutside DEF Disclosed
  <2>7. CASE \E e \in 1..drawn : Release(e)
    BY <1>3, <2>7, UnseenFromOutside DEF Release, recordVars, Disclosed
  <2> QED BY <1>3, <2>2, <2>3, <2>4, <2>5, <2>6, <2>7 DEF HostKind
<1> QED BY <1>1, <1>2, <1>3 DEF WorldStep

\* What reaches origin, what leaves the entropy host and what is erased there are,
\* step for step, what the beacon promises a reader (PROTOCOL.md).
THEOREM BeaconKeepsContract == Spec => KeepsContract
<1>1. Init => Contract!Init
  <2> SUFFICES ASSUME Init PROVE SubSeq(chain, 1, pushed) = <<>> /\ Disclosed = {} /\ Gone = {}
    BY DEF Contract!Init, Disclosed, Gone
  <2>1. chain = <<>> /\ pushed = 0 /\ signed = {} /\ retired = {}
    BY DEF Init, HostInit
  <2>2. SubSeq(chain, 1, pushed) = <<>>
    BY <2>1, SubSeqEmpty
  <2> QED BY <2>1, <2>2 DEF Disclosed, Gone
<1>2. Init => Shown
  BY DEF Init, Shown, HeadSeq
<1>3. Spec => []Shown
  BY <1>2, ShownKept, CycleInvariant, PTL DEF Spec
<1> QED
  BY <1>1, <1>3, StepsKeepContract, CycleInvariant, PTL DEF Spec, KeepsContract, Contract!Spec

-----------------------------------------------------------------------------
(***************************************************************************)
(* Minting: what is sealed passes the verifier.                            *)
(***************************************************************************)
(* The seal adds four fields; the rest of the pulse is the draft's. *)
Added(key, n, tokens) == [outer |-> key, prev |-> n, seq |-> n + 1, tokens |-> tokens]
SealFields == {"outer", "prev", "seq", "tokens"}

LEMMA AssembledFields ==
  ASSUME NEW key, NEW n, NEW tokens, NEW p
  PROVE  /\ Assembled(Added(key, n, tokens), p).outer = key
         /\ Assembled(Added(key, n, tokens), p).prev = n
         /\ Assembled(Added(key, n, tokens), p).seq = n + 1
         /\ \A f \in DOMAIN p \ SealFields : Assembled(Added(key, n, tokens), p)[f] = p[f]
<1> DEFINE added == Added(key, n, tokens)
<1>1. DOMAIN added = SealFields
  BY DEF Added, SealFields
<1>2. added.outer = key /\ added.prev = n /\ added.seq = n + 1
  BY DEF Added
<1> HIDE DEF added
<1>4. \A f \in SealFields : Assembled(added, p)[f] = added[f]
  BY <1>1 DEF Assembled
<1>5. \A f \in DOMAIN p \ SealFields : Assembled(added, p)[f] = p[f]
  BY <1>1 DEF Assembled
<1>6. "outer" \in SealFields /\ "prev" \in SealFields /\ "seq" \in SealFields
  BY DEF SealFields
<1>7. /\ Assembled(added, p).outer = key /\ Assembled(added, p).prev = n /\ Assembled(added, p).seq = n + 1
  BY <1>2, <1>4, <1>6
<1> QED
  BY <1>5, <1>7 DEF added

LEMMA OnGrid ==
  ASSUME NEW t \in Nat, OnBoundary(t), NEW lead \in Nat
  PROVE  ReleaseTime(t \div Period + 1 + lead) = t + lead * Period
<1>1. Period \in Nat \ {0}
  BY MintingAssumption
<1> DEFINE q == t \div Period
<1>2. q \in Int /\ t = Period * q + (t % Period)
  BY <1>1
<1>3. t = Period * q
  BY <1>2, <1>1 DEF OnBoundary
<1> HIDE DEF q
<1>4. (q + 1 + lead - 1) * Period = q * Period + lead * Period
  BY <1>1, <1>2
<1> QED
  BY <1>1, <1>2, <1>3, <1>4 DEF ReleaseTime, q

-----------------------------------------------------------------------------
(* The inductive invariant: of what is put together, all that the verifier  *)
(* will ask; what remains for the seal is the number, the link and the key. *)
Counted == seq \in 0 .. MaxMinted /\ now \in 0 .. MaxTime
HeadFits ==
  /\ head.type \in PulseTypes
  /\ IF seq = 0 THEN head = Genesis ELSE head.seq = seq
  /\ head.type = "commit" =>
       head.release = ReleaseTime(head.target) /\ head.anchor < head.release /\ head.amiss \subseteq {"form"}

\* The one instant the target follows from, and who named it.
CadenceFits(cad, target, lead) ==
  /\ \A t \in cad.instant : OnBoundary(t) /\ ReleaseTime(target) = t + lead * Period
  /\ \A t \in cad.instant, u \in cad.instant : t = u
  /\ cad.self \subseteq cad.instant
  /\ \A tr \in cad.trigger : PinnedAt("time", tr, seq + 1) /\ tr.at \in cad.instant
CommitBegun == draft.pc = "commit" => head.type # "commit" /\ CadenceFits(draft.cad, draft.target, draft.lead)
RevealBegun == draft.pc = "reveal" => head.type = "commit"

HostsReady(p) ==
  /\ DOMAIN p.sts = Hosts
  /\ \A h \in Hosts : PinnedAt(h, p.sts[h], seq + 1)
  /\ \A h \in Clocks : p.sts[h].healthy
CadenceReady(p) ==
  /\ \A t \in p.self : OnTheGrid(p, t)
  /\ \A tr \in p.trigger :
       /\ \A t \in p.self : tr.at = t
       /\ PinnedAt("time", tr, seq + 1) /\ OnBoundary(tr.at)
       /\ p.targeting = "instant" => OnTheGrid(p, tr.at)
CommitFields ==
  {"type", "sts", "entropy", "bound", "anchor", "target", "release", "lead", "round", "self", "trigger", "targeting",
   "amiss"}
CommitReady(p) ==
  /\ p.type = "commit" /\ DOMAIN p = CommitFields /\ head.type # "commit"
  /\ HostsReady(p) /\ PinnedAt("entropy", p.entropy, seq + 1)
  /\ p.bound = p.target /\ p.release = ReleaseTime(p.target)
  /\ p.round < p.target /\ p.anchor < p.release
  /\ p.amiss \subseteq {"form", "leak"}
  /\ CadenceReady(p)
RevealFields == {"type", "sts", "entropy", "opens", "anchor", "round", "release", "of", "amiss"}
RevealReady(p) ==
  /\ p.type = "reveal" /\ DOMAIN p = RevealFields /\ head.type = "commit"
  /\ HostsReady(p) /\ PinnedAt("entropy", p.entropy, seq) /\ p.opens
  /\ p.round = head.target /\ p.release = head.release /\ p.release <= p.anchor
  /\ p.of = seq /\ p.amiss \subseteq {"length"}
FailureFields == {"type", "sts", "entropy", "worded", "reason", "of", "amiss"}
FailureReady(p) ==
  /\ p.type = "failure" /\ DOMAIN p = FailureFields /\ head.type = "commit"
  /\ \A h \in DOMAIN p.sts : PinnedAt(h, p.sts[h], seq + 1)
  /\ PinnedAt("entropy", p.entropy, seq)
  /\ p.reason = p.worded /\ p.of = seq /\ p.amiss \subseteq {"form", "names", "leak"}
SkipReady(p) ==
  /\ p.type = "skip" /\ DOMAIN p = {"type", "sts", "amiss"} /\ DOMAIN p.sts = {} /\ head.type # "commit"
  /\ p.amiss \subseteq {"blank"}
Ready(p) == CommitReady(p) \/ RevealReady(p) \/ FailureReady(p) \/ SkipReady(p)

DraftFits ==
  /\ draft.pc \in {"none", "commit", "reveal", "sealing"}
  /\ draft.pc = "none" <=> draft = NoDraft
  /\ draft # NoDraft => seq < MaxMinted
  /\ CommitBegun /\ RevealBegun
  /\ draft.pc = "sealing" => Ready(draft.pulse)
JustMinted == minted # <<>> => minted[1].seq = seq /\ draft = NoDraft
MintInv == Counted /\ HeadFits /\ DraftFits /\ JustMinted /\ MintedVerifies

-----------------------------------------------------------------------------
(* What is sealed verifies. *)
\* The pulse of a step SealPulse.
SealedPulse(key, tokens) == Assembled(Added(key, seq, tokens), draft.pulse)
\* What an assembled pulse takes over from the draft and what it adds; of what is
\* amiss, elsewhere.
TakesOver(pulse, p) ==
  /\ pulse.seq = seq + 1 /\ pulse.prev = seq
  /\ \A f \in DOMAIN p \ {"amiss"} : pulse[f] = p[f]

\* What can be amiss in a pulse of a type: all of it is what the verifier looks at.
OfType(amiss, type) ==
  /\ type = "commit" => amiss \subseteq {"form", "leak"}
  /\ type = "reveal" => amiss \subseteq {"length"}
  /\ type = "failure" => amiss \subseteq {"form", "names", "leak"}
  /\ type = "skip" => amiss \subseteq {"blank"}

LEMMA ReadyFields ==
  ASSUME NEW p, Ready(p)
  PROVE  /\ DOMAIN p \cap SealFields = {} /\ "type" \in DOMAIN p /\ "amiss" \in DOMAIN p
         /\ p.type \in {"commit", "reveal", "failure", "skip"}
         /\ OfType(p.amiss, p.type)
<1>1. DOMAIN p \in {CommitFields, RevealFields, FailureFields, {"type", "sts", "amiss"}}
  BY DEF Ready, CommitReady, RevealReady, FailureReady, SkipReady
<1>2. \A F \in {CommitFields, RevealFields, FailureFields, {"type", "sts", "amiss"}} :
        F \cap SealFields = {} /\ "type" \in F /\ "amiss" \in F
  BY DEF CommitFields, RevealFields, FailureFields, SealFields
<1>3. p.type \in {"commit", "reveal", "failure", "skip"} /\ OfType(p.amiss, p.type)
  BY DEF Ready, CommitReady, RevealReady, FailureReady, SkipReady, OfType
<1> QED
  BY <1>1, <1>2, <1>3

LEMMA SealTakesOver ==
  ASSUME NEW key, NEW tokens, NEW p, Ready(p), NEW pulse, pulse = Assembled(Added(key, seq, tokens), p)
  PROVE  /\ TakesOver(pulse, p) /\ pulse.outer = key /\ pulse.amiss = p.amiss
         /\ TakesOver(PutRight(pulse), p) /\ PutRight(pulse).outer = key /\ PutRight(pulse).amiss = {}
         /\ pulse.amiss = {} => PutRight(pulse) = pulse
<1>1. DOMAIN p \cap SealFields = {} /\ "amiss" \in DOMAIN p
  BY ReadyFields
<1>a. /\ pulse.seq = seq + 1 /\ pulse.prev = seq /\ pulse.outer = key
      /\ \A f \in DOMAIN p \ SealFields : pulse[f] = p[f]
  BY AssembledFields
<1>b. DOMAIN Added(key, seq, tokens) = SealFields
  BY DEF Added, SealFields
<1>c. pulse = [f \in SealFields \cup DOMAIN p |-> pulse[f]]
  BY <1>b DEF Assembled
<1>2. /\ pulse.seq = seq + 1 /\ pulse.prev = seq /\ pulse.outer = key
      /\ \A f \in DOMAIN p : pulse[f] = p[f]
      /\ pulse = [f \in SealFields \cup DOMAIN p |-> pulse[f]]
  BY <1>1, <1>a, <1>c
<1>3. DOMAIN pulse = SealFields \cup DOMAIN p
  BY <1>2
<1>4. PutRight(pulse) = [f \in SealFields \cup DOMAIN p |-> IF f = "amiss" THEN {} ELSE pulse[f]]
  BY <1>3 DEF PutRight
<1>5. "seq" \in SealFields /\ "prev" \in SealFields /\ "outer" \in SealFields
  BY DEF SealFields
<1>6. PutRight(pulse).amiss = {} /\ \A f \in (SealFields \cup DOMAIN p) \ {"amiss"} : PutRight(pulse)[f] = pulse[f]
  BY <1>1, <1>4
<1>7. PutRight(pulse).seq = pulse.seq /\ PutRight(pulse).prev = pulse.prev /\ PutRight(pulse).outer = pulse.outer
  BY <1>5, <1>6
<1>8. TakesOver(pulse, p) /\ TakesOver(PutRight(pulse), p)
  BY <1>2, <1>6, <1>7 DEF TakesOver
<1>9. ASSUME pulse.amiss = {} PROVE PutRight(pulse) = pulse
  BY <1>2, <1>4, <1>9
<1> QED
  BY <1>1, <1>2, <1>6, <1>7, <1>8, <1>9

LEMMA CommitVerifies ==
  ASSUME Counted, HeadFits, NEW p, CommitReady(p), NEW pulse, TakesOver(pulse, p),
         KeyAllowed("aggregator", pulse.outer, seq + 1)
  PROVE  /\ pulse.amiss = {} => VerifiedButEntropy(pulse, head)
         /\ EntropyOK(pulse)
         /\ pulse.self # {} /\ pulse.trigger # {} => VerdictOf(CadenceReadings(pulse)) = "SATISFIED"
<1>1. /\ pulse.seq = seq + 1 /\ pulse.prev = seq
      /\ pulse.type = p.type /\ pulse.sts = p.sts /\ pulse.entropy = p.entropy
  BY DEF TakesOver, CommitReady, CommitFields
<1>2. /\ pulse.bound = p.bound /\ pulse.anchor = p.anchor /\ pulse.target = p.target /\ pulse.release = p.release
      /\ pulse.lead = p.lead /\ pulse.round = p.round
  BY DEF TakesOver, CommitReady, CommitFields
<1>3. pulse.self = p.self /\ pulse.trigger = p.trigger /\ pulse.targeting = p.targeting
  BY DEF TakesOver, CommitReady, CommitFields
<1>4. pulse.type = "commit" /\ head.type # "commit" /\ CadenceReady(p)
  BY <1>1 DEF CommitReady
<1>5. SchemaOK(pulse) /\ ClocksOK(pulse)
  BY <1>1, <1>4 DEF CommitReady, HostsReady, SchemaOK, ClocksOK
<1>6. StatementsOK(pulse) /\ EntropyOK(pulse)
  BY <1>1 DEF CommitReady, HostsReady, StatementsOK, EntropyOK
<1>7. \A t : OnTheGrid(p, t) <=> OnTheGrid(pulse, t)
  BY <1>2 DEF OnTheGrid
<1>8. CadenceOK(pulse)
  BY <1>1, <1>3, <1>4, <1>7 DEF CadenceReady, CadenceOK
<1>9. pulse.amiss = {} => CommitOK(pulse)
  BY <1>2, <1>8 DEF CommitReady, CommitOK
<1>10. FollowsOK(pulse, head)
  BY <1>1, <1>4 DEF HeadFits, PulseTypes, FollowsOK, Genesis
<1>11. pulse.amiss = {} => VerifiedButEntropy(pulse, head)
  BY <1>1, <1>4, <1>5, <1>6, <1>9, <1>10 DEF VerifiedButEntropy
<1>12. ASSUME pulse.self # {}, pulse.trigger # {}
       PROVE  VerdictOf(CadenceReadings(pulse)) = "SATISFIED"
  <2>1. \A t \in pulse.self : OnTheGrid(pulse, t)
    BY <1>3, <1>4, <1>7 DEF CadenceReady
  <2>2. \A tr \in pulse.trigger : tr.at \in pulse.self
    BY <1>3, <1>4, <1>12 DEF CadenceReady
  <2>3. CadenceReadings(pulse) = {"ok"}
    BY <1>12, <2>1, <2>2 DEF CadenceReadings
  <2> QED
    BY <2>3 DEF VerdictOf
<1> QED
  BY <1>6, <1>11, <1>12

LEMMA RevealVerifies ==
  ASSUME Counted, HeadFits, NEW p, RevealReady(p), NEW pulse, TakesOver(pulse, p),
         KeyAllowed("aggregator", pulse.outer, seq + 1)
  PROVE  /\ pulse.amiss = {} => VerifiedButEntropy(pulse, head)
         /\ EntropyOK(pulse) \/ RotatedBetween(pulse, head)
<1>1. /\ pulse.seq = seq + 1 /\ pulse.prev = seq
      /\ pulse.type = p.type /\ pulse.sts = p.sts /\ pulse.entropy = p.entropy /\ pulse.opens = p.opens
      /\ pulse.anchor = p.anchor /\ pulse.round = p.round /\ pulse.release = p.release /\ pulse.of = p.of
  BY DEF TakesOver, RevealReady, RevealFields
<1>2. pulse.type = "reveal" /\ head.type = "commit"
  BY <1>1 DEF RevealReady
<1>3. head.seq = seq
  BY <1>2 DEF HeadFits, Genesis
<1>4. SchemaOK(pulse) /\ ClocksOK(pulse) /\ StatementsOK(pulse)
  BY <1>1, <1>2 DEF RevealReady, HostsReady, SchemaOK, ClocksOK, StatementsOK
<1>5. pulse.amiss = {} => RevealOK(pulse)
  BY <1>1, <1>2 DEF RevealReady, RevealOK, HeadFits
<1>6. FollowsOK(pulse, head)
  BY <1>1, <1>2, <1>3 DEF RevealReady, FollowsOK, HeadFits
<1>7. pulse.amiss = {} => VerifiedButEntropy(pulse, head)
  BY <1>1, <1>2, <1>4, <1>5, <1>6 DEF VerifiedButEntropy
<1>8. EntropyOK(pulse) \/ RotatedBetween(pulse, head)
  BY <1>1, <1>2, <1>3 DEF RevealReady, PinnedAt, EntropyOK, RotatedBetween
<1> QED
  BY <1>7, <1>8

LEMMA FailureVerifies ==
  ASSUME Counted, HeadFits, NEW p, FailureReady(p), NEW pulse, TakesOver(pulse, p),
         KeyAllowed("aggregator", pulse.outer, seq + 1)
  PROVE  /\ pulse.amiss = {} => VerifiedButEntropy(pulse, head)
         /\ EntropyOK(pulse) \/ RotatedBetween(pulse, head)
<1>1. /\ pulse.seq = seq + 1 /\ pulse.prev = seq
      /\ pulse.type = p.type /\ pulse.sts = p.sts /\ pulse.entropy = p.entropy
      /\ pulse.reason = p.reason /\ pulse.worded = p.worded /\ pulse.of = p.of
  BY DEF TakesOver, FailureReady, FailureFields
<1>2. pulse.type = "failure" /\ head.type = "commit"
  BY <1>1 DEF FailureReady
<1>3. head.seq = seq
  BY <1>2 DEF HeadFits, Genesis
<1>4. SchemaOK(pulse) /\ ClocksOK(pulse) /\ StatementsOK(pulse)
  BY <1>1, <1>2 DEF FailureReady, SchemaOK, ClocksOK, StatementsOK
<1>5. (pulse.amiss = {} => FailureOK(pulse)) /\ FollowsOK(pulse, head)
  BY <1>1, <1>2, <1>3 DEF FailureReady, FailureOK, FollowsOK
<1>6. pulse.amiss = {} => VerifiedButEntropy(pulse, head)
  BY <1>1, <1>2, <1>4, <1>5 DEF VerifiedButEntropy
<1>7. EntropyOK(pulse) \/ RotatedBetween(pulse, head)
  BY <1>1, <1>2, <1>3 DEF FailureReady, PinnedAt, EntropyOK, RotatedBetween
<1> QED
  BY <1>6, <1>7

LEMMA SkipVerifies ==
  ASSUME Counted, HeadFits, NEW p, SkipReady(p), NEW pulse, TakesOver(pulse, p),
         KeyAllowed("aggregator", pulse.outer, seq + 1)
  PROVE  /\ pulse.amiss = {} => VerifiedButEntropy(pulse, head)
         /\ EntropyOK(pulse)
<1>1. pulse.seq = seq + 1 /\ pulse.prev = seq /\ pulse.type = p.type /\ pulse.sts = p.sts
  BY DEF TakesOver, SkipReady
<1>2. pulse.type = "skip" /\ head.type # "commit"
  BY <1>1 DEF SkipReady
<1>3. SchemaOK(pulse) /\ ClocksOK(pulse) /\ StatementsOK(pulse) /\ EntropyOK(pulse)
  BY <1>1, <1>2 DEF SkipReady, SchemaOK, ClocksOK, StatementsOK, EntropyOK
<1>4. FollowsOK(pulse, head)
  BY <1>1, <1>2 DEF HeadFits, PulseTypes, FollowsOK, Genesis
<1>5. pulse.amiss = {} => SkipOK(pulse)
  BY DEF SkipOK
<1> QED
  BY <1>1, <1>2, <1>3, <1>4, <1>5 DEF VerifiedButEntropy

LEMMA ReadyVerifies ==
  ASSUME Counted, HeadFits, NEW p, Ready(p), NEW pulse, TakesOver(pulse, p),
         KeyAllowed("aggregator", pulse.outer, seq + 1)
  PROVE  /\ pulse.amiss = {} => VerifiedButEntropy(pulse, head)
         /\ EntropyOK(pulse) \/ RotatedBetween(pulse, head)
         /\ (pulse.type = "commit" /\ pulse.self # {} /\ pulse.trigger # {}) =>
              VerdictOf(CadenceReadings(pulse)) = "SATISFIED"
<1>1. pulse.type = p.type
  BY ReadyFields DEF TakesOver
<1>2. CASE CommitReady(p)
  BY <1>2, CommitVerifies
<1>3. CASE RevealReady(p)
  BY <1>1, <1>3, RevealVerifies DEF RevealReady
<1>4. CASE FailureReady(p)
  BY <1>1, <1>4, FailureVerifies DEF FailureReady
<1>5. CASE SkipReady(p)
  BY <1>1, <1>5, SkipVerifies DEF SkipReady
<1> QED
  BY <1>2, <1>3, <1>4, <1>5 DEF Ready

\* What is amiss fails the verifier, and nothing else does.
LEMMA FailsForCause ==
  ASSUME NEW pulse, NEW q, VerifiedButEntropy(PutRight(pulse), q), EntropyOK(pulse) \/ RotatedBetween(pulse, q),
         pulse.type \in {"commit", "reveal", "failure", "skip"}, OfType(pulse.amiss, pulse.type),
         pulse.amiss = {} => PutRight(pulse) = pulse
  PROVE  Verified(pulse, q) <=> (pulse.amiss = {} /\ ~RotatedBetween(pulse, q))
<1>1. ~(EntropyOK(pulse) /\ RotatedBetween(pulse, q))
  BY DEF EntropyOK, PinnedAt, RotatedBetween
<1>2. CASE pulse.amiss = {}
  <2>1. VerifiedButEntropy(pulse, q)
    BY <1>2
  <2> QED
    BY <1>1, <1>2, <2>1 DEF Verified
<1>3. ASSUME pulse.amiss # {}, VerifiedButEntropy(pulse, q) PROVE FALSE
  <2>1. /\ pulse.type = "commit" => {"form", "leak"} \cap pulse.amiss = {}
        /\ pulse.type = "reveal" => "length" \notin pulse.amiss
        /\ pulse.type = "failure" => {"form", "names", "leak"} \cap pulse.amiss = {}
        /\ pulse.type = "skip" => "blank" \notin pulse.amiss
    BY <1>3 DEF VerifiedButEntropy, CommitOK, RevealOK, FailureOK, SkipOK
  <2> QED
    BY <1>3, <2>1 DEF OfType
<1> QED
  BY <1>2, <1>3 DEF Verified

-----------------------------------------------------------------------------
(* One lemma per action. *)
\* The steps that neither seal nor let time pass: only the draft changes.
Drafting == UNCHANGED <<seq, head, now>> /\ minted' = <<>>

LEMMA DraftingKeeps ==
  ASSUME MintInv, Drafting, DraftFits'
  PROVE  MintInv'
<1>1. Counted' /\ HeadFits'
  BY DEF MintInv, Drafting, Counted, HeadFits
<1>2. JustMinted' /\ MintedVerifies'
  BY DEF Drafting, JustMinted, MintedVerifies
<1> QED
  BY <1>1, <1>2 DEF MintInv

LEMMA SealingKeeps ==
  ASSUME MintInv, Drafting, seq < MaxMinted, NEW p, Ready(p), draft' = [pc |-> "sealing", pulse |-> p]
  PROVE  MintInv'
<1>1. draft'.pc = "sealing" /\ draft'.pulse = p /\ draft' # NoDraft
  BY DEF NoDraft
<1>2. Ready(p) => Ready(draft.pulse)'
  BY <1>1 DEF Drafting, Ready, CommitReady, RevealReady, FailureReady, SkipReady, HostsReady, CadenceReady, OnTheGrid
<1>3. DraftFits'
  BY <1>1, <1>2 DEF Drafting, DraftFits, CommitBegun, RevealBegun
<1> QED
  BY <1>3, DraftingKeeps

LEMMA InitFits ==
  ASSUME MintInit
  PROVE  MintInv
<1>1. Counted
  BY MintingAssumption DEF MintInit, Counted
<1>2. HeadFits
  BY DEF MintInit, HeadFits, Genesis, PulseTypes
<1>3. DraftFits
  BY DEF MintInit, DraftFits, NoDraft, CommitBegun, RevealBegun
<1>4. JustMinted /\ MintedVerifies
  BY DEF MintInit, JustMinted, MintedVerifies
<1> QED
  BY <1>1, <1>2, <1>3, <1>4 DEF MintInv

\* The cadence a commit starts from, and the draft of it.
StartRound(cad, latest) == IF cad.instant = {} THEN latest ELSE (CHOOSE t \in cad.instant : TRUE) \div Period + 1
Begun(lead, cad, latest) ==
  [pc |-> "commit", lead |-> lead, cad |-> cad, target |-> StartRound(cad, latest) + lead, latest |-> latest]
LEMMA StartFits ==
  ASSUME NEW self \in Wakings, NEW taken \in Taken(Woken(self)), NEW lead \in Nat, NEW latest, now \in Nat
  PROVE  LET cad == WithTrigger(Woken(self), taken) IN CadenceFits(cad, StartRound(cad, latest) + lead, lead)
<1> DEFINE cad == WithTrigger(Woken(self), taken)
           start == StartRound(cad, latest)
<1>1. cad.self = self /\ cad.trigger = taken /\ cad.instant = self \cup {tr.at : tr \in taken}
  BY DEF WithTrigger, Woken
<1> HIDE DEF cad
<1>2. \A t \in self : t \in Nat /\ OnBoundary(t)
  BY DEF Wakings, FreshInstant
<1>3. \A t \in self, u \in self : t = u
  BY DEF Wakings
<1>4. \A tr \in taken : tr \in Triggers /\ TriggerOK(tr, seq + 1) /\ \A t \in self : tr.at = t
  BY DEF Taken, Woken
<1>5. \A tr \in taken : tr.at \in Nat /\ OnBoundary(tr.at) /\ PinnedAt("time", tr, seq + 1)
  BY <1>4 DEF Triggers, TriggerOK, FreshInstant, PinnedAt
<1>6. \A a \in taken, b \in taken : a = b
  BY DEF Taken
<1>7. \A t \in cad.instant : t \in Nat /\ OnBoundary(t)
  BY <1>1, <1>2, <1>5
<1>8. \A t \in cad.instant, u \in cad.instant : t = u
  BY <1>1, <1>3, <1>4, <1>6
<1>9. ASSUME NEW t \in cad.instant
      PROVE  ReleaseTime(start + lead) = t + lead * Period
  <2>1. (CHOOSE u \in cad.instant : TRUE) = t
    BY <1>8
  <2>2. start = t \div Period + 1
    BY <2>1 DEF StartRound
  <2> HIDE DEF start
  <2> QED
    BY <1>7, <2>2, OnGrid
<1> QED
  BY <1>1, <1>5, <1>7, <1>8, <1>9 DEF CadenceFits, cad

LEMMA StartCommitFits ==
  ASSUME MintInv, StartCommit
  PROVE  MintInv'
<1>1. PICK lead \in Leads, self \in Wakings, latest \in Latest : \E taken \in Taken(Woken(self)) :
        draft' = Begun(lead, WithTrigger(Woken(self), taken), latest)
  BY DEF StartCommit, Begun, StartRound
<1>a. PICK taken \in Taken(Woken(self)) : draft' = Begun(lead, WithTrigger(Woken(self), taken), latest)
  BY <1>1
<1> DEFINE cad == WithTrigger(Woken(self), taken)
           start == StartRound(cad, latest)
<1>2. Drafting /\ seq < MaxMinted /\ head.type # "commit"
  BY DEF StartCommit, Drafting, HeadResolved
<1>3. now \in Nat /\ lead \in Nat
  BY MintingAssumption DEF MintInv, Counted
<1>4. CadenceFits(cad, start + lead, lead)
  BY <1>3, StartFits
<1>5. draft'.pc = "commit" /\ draft'.cad = cad /\ draft'.target = start + lead /\ draft'.lead = lead
  BY <1>a DEF Begun
<1> HIDE DEF cad, start
<1>6. CommitBegun'
  BY <1>2, <1>4, <1>5 DEF Drafting, CommitBegun, CadenceFits
<1>7. DraftFits'
  BY <1>2, <1>5, <1>6 DEF Drafting, DraftFits, NoDraft, RevealBegun
<1> QED
  BY <1>2, <1>7, DraftingKeeps

LEMMA CollectedReady ==
  ASSUME NEW n, NEW sts \in CollectAll(n)
  PROVE  /\ DOMAIN sts = Hosts
         /\ \A h \in Hosts : PinnedAt(h, sts[h], n)
         /\ \A h \in Clocks : sts[h].healthy
<1>1. DOMAIN sts = {"gnss", "time", "witness"}
  BY DEF CollectAll
<1>2. sts["gnss"] \in Collected("gnss", n) /\ sts["time"] \in Collected("time", n) /\ sts["witness"] \in Collected("witness", n)
  BY DEF CollectAll
<1> QED
  BY <1>1, <1>2 DEF Hosts, Clocks, Collected, CheckStatement, ClockHealthy, PinnedAt

LEMMA GatherCommitFits ==
  ASSUME MintInv, GatherCommit
  PROVE  MintInv'
<1>1. PICK sts \in CollectAll(seq + 1), ent \in Statements("entropy"), bound \in {draft.target, draft.target + 1},
           anchor \in Anchors, amiss \in SUBSET Overlooked.commit,
           sent \in (IF draft.cad.trigger = {} THEN Taken(draft.cad) ELSE {draft.cad.trigger}) :
        /\ CheckStatement("entropy", ent, seq + 1) /\ bound = draft.target
        /\ AnchorInTime(anchor, draft.target)
        /\ draft.latest < draft.target
        /\ draft.cad.instant # {} => draft.target - draft.latest >= MinLead
        /\ draft' = [pc |-> "sealing",
                    pulse |-> [type |-> "commit", sts |-> sts, entropy |-> ent, bound |-> bound, anchor |-> anchor,
                               target |-> draft.target, release |-> ReleaseTime(draft.target), lead |-> draft.lead,
                               round |-> draft.latest, self |-> draft.cad.self, trigger |-> sent,
                               targeting |-> IF draft.cad.instant = {} THEN "latest" ELSE "instant", amiss |-> amiss]]
  BY DEF GatherCommit
<1> DEFINE p == [type |-> "commit", sts |-> sts, entropy |-> ent, bound |-> bound, anchor |-> anchor,
                 target |-> draft.target, release |-> ReleaseTime(draft.target), lead |-> draft.lead,
                 round |-> draft.latest, self |-> draft.cad.self, trigger |-> sent,
                 targeting |-> IF draft.cad.instant = {} THEN "latest" ELSE "instant", amiss |-> amiss]
<1>2. Drafting /\ draft.pc = "commit" /\ draft # NoDraft
  BY DEF GatherCommit, Drafting, NoDraft
<1>3. head.type # "commit" /\ CadenceFits(draft.cad, draft.target, draft.lead) /\ seq < MaxMinted
  BY <1>2 DEF MintInv, DraftFits, CommitBegun
<1>4. \A tr \in sent : /\ PinnedAt("time", tr, seq + 1) /\ OnBoundary(tr.at)
                       /\ \A t \in draft.cad.instant : tr.at = t
  <2>1. CASE draft.cad.trigger = {}
    BY <2>1 DEF Taken, TriggerOK, FreshInstant, PinnedAt
  <2>2. CASE draft.cad.trigger # {}
    BY <1>3, <2>2 DEF CadenceFits
  <2> QED
    BY <2>1, <2>2
<1>5. \A t \in draft.cad.instant : OnTheGrid(p, t)
  BY <1>3 DEF CadenceFits, OnTheGrid
<1>6. CadenceReady(p)
  <2>1. p.self = draft.cad.self /\ p.trigger = sent /\ draft.cad.self \subseteq draft.cad.instant
    BY <1>3 DEF CadenceFits
  <2>2. p.targeting = "instant" => draft.cad.instant # {}
    OBVIOUS
  <2> HIDE DEF p
  <2>3. \A tr \in sent : p.targeting = "instant" => OnTheGrid(p, tr.at)
    BY <1>4, <1>5, <2>2
  <2> QED
    BY <1>4, <1>5, <2>1, <2>3 DEF CadenceReady
<1>7. HostsReady(p)
  BY CollectedReady DEF HostsReady
<1>8. CommitReady(p)
  <2>1. DOMAIN p = CommitFields
    BY DEF CommitFields
  <2>2. PinnedAt("entropy", p.entropy, seq + 1)
    BY <1>1 DEF CheckStatement, PinnedAt
  <2>4. p.amiss \subseteq {"form", "leak"}
    BY DEF Overlooked
  <2>3. p.type = "commit" /\ p.bound = p.target /\ p.release = ReleaseTime(p.target) /\ p.round < p.target /\ p.anchor < p.release
    BY <1>1 DEF AnchorInTime
  <2> HIDE DEF p
  <2> QED
    BY <1>3, <1>6, <1>7, <2>1, <2>2, <2>3, <2>4 DEF CommitReady
<1>9. Ready(p)
  BY <1>8 DEF Ready
<1>10. draft' = [pc |-> "sealing", pulse |-> p]
  BY <1>1
<1> HIDE DEF p
<1> QED
  BY <1>2, <1>3, <1>9, <1>10, SealingKeeps

LEMMA StartRevealFits ==
  ASSUME MintInv, StartReveal
  PROVE  MintInv'
<1>1. Drafting /\ head.type = "commit" /\ seq < MaxMinted /\ draft'.pc = "reveal" /\ draft' # NoDraft
  BY DEF StartReveal, Drafting, NoDraft
<1>2. DraftFits'
  BY <1>1 DEF Drafting, DraftFits, CommitBegun, RevealBegun
<1> QED
  BY <1>1, <1>2, DraftingKeeps

LEMMA GatherRevealFits ==
  ASSUME MintInv, GatherReveal
  PROVE  MintInv'
<1>1. PICK sts \in CollectAll(seq + 1), ent \in Statements("entropy"), opens \in BOOLEAN, anchor \in Anchors,
           amiss \in SUBSET Overlooked.reveal :
        /\ ResolvesWith(ent) /\ opens /\ "form" \notin head.amiss
        /\ AnchoredAfter(anchor, head.release)
        /\ draft' = [pc |-> "sealing",
                     pulse |-> [type |-> "reveal", sts |-> sts, entropy |-> ent, opens |-> opens, anchor |-> anchor,
                                round |-> head.target, release |-> head.release, of |-> seq, amiss |-> amiss]]
  BY DEF GatherReveal
<1> DEFINE p == [type |-> "reveal", sts |-> sts, entropy |-> ent, opens |-> opens, anchor |-> anchor,
                 round |-> head.target, release |-> head.release, of |-> seq, amiss |-> amiss]
<1>2. Drafting /\ draft.pc = "reveal" /\ draft # NoDraft
  BY DEF GatherReveal, Drafting, NoDraft
<1>3. head.type = "commit" /\ seq < MaxMinted
  BY <1>2 DEF MintInv, DraftFits, RevealBegun
<1>4. HostsReady(p)
  BY CollectedReady DEF HostsReady
<1>5. DOMAIN p = RevealFields
  BY DEF RevealFields
<1>6. PinnedAt("entropy", p.entropy, seq)
  BY <1>1 DEF ResolvesWith, CheckStatement, PinnedAt
<1>7. /\ p.type = "reveal" /\ p.opens /\ p.round = head.target /\ p.release = head.release /\ p.of = seq
      /\ p.release <= p.anchor /\ p.amiss \subseteq {"length"}
  BY <1>1 DEF AnchoredAfter, Overlooked
<1>8. draft' = [pc |-> "sealing", pulse |-> p]
  BY <1>1
<1> HIDE DEF p
<1>9. Ready(p)
  BY <1>3, <1>4, <1>5, <1>6, <1>7 DEF RevealReady, Ready
<1> QED
  BY <1>2, <1>3, <1>8, <1>9, SealingKeeps

LEMMA GatherFailFits ==
  ASSUME MintInv, GatherFail
  PROVE  MintInv'
<1>1. PICK had \in SUBSET Hosts, sts \in CollectAll(seq + 1), ent \in Statements("entropy"),
           worded \in {"", "as sent", "reworded"}, amiss \in SUBSET Overlooked.failure :
        /\ ResolvesWith(ent) /\ worded # ""
        /\ draft' = [pc |-> "sealing",
                     pulse |-> [type |-> "failure", sts |-> [h \in had |-> sts[h]], entropy |-> ent, worded |-> worded,
                                reason |-> PublishedReason(worded), of |-> seq, amiss |-> amiss \cup head.amiss]]
  BY DEF GatherFail
<1> DEFINE p == [type |-> "failure", sts |-> [h \in had |-> sts[h]], entropy |-> ent, worded |-> worded,
                 reason |-> PublishedReason(worded), of |-> seq, amiss |-> amiss \cup head.amiss]
<1>2. Drafting /\ head.type = "commit" /\ seq < MaxMinted
  BY DEF GatherFail, Drafting
<1>3. \A h \in DOMAIN p.sts : PinnedAt(h, p.sts[h], seq + 1)
  BY CollectedReady
<1>4. DOMAIN p = FailureFields
  BY DEF FailureFields
<1>5. PinnedAt("entropy", p.entropy, seq)
  BY <1>1 DEF ResolvesWith, CheckStatement, PinnedAt
<1>6. p.type = "failure" /\ p.reason = p.worded /\ p.of = seq /\ p.amiss \subseteq {"form", "names", "leak"}
  <2>1. head.amiss \subseteq {"form"}
    BY <1>2 DEF MintInv, HeadFits
  <2> QED
    BY <2>1 DEF PublishedReason, Overlooked
<1>7. draft' = [pc |-> "sealing", pulse |-> p]
  BY <1>1
<1> HIDE DEF p
<1>8. Ready(p)
  BY <1>2, <1>3, <1>4, <1>5, <1>6 DEF FailureReady, Ready
<1> QED
  BY <1>2, <1>7, <1>8, SealingKeeps

LEMMA GatherSkipFits ==
  ASSUME MintInv, GatherSkip
  PROVE  MintInv'
<1>0. PICK amiss \in SUBSET Overlooked.skip :
        draft' = [pc |-> "sealing", pulse |-> [type |-> "skip", sts |-> [h \in {} |-> h], amiss |-> amiss]]
  BY DEF GatherSkip
<1> DEFINE p == [type |-> "skip", sts |-> [h \in {} |-> h], amiss |-> amiss]
<1>1. Drafting /\ head.type # "commit" /\ seq < MaxMinted /\ draft' = [pc |-> "sealing", pulse |-> p]
  BY <1>0 DEF GatherSkip, Drafting, HeadResolved
<1>2. p.type = "skip" /\ DOMAIN p = {"type", "sts", "amiss"} /\ DOMAIN p.sts = {} /\ p.amiss \subseteq {"blank"}
  BY DEF Overlooked
<1> HIDE DEF p
<1>3. Ready(p)
  BY <1>1, <1>2 DEF SkipReady, Ready
<1> QED
  BY <1>1, <1>3, SealingKeeps

LEMMA SealPulseFits ==
  ASSUME MintInv, SealPulse
  PROVE  MintInv'
<1>1. PICK key, tokens : /\ KeyAllowed("aggregator", key, seq + 1)
                         /\ minted' = <<SealedPulse(key, tokens), head>>
                         /\ head' = Predecessor(SealedPulse(key, tokens))
  BY DEF SealPulse, SealKeyOK, SealedPulse, Added
<1> DEFINE pulse == SealedPulse(key, tokens)
           p == draft.pulse
<1>2. draft.pc = "sealing" /\ draft # NoDraft /\ seq' = seq + 1 /\ draft' = NoDraft /\ now' = now
  BY DEF SealPulse, NoDraft
<1>3. Ready(p) /\ seq < MaxMinted /\ Counted /\ HeadFits
  BY <1>2 DEF MintInv, DraftFits
<1>4. /\ TakesOver(pulse, p) /\ pulse.outer = key /\ pulse.amiss = p.amiss
      /\ TakesOver(PutRight(pulse), p) /\ PutRight(pulse).outer = key /\ PutRight(pulse).amiss = {}
      /\ pulse.amiss = {} => PutRight(pulse) = pulse
  BY <1>3, SealTakesOver DEF SealedPulse
<1>5. minted'[1] = pulse /\ minted'[2] = head /\ head' = Predecessor(pulse) /\ pulse.seq = seq + 1
  BY <1>1, <1>4 DEF TakesOver
<1> HIDE DEF pulse, p
<1>a. pulse.type = p.type /\ p.type \in {"commit", "reveal", "failure", "skip"}
  BY <1>3, <1>4, ReadyFields DEF TakesOver
<1>6. Counted'
  BY <1>2, <1>3, MintingAssumption DEF Counted
<1>7. MintedVerifies'
  <2>1. VerifiedButEntropy(PutRight(pulse), head)
    BY <1>1, <1>3, <1>4, ReadyVerifies
  <2>2. /\ EntropyOK(pulse) \/ RotatedBetween(pulse, head)
        /\ (pulse.type = "commit" /\ pulse.self # {} /\ pulse.trigger # {}) =>
             VerdictOf(CadenceReadings(pulse)) = "SATISFIED"
    BY <1>1, <1>3, <1>4, ReadyVerifies
  <2>3. Verified(pulse, head) <=> (pulse.amiss = {} /\ ~RotatedBetween(pulse, head))
    BY <1>3, <1>4, <1>a, <2>1, <2>2, ReadyFields, FailsForCause
  <2> QED
    BY <1>5, <2>1, <2>2, <2>3 DEF MintedVerifies
<1>8. HeadFits'
  <2>1. head'.seq = seq' /\ seq' # 0 /\ head'.type = pulse.type /\ head'.type \in PulseTypes
    BY <1>2, <1>3, <1>5, <1>a DEF Predecessor, Counted, PulseTypes
  <2>2. ASSUME pulse.type = "commit"
        PROVE  /\ pulse.release = ReleaseTime(pulse.target) /\ pulse.anchor < pulse.release
    <3>1. CommitReady(p)
      BY <1>3, <1>a, <2>2 DEF Ready, RevealReady, FailureReady, SkipReady
    <3>2. pulse.release = p.release /\ pulse.target = p.target /\ pulse.anchor = p.anchor
      BY <1>4, <3>1 DEF TakesOver, CommitReady, CommitFields
    <3> QED
      BY <3>1, <3>2 DEF CommitReady
  <2>3. pulse.type = "commit" => /\ head'.release = pulse.release /\ head'.target = pulse.target
                                /\ head'.anchor = pulse.anchor /\ head'.amiss \subseteq {"form"}
    BY <1>5 DEF Predecessor
  <2> QED
    BY <2>1, <2>2, <2>3 DEF HeadFits
<1>9. DraftFits' /\ JustMinted'
  BY <1>1, <1>2, <1>5 DEF DraftFits, NoDraft, CommitBegun, RevealBegun, JustMinted
<1> QED
  BY <1>6, <1>7, <1>8, <1>9 DEF MintInv

LEMMA GiveUpFits ==
  ASSUME MintInv, GiveUp
  PROVE  MintInv'
<1>1. Drafting /\ draft' = NoDraft
  BY DEF GiveUp, Drafting
<1>2. DraftFits'
  BY <1>1 DEF DraftFits, NoDraft, CommitBegun, RevealBegun
<1> QED
  BY <1>1, <1>2, DraftingKeeps

LEMMA TimePassesFits ==
  ASSUME MintInv, TimePasses
  PROVE  MintInv'
<1>1. Counted'
  BY MintingAssumption DEF MintInv, Counted, TimePasses
<1>2. HeadFits' /\ JustMinted' /\ MintedVerifies'
  BY DEF MintInv, TimePasses, HeadFits, JustMinted, MintedVerifies
<1>3. draft.pc = "sealing" => (Ready(draft.pulse) => Ready(draft.pulse)')
  BY DEF TimePasses, Ready, CommitReady, RevealReady, FailureReady, SkipReady, HostsReady, CadenceReady, OnTheGrid
<1>4. DraftFits'
  BY <1>3 DEF MintInv, TimePasses, DraftFits, CommitBegun, RevealBegun, CadenceFits
<1> QED
  BY <1>1, <1>2, <1>4 DEF MintInv

LEMMA StutterFits ==
  ASSUME MintInv, UNCHANGED mintVars
  PROVE  MintInv'
<1>1. Counted' /\ HeadFits' /\ JustMinted' /\ MintedVerifies'
  BY DEF MintInv, mintVars, Counted, HeadFits, JustMinted, MintedVerifies
<1>2. Ready(draft.pulse) => Ready(draft.pulse)'
  BY DEF mintVars, Ready, CommitReady, RevealReady, FailureReady, SkipReady, HostsReady, CadenceReady, OnTheGrid
<1>3. DraftFits'
  BY <1>2 DEF MintInv, mintVars, DraftFits, CommitBegun, RevealBegun, CadenceFits
<1> QED
  BY <1>1, <1>3 DEF MintInv

\* The invariant that the seal relies on: a draft being sealed satisfies all that
\* the verifier asks of it (pulse.py's checks while it gathers).
THEOREM MintingInductive == MintSpec => []MintInv
<1>1. MintInit => MintInv
  BY InitFits
<1>2. MintInv /\ [MintNext]_mintVars => MintInv'
  BY StartCommitFits, GatherCommitFits, StartRevealFits, GatherRevealFits, GatherFailFits, GatherSkipFits,
     SealPulseFits, GiveUpFits, TimePassesFits, StutterFits DEF MintNext
<1> QED
  BY <1>1, <1>2, PTL DEF MintSpec

\* The head, the draft and the pulse just written fit the number of pulses, and
\* only a resolution is put together on a commit (pulse.py cmd_*), for any keys,
\* clocks and number of pulses.
THEOREM MintTypes == MintSpec => []MintTypeOK
<1>1. MintInv => MintTypeOK
  <2> SUFFICES ASSUME MintInv PROVE MintTypeOK
    OBVIOUS
  <2>1. draft.pc = "sealing" => (draft.pulse.type \in {"reveal", "failure"} <=> head.type = "commit")
    BY DEF MintInv, DraftFits, Ready, CommitReady, RevealReady, FailureReady, SkipReady
  <2> QED
    BY <2>1 DEF MintInv, Counted, HeadFits, DraftFits, JustMinted, MintTypeOK
<1> QED
  BY <1>1, MintingInductive, PTL

\* Every pulse pulse.py writes passes verify.py's strict checks against its
\* predecessor if and only if nothing is amiss in it that pulse.py does not look at
\* and it is no resolution straddling a rotation of the entropy key; and it fails
\* nothing else.  For any history of keys, period, lead, lag of the anchor and
\* answers of hosts and relays.
THEOREM WhatIsMintedVerifies == MintSpec => []MintedVerifies
<1>1. MintInv => MintedVerifies
  BY DEF MintInv
<1> QED
  BY <1>1, MintingInductive, PTL
=============================================================================
