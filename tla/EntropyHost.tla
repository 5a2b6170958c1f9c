----------------------------- MODULE EntropyHost -----------------------------
(***************************************************************************)
(* The entropy host: hosts/entropy_host.py behind the request gate of      *)
(* hosts/agentd.py.  It draws E, keeps it in one file per pulse number     *)
(* under ~/beacon/pending, signs commit / reveal / failure statements, and *)
(* erases E when the aggregator finalizes a resolution.                    *)
(*                                                                         *)
(* The caller is NOT modelled here: any allow-listed request may arrive at *)
(* any time, in any order, any number of times, so what holds of this      *)
(* module holds for a retried, duplicated, reordered or abandoned call.    *)
(* BeaconCycle composes the host with the aggregator that really calls it. *)
(*                                                                         *)
(* Failures covered: the host loses power inside cmd_commit (after the     *)
(* .tmp file exists, before the rename) and inside cmd_finalize (after the *)
(* zero overwrite, after the record); the QRNG or drand is unreachable.    *)
(* Left out: signatures and statement fields no guard reads; a pulse hash  *)
(* is an opaque value; requests are atomic apart from the crash points     *)
(* (agentd serialises them with _exec_lock).                               *)
(***************************************************************************)
EXTENDS Integers, FiniteSets

CONSTANTS
  Seqs,        \* pulse numbers the aggregator may name
  Hashes,      \* pulse hashes of published pulses
  ZeroHash,    \* "0"*64: the resolver of a commit that was never published
  NoRecord,    \* no .revealed / .abandoned file for this number
  MaxDraws     \* bound: how many times E is drawn

ASSUME SeqsAssumption == Seqs \subseteq Nat
ASSUME HashAssumption == /\ ZeroHash \notin Hashes
                         /\ NoRecord \notin Hashes \cup {ZeroHash}
ASSUME DrawsAssumption == MaxDraws \in Nat

VARIABLES
  held,        \* held[s]: which of .secret / .revealing / .abandoning exists
  content,     \* content[s]: what that file holds
  draw,        \* draw[s]: identity of the E drawn last for s (0: never)
  revealedBy,  \* resolver named in s.revealed
  abandonedBy, \* resolver named in s.abandoned
  tmpLeft,     \* numbers with a leftover .secret.tmp
  lastSigned,  \* agentd's state.json: highest number served per phase
  drawn,       \* how many E were drawn so far
  released,    \* draws whose target round drand has published
  signed,      \* history: every statement that left this host
  retired      \* history: every finalized secret and its resolver

hostVars == <<held, content, draw, revealedBy, abandonedBy, tmpLeft,
              lastSigned, drawn, released, signed, retired>>
recordVars == <<revealedBy, abandonedBy, retired>>

Phases   == {"commit", "reveal", "failure"}
Resolver == Hashes \cup {ZeroHash}
Records  == Resolver \cup {NoRecord}

Statement(p, s, e, b) == [phase |-> p, seq |-> s, e |-> e, binding |-> b]
Retirement(s, e, how, r) == [seq |-> s, e |-> e, how |-> how, by |-> r]

HostInit ==
  /\ held        = [s \in Seqs |-> "none"]
  /\ content     = [s \in Seqs |-> "none"]
  /\ draw        = [s \in Seqs |-> 0]
  /\ revealedBy  = [s \in Seqs |-> NoRecord]
  /\ abandonedBy = [s \in Seqs |-> NoRecord]
  /\ tmpLeft     = {}
  /\ lastSigned  = [p \in Phases |-> 0]
  /\ drawn       = 0
  /\ released    = {}
  /\ signed      = {}
  /\ retired     = {}

-----------------------------------------------------------------------------
(* Guards                                                                  *)

\* glob_pending: files of a secret that is not finalized.
Pending == {s \in Seqs : held[s] # "none"}

\* agentd.monotonic: never serve a number lower than the last of this phase.
\* The counter advances before the script runs, so also when it then refuses.
Admit(p, s) ==
  /\ s >= lastSigned[p]
  /\ lastSigned' = [lastSigned EXCEPT ![p] = s]

\* refuse_if_seq_resolved_a_published_commit, the equivocation guard.
ResolvedPublished(s) ==
  \/ held[s] \in {"revealing", "abandoning"}
  \/ revealedBy[s] \in Hashes
  \/ abandonedBy[s] \in Hashes

\* Mutant: a commitment of another number is not looked for.
MayCommitWhileHeld(s) == held[s] = "none" /\ ~ResolvedPublished(s) /\ s \notin tmpLeft

\* The refusals at the head of cmd_commit, and O_EXCL on the .tmp file.
MayCommit(s) ==
  /\ Pending = {}
  /\ ~ResolvedPublished(s)
  /\ s \notin tmpLeft

\* Mutant: reveal-prepare picks an abandoned secret up again.
RevealableAgain == {"secret", "revealing", "abandoning"}

\* _find in cmd_reveal and in cmd_abandon.
Revealable  == {"secret", "revealing"}
Abandonable == {"secret", "revealing", "abandoning"}
\* json.load of a file whose bytes were zeroed raises.
Readable(s) == content[s] # "garbled"

-----------------------------------------------------------------------------
(* Requests                                                                *)

\* cmd_commit: E is durable in .secret before the signed statement leaves.
Commit(s) ==
  /\ drawn < MaxDraws
  /\ Admit("commit", s)
  /\ MayCommit(s)
  /\ drawn'   = drawn + 1
  /\ held'    = [held EXCEPT ![s] = "secret"]
  /\ content' = [content EXCEPT ![s] = "E"]
  /\ draw'    = [draw EXCEPT ![s] = drawn']
  /\ signed'  = signed \cup {Statement("commit", s, drawn', ZeroHash)}
  /\ UNCHANGED <<recordVars, tmpLeft, released>>

\* Power lost while .secret.tmp is written: no statement, the .tmp remains.
CommitCrash(s) ==
  /\ drawn < MaxDraws
  /\ Admit("commit", s)
  /\ MayCommit(s)
  /\ drawn'   = drawn + 1
  /\ tmpLeft' = tmpLeft \cup {s}
  /\ UNCHANGED <<held, content, draw, recordVars, released, signed>>

\* Any refusal of cmd_commit, the QRNG's included.
CommitRefused(s) ==
  /\ Admit("commit", s)
  /\ UNCHANGED <<held, content, draw, recordVars, tmpLeft, drawn, released, signed>>

\* cmd_reveal: .secret becomes .revealing, then the round is checked against
\* drand's own clock, then E is signed out.  Nothing is finalized here.
RevealPrepare(s, b) ==
  /\ Admit("reveal", s)
  /\ held[s] \in Revealable
  /\ content[s] = "E"
  /\ draw[s] \in released
  /\ held'   = [held EXCEPT ![s] = "revealing"]
  /\ signed' = signed \cup {Statement("reveal", s, draw[s], b)}
  /\ UNCHANGED <<content, draw, recordVars, tmpLeft, drawn, released>>

\* cmd_reveal that dies: nothing to reveal, E unreadable, the round not out
\* or drand unreachable.  The rename has already happened.
RevealRefused(s) ==
  /\ Admit("reveal", s)
  /\ held' = IF held[s] = "secret" THEN [held EXCEPT ![s] = "revealing"] ELSE held
  /\ UNCHANGED <<content, draw, recordVars, tmpLeft, drawn, released, signed>>

\* cmd_abandon: the file becomes .abandoning and the failure is signed.
AbandonPrepare(s, b) ==
  /\ Admit("failure", s)
  /\ held[s] \in Abandonable
  /\ Readable(s)
  /\ held'   = [held EXCEPT ![s] = "abandoning"]
  /\ signed' = signed \cup {Statement("failure", s, draw[s], b)}
  /\ UNCHANGED <<content, draw, recordVars, tmpLeft, drawn, released>>

\* cmd_abandon that dies: no file, or one it renamed and cannot read.
AbandonRefused(s) ==
  /\ Admit("failure", s)
  /\ held[s] \notin Abandonable \/ ~Readable(s)
  /\ held' = IF held[s] \in Abandonable THEN [held EXCEPT ![s] = "abandoning"] ELSE held
  /\ UNCHANGED <<content, draw, recordVars, tmpLeft, drawn, released, signed>>

\* Mutant: finalize takes a secret that nothing was prepared for.
FinalizableAny(s) == s \in Pending /\ Readable(s)

\* cmd_finalize finds a prepared file it can read.
Finalizable(s) == held[s] \in {"revealing", "abandoning"} /\ Readable(s)

\* cmd_finalize: overwrite with zeros, write the record, rename.  Repeating
\* it on a .revealed / .abandoned file changes nothing (a stuttering step).
Finalize(s, r) ==
  /\ Finalizable(s)
  /\ held'    = [held EXCEPT ![s] = "none"]
  /\ content' = [content EXCEPT ![s] = "none"]
  /\ retired' = retired \cup {Retirement(s, draw[s], held[s], r)}
  /\ IF held[s] = "revealing"
       THEN revealedBy'  = [revealedBy EXCEPT ![s] = r] /\ UNCHANGED abandonedBy
       ELSE abandonedBy' = [abandonedBy EXCEPT ![s] = r] /\ UNCHANGED revealedBy
  /\ UNCHANGED <<draw, tmpLeft, lastSigned, drawn, released, signed>>

\* Power lost inside cmd_finalize: after the zeros (or the truncation that
\* opening for "w" does), or after the record and before the rename.
FinalizeCrash(s) ==
  /\ Finalizable(s)
  /\ \E c \in {"garbled", "record"} : content' = [content EXCEPT ![s] = c]
  /\ UNCHANGED <<held, draw, recordVars, tmpLeft, lastSigned, drawn, released, signed>>

\* drand publishes the target round of draw e.
Release(e) ==
  /\ released' = released \cup {e}
  /\ UNCHANGED <<held, content, draw, recordVars, tmpLeft, lastSigned, drawn, signed>>

HostNext ==
  \/ \E s \in Seqs : \/ Commit(s) \/ CommitCrash(s) \/ CommitRefused(s)
                     \/ RevealRefused(s) \/ AbandonRefused(s) \/ FinalizeCrash(s)
                     \/ \E b \in Resolver : \/ RevealPrepare(s, b)
                                            \/ AbandonPrepare(s, b)
                                            \/ Finalize(s, b)
  \/ \E e \in 1..drawn : Release(e)

HostSpec == HostInit /\ [][HostNext]_hostVars

-----------------------------------------------------------------------------
(* Properties                                                              *)

\* Every variable has its type.
HostTypeOK ==
  /\ held        \in [Seqs -> {"none", "secret", "revealing", "abandoning"}]
  /\ content     \in [Seqs -> {"none", "E", "garbled", "record"}]
  /\ draw        \in [Seqs -> Nat]
  /\ revealedBy  \in [Seqs -> Records]
  /\ abandonedBy \in [Seqs -> Records]
  /\ tmpLeft     \subseteq Seqs
  /\ lastSigned  \in [Phases -> Nat]
  /\ drawn       \in Nat
  /\ released    \subseteq Nat
  /\ signed      \subseteq [phase : Phases, seq : Seqs, e : Nat, binding : Resolver]
  /\ retired     \subseteq [seq : Seqs, e : Nat, by : Resolver,
                            how : {"revealing", "abandoning"}]

\* "another commit is pending on this host": whatever is called in whatever
\* order, at most one secret is ever waiting to be resolved.
OneSecretHeld == \A s, t \in Pending : s = t

\* The equivocation guard (ERR-008): once a commitment of number s was
\* resolved against a published pulse, no E drawn later is committed to at s.
NoCommitAfterResolution ==
  \A r \in retired, c \in signed :
    r.by \in Hashes /\ c.phase = "commit" /\ c.seq = r.seq => c.e <= r.e

\* cmd_commit's durability rule: every commitment this host ever signed can
\* still be resolved (the file of that very draw is held, and holds E unless
\* a finalize already began), or has been retired with a record.
CommitmentBacked ==
  \A c \in signed : c.phase = "commit" =>
    \/ \E r \in retired : r.seq = c.seq /\ r.e = c.e
    \/ /\ held[c.seq] # "none" /\ draw[c.seq] = c.e
       /\ held[c.seq] = "secret" => content[c.seq] = "E"

\* A draw is retired at most once, and one whose abandonment was finalized
\* is never also finalized as revealed.
RetiredOnce == \A r1, r2 \in retired : r1.e = r2.e => r1 = r2

\* Custody of E, from the draw to the zeros: one secret at a time, no second
\* commitment to a number that was resolved, every commitment resolvable until
\* it is retired, and retired once.
HostCustody == OneSecretHeld /\ NoCommitAfterResolution /\ CommitmentBacked /\ RetiredOnce

\* Custody: after the host has signed the abandonment of a draw it never
\* signs a reveal of it, however often reveal-prepare is asked again.
NoRevealAfterAbandon ==
  [][\A c \in signed' \ signed : c.phase = "reveal" =>
       \A d \in signed : d.phase = "failure" => d.e # c.e]_hostVars

\* What the docstring of cmd_finalize ("Idempotent.") and PROTOCOL.md ("A
\* crash between prepare and finalize leaves E recoverable") promise: a
\* prepared secret can always be finalized by asking (again).
FinalizeRetryable ==
  \A s \in Seqs : held[s] \in {"revealing", "abandoning"} => Readable(s)
=============================================================================
