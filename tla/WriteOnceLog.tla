----------------------------- MODULE WriteOnceLog -----------------------------
(***************************************************************************)
(* What notbefore.net/decisions promises (DECISION-LOG.md, "The write-once *)
(* rule" and "The log"), and nothing about how: an append-only sequence of *)
(* statements, signed checkpoints that are all views of that one sequence, *)
(* and answers whose authority for a namespace is decided once, by the     *)
(* first statement registered for it.  DecisionLog is checked to implement *)
(* it.                                                                     *)
(***************************************************************************)
EXTENDS Integers, Sequences

VARIABLES
  log,    \* the statements, in the order of their indices
  notes,  \* every checkpoint ever signed, as the sequence it is a root of
  told    \* every answer that named the authority of a namespace

logVars == <<log, notes, told>>

FirstOf(ns, l) ==
  {l[i] : i \in {j \in DOMAIN l : l[j].ns = ns /\ \A k \in 1..j-1 : l[k].ns # ns}}
IsView(l) == Len(l) <= Len(log) /\ l = SubSeq(log, 1, Len(l))

Init == log = <<>> /\ notes = {} /\ told = {}

\* A statement is new in its namespace, and goes to the end.
Register ==
  /\ Len(log') = Len(log) + 1 /\ SubSeq(log', 1, Len(log)) = log
  /\ LET e == log'[Len(log')] IN
       \A i \in DOMAIN log : log[i].ns = e.ns => log[i].contract # e.contract
  /\ UNCHANGED <<notes, told>>

\* Signing, and answering out of what is signed.
Certify ==
  /\ UNCHANGED log
  /\ notes \subseteq notes' /\ \A l \in notes' \ notes : IsView(l)
  /\ told \subseteq told' /\ \A e \in told' \ told : e \in FirstOf(e.ns, log)

Next == Register \/ Certify
Spec == Init /\ [][Next]_logVars
=============================================================================
