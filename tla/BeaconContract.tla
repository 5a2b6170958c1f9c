---------------------------- MODULE BeaconContract ----------------------------
(***************************************************************************)
(* What the beacon promises a reader of the published branch, and nothing  *)
(* about how: PROTOCOL.md's chain of commit, reveal, failure and skip      *)
(* pulses and the custody of E, as far as somebody outside can tell.       *)
(* BeaconCycle is checked to implement it.  A draw is the identity of one  *)
(* E; 0 stands for a pulse that is about none.                             *)
(***************************************************************************)
EXTENDS Integers, Sequences

VARIABLES
  log,        \* the pulses of origin/main
  disclosed,  \* draws whose E has left the entropy host
  gone        \* draws the entropy host has erased

contractVars == <<log, disclosed, gone>>

Entry(t, e) == [type |-> t, e |-> e]
About(t)    == {log[i].e : i \in {j \in DOMAIN log : log[j].type = t}}
OpenCommit(e) == log # <<>> /\ log[Len(log)] = Entry("commit", e)

Init == log = <<>> /\ disclosed = {} /\ gone = {}

\* p may follow prev: only an open commit is resolved, it is resolved next,
\* and a reveal shows the E that was disclosed.
MayFollow(prev, p) ==
  IF prev.type = "commit"
    THEN p = Entry("failure", prev.e) \/ (p = Entry("reveal", prev.e) /\ p.e \in disclosed)
    ELSE p.type \in {"commit", "skip"}

\* The branch only grows, by pulses that may follow; a commitment is new: its
\* E is still kept and nobody has seen it.
Publish ==
  /\ Len(log') > Len(log)
  /\ SubSeq(log', 1, Len(log)) = log
  /\ \A i \in Len(log)+1 .. Len(log') :
       /\ MayFollow(IF i = 1 THEN Entry("legacy", 0) ELSE log'[i - 1], log'[i])
       /\ log'[i].type = "commit" =>
            log'[i].e \notin gone \cup disclosed \cup About("commit")
  /\ UNCHANGED <<disclosed, gone>>

\* E is shown only while its published commit is open.
Disclose ==
  /\ \E e \in disclosed' : OpenCommit(e) /\ disclosed' = disclosed \cup {e}
  /\ UNCHANGED <<log, gone>>

\* E is erased once its resolution is published, or if it was never published.
Erase ==
  /\ \E e \in gone' :
       /\ e \in About("commit") => e \in About("reveal") \cup About("failure")
       /\ gone' = gone \cup {e}
  /\ UNCHANGED <<log, disclosed>>

Next == Publish \/ Disclose \/ Erase
Spec == Init /\ [][Next]_contractVars
=============================================================================
