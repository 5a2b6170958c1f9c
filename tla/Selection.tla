------------------------------- MODULE Selection -------------------------------
(***************************************************************************)
(* Which commit a contract consumes (cli/notbefore/commitbound.py): the    *)
(* first one after the contract's instant that verifies, has its tokens    *)
(* before its round and was in Rekor before its round.  Clients execute    *)
(* the same contract at different times, online or not, on copies of the   *)
(* log of different ages; publication, anchoring and Rekor go on meanwhile.*)
(* One execution is followed: it changes nothing that another one reads.   *)
(* The result names the commit; V* is a function of it and of the round.   *)
(***************************************************************************)
EXTENDS Anchors

CONSTANTS
  RevealDeadline,  \* REVEAL_DEADLINE_S
  After,           \* after_unix_s of the contract
  TokensInCopy     \* FALSE: a copy of the log may lack the .tsr sidecars

ASSUME SelectionAssumption ==
  RevealDeadline \in Nat /\ RevealDeadline <= Grace /\ After \in Nat /\ TokensInCopy \in BOOLEAN

VARIABLE
  walk   \* one execution, from its first look at the log to its end

vars == <<anchorVars, walk>>

Idle == [pc |-> "idle", seq |-> 0, now |-> 0, copy |-> 0, tokens |-> TRUE, online |-> FALSE,
         local |-> {}, cut |-> {}]

Init == AnchorsInit /\ walk = Idle

-----------------------------------------------------------------------------
(* The candidates in a copy of the log, which does not change during a walk. *)
Candidates(copy) == {s \in 1 .. copy : chain[s].type = "commit" /\ chain[s].rel >= After}
\* The next one after s, or 0.
NextAfter(s, copy) ==
  LET later == {c \in Candidates(copy) : c > s} IN
  IF later = {} THEN 0 ELSE CHOOSE c \in later : \A d \in later : c <= d

(* The log source: a clone that was fetched just now, or some time ago     *)
(* (offline, a pinned commit).  `now` is read once, when the walk begins.  *)
Begin ==
  /\ walk.pc = "idle"
  /\ \E copy \in 0 .. Len(chain), online \in BOOLEAN, tokens \in {TRUE, TokensInCopy} :
       /\ NextAfter(0, copy) # 0
       /\ walk' = [Idle EXCEPT !.pc = "walk", !.seq = NextAfter(0, copy), !.now = now, !.copy = copy,
                               !.tokens = tokens, !.online = online]
  /\ UNCHANGED anchorVars

Here == chain[walk.seq]
\* Nothing eligible yet, WAIT, or an ERROR: the execution ends without a value.
Halt == walk' = [Idle EXCEPT !.pc = "halted"]
\* The candidate is passed over: for what it is, for what a local record says
\* (local), or for what Rekor returned while it lost an entry (cut).
Advance(local, cut) ==
  LET s == NextAfter(walk.seq, walk.copy) IN
  IF s = 0 THEN Halt ELSE walk' = [walk EXCEPT !.seq = s, !.local = local, !.cut = cut]

\* check_commit: verify.py and the tokens.  A commit that fails is passed over when
\* the transparency log authenticates the copy: missing tokens count as failing,
\* although the tokens are not in the tree.
TokensVerify == walk.tokens    \* tsa.py verify: a missing file is passed by
Verified(p) == p.sound /\ TokensVerify

\* The anchors branch as the client has it: not reachable at all, fetched some
\* time ago, or as it is now.
Views == {"unavailable", "old", "current"}
Record(s, view) == IF view = "current" THEN records[s] ELSE None
Earliest(times) == CHOOSE t \in times : \A u \in times : t <= u

\* Mutant: an entry made in the second of the release counts as before it.
AskRekorLate(p, seen) ==
  IF seen # {} THEN IF Earliest(seen) <= p.rel THEN "eligible" ELSE "ineligible"
  ELSE IF walk.now < p.rel + Grace THEN "wait" ELSE "ineligible"
\* Evidence from Rekor itself: its index names the entries, each is fetched, and one
\* that cannot be fetched is passed by.  The earliest of those seen decides; none
\* is taken for a proof of absence after the grace period.
AskRekor(p, seen) ==
  IF seen # {} THEN IF Earliest(seen) < p.rel THEN "eligible" ELSE "ineligible"
  ELSE IF walk.now < p.rel + Grace THEN "wait" ELSE "ineligible"
\* Offline, or when Rekor cannot be reached: the local record, if there is one.
AskRecord(p, view) ==
  IF Record(walk.seq, view) = None THEN "unavailable"
  ELSE IF Earliest(Record(walk.seq, view)) < p.rel THEN "eligible" ELSE "ineligible"
\* reached: Rekor answers the search; seen: the entries it then returns.
Evidence(p, reached, seen, view) ==
  IF walk.online /\ reached THEN AskRekor(p, seen) ELSE AskRecord(p, view)

\* _check_anchors: of none of these pulses may the record be overdue, when there
\* is a branch to look at.
AnchorsThere(seqs, view) ==
  \/ view = "unavailable"
  \/ \A s \in seqs : Record(s, view) # None \/ now <= chain[s].rel + Grace
\* check_pair on the pulse after the commit.
Revealed(view) ==
  LET s == walk.seq + 1 IN
  /\ s <= walk.copy /\ chain[s].type = "reveal" /\ chain[s].sound
  /\ AnchorsThere({s - 1, s}, view)
NoRevealToCome == walk.seq + 1 <= walk.copy /\ chain[walk.seq + 1].type = "failure"
\* The label: FULL-ATTESTED, COMMITMENT-FALLBACK (which needs the round from
\* drand, online, and a round that exists), or not yet.
Label(view) ==
  IF Revealed(view) THEN "FULL-ATTESTED"
  ELSE IF walk.now < Here.rel + RevealDeadline /\ ~NoRevealToCome THEN "WAIT"
  ELSE IF walk.online /\ now >= Here.rel THEN "COMMITMENT-FALLBACK"
  ELSE "ERROR"

\* Mutant: WAIT leaves the execution where it is, to be asked again.
FinishOrWait(label) ==
  IF label = "ERROR" THEN Halt
  ELSE IF label = "WAIT" THEN walk' = [walk EXCEPT !.pc = "wait"]
  ELSE walk' = [Idle EXCEPT !.pc = "selected", !.seq = walk.seq, !.local = walk.local, !.cut = walk.cut]
Finish(label) ==
  IF label \in {"WAIT", "ERROR"} THEN Halt
  ELSE walk' = [Idle EXCEPT !.pc = "selected", !.seq = walk.seq, !.local = walk.local, !.cut = walk.cut]

\* One candidate of select_commit, in a copy that is authentic.
Candidate(reached, seen, view) ==
  LET verdict == Evidence(Here, reached, seen, view)
      asked == walk.online /\ reached IN
  IF ~Verified(Here) \/ Here.tokens = "late" THEN Advance(walk.local, walk.cut)
  ELSE CASE verdict = "ineligible" ->
              Advance(walk.local \union {s \in {walk.seq} : ~asked},
                      walk.cut \union {s \in {walk.seq} : asked /\ seen # rekor[s]})
         [] verdict = "eligible" -> Finish(Label(view))
         [] OTHER -> Halt
Judge ==
  /\ walk.pc = "walk"
  /\ \E reached \in {FALSE, walk.online}, view \in Views :
       \E seen \in SUBSET rekor[walk.seq] : Candidate(reached, seen, view)
  /\ UNCHANGED anchorVars
\* The copy cannot be authenticated, whatever the commit is.
Unauthenticated == walk.pc = "walk" /\ Halt /\ UNCHANGED anchorVars

Next == (AnchorsNext /\ UNCHANGED walk) \/ Begin \/ Judge \/ Unauthenticated
Spec == Init /\ [][Next]_vars

-----------------------------------------------------------------------------
SelectionTypeOK ==
  /\ AnchorsTypeOK
  /\ walk.pc \in {"idle", "walk", "halted", "selected"}
  /\ walk.seq \in 0 .. MaxPulses /\ walk.copy \in 0 .. MaxPulses

\* The rule, as a fact about the world and not about a client.
Eligible(s) ==
  /\ s \in Commits /\ chain[s].rel >= After
  /\ chain[s].sound /\ chain[s].tokens = "before"
  /\ \E t \in rekor[s] : t < chain[s].rel
PassedOver == {r \in 1 .. walk.seq - 1 : Eligible(r)}

\* What an execution selects is an eligible commit; and an eligible one before it was
\* passed over only where the execution had a local record for evidence, or where
\* Rekor lost an entry of it: on Rekor's whole answer the first one is selected,
\* whenever the execution runs and whatever the operator has published, anchored
\* or revealed since the round.
FirstEligible == walk.pc = "selected" => Eligible(walk.seq) /\ PassedOver \subseteq walk.local \union walk.cut

\* commitbound.py:74-75: "the earliest signed integratedTime decides.  None found
\* after the anchor grace period -> proved absent (ineligible)": on what Rekor
\* answers no eligible commit is passed over.
ProvedAbsent == walk.pc = "selected" => PassedOver \subseteq walk.local

\* commitbound.py:21-25: "no choice made with knowledge of rho_R can steer
\* which commit a contract consumes": every execution consumes the first one.
OneCommit == walk.pc = "selected" => Eligible(walk.seq) /\ PassedOver = {}
===============================================================================
