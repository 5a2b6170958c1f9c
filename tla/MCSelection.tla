------------------------------ MODULE MCSelection ------------------------------
EXTENDS Selection
\* The audit and the client only read what the others do, and not each other:
\* a behaviour has one of them, one run of it, and ends with it.  The audit
\* does not look into the pulses, and two of them are enough for it; Rekor
\* fails to return one entry to it at most.  For a client one pulse but the last
\* is defective, the walk begins when a round may exist, and what is published
\* after that it does not see; a job that has not pushed stands for a lost one.
\* For both the first pulse alone is entered twice.
Off == [Idle EXCEPT !.pc = "halted"]
Defective == {s \in DOMAIN chain : ~chain[s].sound \/ chain[s].tokens = "late"}
MCInit == AnchorsInit /\ walk \in {Idle, Off}
AuditOnly ==
  /\ Len(chain) < MaxPulses /\ Defective = {} /\ \A s \in DOMAIN chain : chain[s].type # "failure"
  /\ Cardinality(audit.lost) <= 1
ClientOnly ==
  /\ audit.pc = "idle" /\ faults = 0 /\ hidden = {} /\ \A s, t \in Defective : s = t
  /\ Len(chain) = MaxPulses => chain[MaxPulses].type = "commit" /\ MaxPulses \notin Defective
  /\ walk.pc = "walk" => walk.now >= Lead
EnteredOnce == \A s \in Pulses \ {1} : Cardinality(rekor[s]) < MaxEntries
MCStep ==
  /\ walk = Off \/ walk.pc \in {"idle", "walk"}
  /\ audit.pc = "done" => audit'.pc = "idle"
  /\ IF walk = Off THEN AuditOnly' ELSE ClientOnly' /\ (walk.pc = "walk" => chain' = chain)
  /\ EnteredOnce'
MCSpec == MCInit /\ [][Next]_vars
===============================================================================
