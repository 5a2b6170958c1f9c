--------------------------------- MODULE Timing ---------------------------------
(***************************************************************************)
(* The timing profiles (cli/notbefore/timing.py): which observations a     *)
(* profile requires of the signed statements in a pulse, and the verdict.  *)
(* An observation reads "ok", "bad" (outside its limits) or "absent"       *)
(* (missing, or not a number); a discipline also says by which servo, or   *)
(* "none" when there is no discipline block.                               *)
(***************************************************************************)

Readings == {"ok", "bad", "absent"}
Servos == {"none", "ts2phc", "ptp4l"}
Disciplines == [servo : Servos, reads : Readings]
\* What a pulse's statements let a profile see.
Observations ==
  [timeEpoch : Readings, witnessEpoch : Readings, mesh : Readings, gnss : Readings, tai : Readings, fresh : Readings,
   time : Disciplines, witness : Disciplines, cadence : Readings]

Verdicts == {"SATISFIED", "NOT-SATISFIED", "NOT-EVALUABLE"}
\* Missing evidence outweighs an excursion.
VerdictOf(readings) ==
  IF "absent" \in readings THEN "NOT-EVALUABLE" ELSE IF "bad" \in readings THEN "NOT-SATISFIED" ELSE "SATISFIED"

\* v3: the host follows the BMC grandmaster; of another servo nothing else is read.
GMDiscipline(d) ==
  IF d.servo = "none" THEN "absent" ELSE IF d.servo # "ptp4l" THEN "bad" ELSE d.reads
\* v1, v2: the time host is disciplined by ts2phc, the witness by whatever is locked.
TimeDiscipline(d) ==
  IF d.servo = "none" THEN "absent" ELSE IF d.reads = "ok" /\ d.servo # "ts2phc" THEN "bad" ELSE d.reads
WitnessDiscipline(d) == IF d.servo = "none" THEN "absent" ELSE d.reads

Hosts3(seen) == {GMDiscipline(seen.time), GMDiscipline(seen.witness)}
Hosts12(seen) == {TimeDiscipline(seen.time), WitnessDiscipline(seen.witness), seen.mesh}
Evaluate(seen, profile) ==
  VerdictOf({seen.timeEpoch, seen.witnessEpoch, seen.gnss, seen.tai, seen.fresh}
            \cup (IF profile = "v3" THEN Hosts3(seen) ELSE Hosts12(seen))
            \cup (IF profile = "v1" THEN {} ELSE {seen.cadence}))

\* The worst of the pulses; of none, there is nothing to evaluate.
EvaluatePulses(verdicts) ==
  IF verdicts = {} \/ "NOT-EVALUABLE" \in verdicts THEN "NOT-EVALUABLE"
  ELSE IF "NOT-SATISFIED" \in verdicts THEN "NOT-SATISFIED" ELSE "SATISFIED"
================================================================================
