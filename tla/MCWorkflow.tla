------------------------------ MODULE MCWorkflow ------------------------------
EXTENDS Workflow, TLC
Symmetry == Permutations(Paths) \union Permutations(TSAs)
\* A pulse of the fleet as it runs since 0453: both hosts follow the BMC
\* grandmaster and nobody watches the mesh.
Healthy ==
  [timeEpoch |-> "ok", witnessEpoch |-> "ok", mesh |-> "absent", gnss |-> "ok", tai |-> "ok", fresh |-> "ok",
   time |-> [servo |-> "ptp4l", reads |-> "ok"], witness |-> [servo |-> "ptp4l", reads |-> "ok"], cadence |-> "ok"]
\* Of the second round the reveal shows an excursion of the time host.
PulseEvidence == [r \in Rels |-> IF r = 2 THEN {Healthy, [Healthy EXCEPT !.time.reads = "bad"]} ELSE {Healthy}]
===============================================================================
