------------------------------ MODULE MCObservers ------------------------------
EXTENDS Observers
\* CI, the watcher and the client read what the aggregator does and not each
\* other: one of them in a behaviour is enough.  The client has no clock, may meet
\* two faults (a head not signed, and then a pulse replaced), and is followed to
\* its second alarm.
NoCI == ci = {} /\ green = {} /\ withheld = {}
NoWatcher == watch = Idle /\ records = {}
NoClient == cached = {} /\ splits = {} /\ rollbacks = {}
FewFaults == faults <= 1 \/ (NoCI /\ NoWatcher /\ now = 0)
FewAlarms == Cardinality(splits) + Cardinality(rollbacks) <= 1

OneObserver ==
  \/ Mint \/ Damage \/ WriteNumbered \/ WriteTop \/ NoCheckpoint \/ Push \/ Kill
  \/ NoClient /\ Round
  \/ NoWatcher /\ NoClient /\ (CIStart \/ CIEnd)
  \/ NoCI /\ NoClient /\ (Fetch \/ Clock \/ Judge)
  \/ NoCI /\ NoWatcher /\ now = 0 /\ Check
MCSpec == Init /\ [][OneObserver]_vars
=============================================================================
