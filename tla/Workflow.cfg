CONSTANTS
  Paths = {p1, p2}
  TSAs = {freetsa}
  Rels = {1, 2}
  Profile = "v3"
  Evidence <- PulseEvidence
  MaxPlans = 2
  MaxFaults = 1
  MaxTime = 2
SYMMETRY Symmetry
SPECIFICATION Spec
CHECK_DEADLOCK FALSE
INVARIANTS
  WorkflowTypeOK
  VerifiedIsFirst
  DryRunStaysDry
  VerdictsAgree
