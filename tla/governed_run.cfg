\* see MCGovernedRun.tla
SPECIFICATION Spec
CONSTANTS
  s1 = s1
  s2 = s2
  p1 = p1
  q1 = q1
  Specs = {s1, s2}
  Plans = {p1}
  Risks <- MCRisks
  RiskOf <- MCRiskOf
  Questions = {q1}
  SpecRounds = 2
  PlanRounds = 1
  ReviewRounds = 2
  Commands = 1
  MaxPatches = 1
  CommandsLeave = {"clean", "untracked"}
  StoreFaults = TRUE
  MayCrash = TRUE
  MaxEdits = 2
  MaxManual = 2
  OneHand = TRUE
INVARIANTS TypeOK DeliveredAsApproved AuthorizationBinds CertifiesGatedDocuments NoWedge
PROPERTIES GatesPassInOrder ResidueIsRefused ClosedRunIsFrozen GateEventsAreFinal
\* a closed run stops, and so does a killed one
CHECK_DEADLOCK FALSE
