\* see MCGovernedRun.tla
SPECIFICATION Spec
CONSTANTS
  s1 = s1
  s2 = s2
  p1 = p1
  q1 = q1
  Specs = {s1, s2}
  Plans = {p1}
  Risks <- MCRisks
  RiskOf <- MCRiskOf
  Questions = {q1}
  SpecRounds = 1
  PlanRounds = 1
  ReviewRounds = 2
  Commands = 1
  MaxPatches = 1
  CommandsLeave = {"clean"}
  StoreFaults = FALSE
  MayCrash = FALSE
  MaxEdits = 0
  MaxManual = 0
  OneHand = FALSE
INVARIANT GateRecordsRisk
\* a closed run stops
CHECK_DEADLOCK FALSE
