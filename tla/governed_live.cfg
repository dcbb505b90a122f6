\* see MCGovernedRun.tla
SPECIFICATION FairSpec
CONSTANTS
  s1 = s1
  s2 = s2
  p1 = p1
  q1 = q1
  Specs = {s1, s2}
  Plans = {p1}
  Risks <- MCRisks
  RiskOf <- MCUniformRisk
  Questions = {q1}
  SpecRounds = 2
  PlanRounds = 2
  ReviewRounds = 3
  Commands = 2
  MaxPatches = 2
  CommandsLeave = {"clean"}
  StoreFaults = FALSE
  MayCrash = FALSE
  MaxEdits = 0
  MaxManual = 0
  OneHand = FALSE
PROPERTY RunSettles
\* a closed run stops
CHECK_DEADLOCK FALSE
