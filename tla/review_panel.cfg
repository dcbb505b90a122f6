SPECIFICATION Spec
CONSTANTS
  r1 = r1
  r2 = r2
  implementer = implementer
  command = command
  p1 = p1
  p2 = p2
  Jobs = {r1, r2, implementer, command}
  Commands = {command}
  MaxOut <- MCMaxOut
  Faults <- MCFaults
  Ceiling = 1
  Retention = 2
  Panel <- MCPanel
  Author = implementer
  Command = command
  MaxRounds = 2
  Paths = {p1, p2}
  Scope = {p1, p2}
  MaxContent = 1
  Severities <- MCSeverities
  Threshold = "major"
  Answers <- MCAnswers
  Leaves <- MCLeaves
INVARIANTS PassIsDeserved PassedRecordParses
PROPERTIES ReportsAreKept OutcomesAreTrue ReviewSettles
\* a stage ends
CHECK_DEADLOCK FALSE
