SPECIFICATION Spec
CONSTANTS
  g1 = g1
  g2 = g2
  g3 = g3
  g4 = g4
  Sessions = {g1, g2, g3, g4}
  Runners = {}
  Requests = {}
  MaxRuns = 1
  Questions = {}
  Editable = {}
  MaxClock = 1
  Life = 1
  Scenes <- MCScenes
SYMMETRY Alike
INVARIANT ArchivesAreExact
\* every invocation ends
CHECK_DEADLOCK FALSE
