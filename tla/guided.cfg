SPECIFICATION MCSpec
CONSTANTS
  g1 = g1
  g2 = g2
  b1 = b1
  d1 = d1
  Sessions = {g1, g2}
  Runners = {b1}
  Requests = {d1}
  MaxRuns = 2
  Questions = {1}
  Editable = {"spec"}
  MaxClock = 2
  Life = 1
  Scenes <- MCScenes
  Slugs = {"a", "b"}
  MaxActs = 2
INVARIANTS TypeOK ConsentedWorkOnly OneOpenRun UnfrozenRunIsInert ArchivesAreExactUnlessPutBack PayloadsAreKept ShownIsCommitted RerunsResume
\* every invocation ends
CHECK_DEADLOCK FALSE
