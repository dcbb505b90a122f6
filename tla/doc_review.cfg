SPECIFICATION Spec
CONSTANTS
  k1 = k1
  k2 = k2
  Keys <- MCKeys
  Disclosures <- MCDisclosures
  Nodes = {n1}
  Copies = 2
  Topics = {t1}
  AsksQuestions = TRUE
  Rounds = 2
  Seats = 2
  MaxFindings = 2
CONSTRAINT FewFindings
INVARIANTS
  TypeOK
  EveryFindingIsAnswered
  OnlyAuthorsAsk
  DisclosuresAreSettled
  ChangesAreOwned
  UpstreamIsFiled
\* a review that was passed, blocked or killed stops
CHECK_DEADLOCK FALSE
