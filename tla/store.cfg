SPECIFICATION Spec
CONSTANTS
  w1 = w1
  w2 = w2
  r1 = r1
  none = none
  Writers = {w1, w2}
  Readers = {r1}
  Kinds <- MCKinds
  MaxUnits <- MCMaxUnits
  Supported = 2
  Versions = {0, 2}
  None = none
INVARIANTS
  ChainIsUnbroken
  UnitsAreAtomic
  SnapshotsAreWhole
  DeliveryKeepsItsRecord
CHECK_DEADLOCK FALSE
