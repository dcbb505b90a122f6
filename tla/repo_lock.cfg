\* see MCRepoLock.tla
SPECIFICATION FairSpec
CONSTANTS
  i1 = i1
  i2 = i2
  i3 = i3
  i4 = i4
  p1 = p1
  p2 = p2
  p3 = p3
  Invocations = {i1, i2, i3, i4}
  Processes = {p1, p2, p3}
  PidOf <- MCPidOf
INVARIANTS TypeOK OneWriterUnlessStolen
PROPERTY StaleLockClears
\* every process may have ended
CHECK_DEADLOCK FALSE
