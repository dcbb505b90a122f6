SPECIFICATION Spec
CONSTANTS
  none = none
  reconciler = reconciler
  Registries <- MCRegistries
  Policies <- MCPolicies
  Flags <- MCFlags
  Inherited <- MCInherited
  Requests <- MCRequests
  Executor <- MCExecutor
  Implementer = 0
  Seeded = {0, 1, 2, 3, 4, 7, 8, 9, reconciler}
  Reconciler = reconciler
  None = none
INVARIANTS PanelsAreExact RefusalsAreNeeded FrozenProfilesSeat
\* a panel is seated or refused
CHECK_DEADLOCK FALSE
