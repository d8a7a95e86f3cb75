CONSTANTS
  Deployments = {d1, d2}
  PolicyChanges = {}
  Initial = initial
  Faults = {"renewal"}
  Routes <- MCRoutes
  None = None
SPECIFICATION Spec
PROPERTIES SnapshotsAreImmutable
CHECK_DEADLOCK FALSE
