CONSTANTS
  Deployments = {d1}
  PolicyChanges = {}
  Initial = initial
  Faults = {"renewal"}
  Routes <- MCRoutes
  None = None
SPECIFICATION Spec
INVARIANTS ActiveWorkerExists
CHECK_DEADLOCK FALSE
