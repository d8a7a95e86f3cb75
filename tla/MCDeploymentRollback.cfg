CONSTANTS
  Deployments = {d1}
  PolicyChanges = {}
  Initial = initial
  Faults = {"timeout"}
  Routes <- MCRoutes
  None = None
SPECIFICATION Spec
PROPERTIES CommitPointIsFinal
CHECK_DEADLOCK FALSE
