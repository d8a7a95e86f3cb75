CONSTANTS
  Deployments = {d1}
  PolicyChanges = {p1}
  Initial = initial
  Faults = {"timeout", "renewal", "status", "answer", "readback"}
  Routes <- MCRoutes
  None = None
SPECIFICATION FairSpec
PROPERTIES EveryRequestEnds
CHECK_DEADLOCK FALSE
