CONSTANTS
  Deployments = {d1, d2}
  PolicyChanges = {p1}
  Initial = initial
  Faults = {"crash", "restore", "readback"}
  Routes <- MCRoutes
  None = None
SPECIFICATION Spec
SYMMETRY DeploymentSymmetry
INVARIANTS ActiveWorkerExists PublishedWorkerExists FailedActiveIsReported Converged
PROPERTIES SuccessIsKept SnapshotsAreImmutable WorkersArePromised
CHECK_DEADLOCK FALSE
