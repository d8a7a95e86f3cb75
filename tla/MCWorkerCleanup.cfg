CONSTANTS
  Deployments = {v1, v2}
  Rollbacks = {r1}
  Runners = {e1, e2}
  Initial = v0
  None = None
  MaxTasks = 2
  MaxStops = 1
  Faults = {"d1", "answer"}
SPECIFICATION Spec
SYMMETRY Symmetry
CONSTRAINT FaultyRunsMeetOneDeployment
INVARIANTS VersionsKeepTheirWorkers DrainedBeforeDeletion OneRunAtATime
PROPERTY CleanupKeepsPromises
CHECK_DEADLOCK FALSE
