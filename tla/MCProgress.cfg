CONSTANTS
  None = None
  Deployments = {v1}
  Returns = {r1}
  Runners = {e1}
  Initial = v0
  MaxTasks = 2
  MaxRunStops = 2
  Faults = {"answer"}
  Deploys = {d1}
  Rollbacks = {b1}
  Readers = {}
  Followers = {f1}
  First = d0
  MaxLosses = 2
  Sites = {a, b}
  Hostnames = {h1, h2, h3}
  Unreachable = {h3}
  MaxGeneration = 1
  MaxStops = 1
SPECIFICATION MCSpec
PROPERTIES NoTaskIsStranded FailureIsSettled RenameSettles
CHECK_DEADLOCK FALSE
