CONSTANTS
  None = None
  Nobody = None
  Deploys = {d1, d2, d3}
  Rollbacks = {b1}
  Readers = {g1}
  Followers = {f1}
  First = d0
  MaxLosses = 2
  Names = {A, B}
  Writers = {w1, w2}
  NameOf <- MCNameOf
  Declaring = {d1, d2}
  MaxLapses = 2
  Users = {u1, u2}
  Departments = {t1, t2}
  Custom = {c1}
  Transfers = {x1}
  Managers = {m1}
  FirstOwner = u1
  MaxChanges = 1
  MaxFaults = 2
  MaxSlips = 1
  Handlers = {q1, q2}
  MaxFixes = 1
  MaxRequests = 3
SPECIFICATION MCSpec
INVARIANTS PipelineTypeOK MarkerOutlivesDoubt SuccessWasActive ConfigReachesWorker
  NoWorkBeforeTrigger FixesAreBounded FailedConfigIsWithdrawn
  PublishedPolicyBelongsToOwner
PROPERTIES AuthorityAtCommit
CHECK_DEADLOCK FALSE
