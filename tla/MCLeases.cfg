CONSTANTS
  Sessions = {s1, s2}
  Lease = 6
  RenewEvery = 2
  Timeout = 3
  MaxSkew = 1
  MaxDelay = 1
  MaxTime = 9
  None = None
  NoOne = NoOne
  Messages = {m1}
  Handlers = {g1, g2, g3}
  Thread = thread
  MaxTroubles = 1
SYMMETRY Symmetry
SPECIFICATION MCSpec
INVARIANTS HealthyHoldsLock MessageTakesEffectOnce TurnsExcludeEachOther
PROPERTIES CommitsAreSerial
CHECK_DEADLOCK FALSE
