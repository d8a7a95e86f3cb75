CONSTANTS
  Messages = {m1}
  Handlers = {g1, g2}
  Thread = thread
  NoOne = NoOne
  MaxTroubles = 0
SPECIFICATION TurnsSpec
INVARIANTS OneTurnPerSession
CHECK_DEADLOCK FALSE
