CONSTANTS
  r1 = r1
  r2 = r2
  r3 = r3
  Rows = {r1, r2, r3}
  BatchSize = 2
  MayStop = TRUE
  MaxFaults = 1
  Sends <- MCSends
  Level <- MCLevel
  Ceiling = 1
SPECIFICATION ISpec
INVARIANTS AddedOnce AccountedUnlessCollided
PROPERTIES EveryRowFlushed
CHECK_DEADLOCK FALSE
