CONSTANTS
  r1 = r1  w1 = w1
  Rows = {r1, r2}
  Channels = {chat, mail}
  EmailChannels = {mail}
  Classes = {"alert", "test", "followup"}
  Workers = {w1, w2}
  NoRow = NoRow
  MaxAttempts = 3
  BatchLimit = 2
  MaxBackoff = 2
  BreakerTicks = 1
  FollowUpTicks = 2
  MuteTicks = {1, 2}
  MaxMutes = 2
  MaxFaults = 1
  Scenes = {"crowd", "alone"}
  TheRow = r1
  TheWorker = w1
SPECIFICATION MCSpec
INVARIANTS LeaseExclusive SendsBounded FollowUpHonest
PROPERTIES ImplementsLedger EveryRowSettles
CHECK_DEADLOCK FALSE
