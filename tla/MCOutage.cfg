CONSTANTS
  Threshold = 2
  UnmeasuredThreshold = 1
  Monitors = {m1}
  Handlers = {h1, h2}
  NoMonitor = NoMonitor
  MaxJoins = 1
  MaxChanges = 1
  MaxFaults = 1
SPECIFICATION FairSpec
PROPERTIES AlarmIsEarned OutageIsNoticed PlanPauseCloses RecoveryIsNoticedUndisturbed
CHECK_DEADLOCK FALSE
