SPECIFICATION MCSpec
CONSTANTS
  Monitors = {}
  Handlers = {}
  NoMonitor = NoMonitor
  Threshold = 2
  UnmeasuredThreshold = 3
  MaxJoins = 0
  Pings = {}
  Workers = {}
  Patches = {}
  NoSession = NoSession
  LostSession = LostSession
  Cadences = {1}
  GraceCap = 1
  Nodes = {n1, n2}
  Targets = {t1, t2}
  NoNode = NoNode
  Paying = {t1}
  Capacity = 1
  LeaseTerm = 3
  BatchBudget = 1
  SubmitBudget = 1
  Intervals = {1}
  BackoffShift = 1
  BackoffCap = 2
  RetryAfters = {0}
  Answers = {"measured", "refused"}
  MaxLate = 1
  MaxChanges = 1
  MaxFaults = 1
INVARIANTS OneHolderUnlessUnmarked
PROPERTIES KeepsBeingMeasured
CHECK_DEADLOCK FALSE
