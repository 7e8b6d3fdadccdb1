SPECIFICATION MCSpec
CONSTANTS
  Pings = {p1}
  Workers = {w1, w2}
  Patches = {q1}
  NoSession = NoSession
  LostSession = LostSession
  Cadences = {1, 2}
  GraceCap = 1
  MaxFaults = 1
  Threshold = 2
  UnmeasuredThreshold = 3
  Monitors = {}
  Handlers = {}
  NoMonitor = NoMonitor
  MaxJoins = 0
  MaxChanges = 0
  Nodes = {}
  Targets = {}
  NoNode = NoNode
  Paying = {}
  Capacity = 1
  LeaseTerm = 3
  BatchBudget = 1
  SubmitBudget = 1
  Intervals = {1}
  BackoffShift = 0
  BackoffCap = 0
  RetryAfters = {0}
  Answers = {}
  MaxLate = 0
INVARIANTS
  OneOpen
  IncidentFollowsFacts
PROPERTIES
  SilenceShows
CHECK_DEADLOCK FALSE
