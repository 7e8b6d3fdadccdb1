SPECIFICATION MCSpec
CONSTANTS
  Threshold = 3
  UnmeasuredThreshold = 3
  MaxResults = 8
  Cooldown = 5
  PostDeploy = 2
  MaxFaults = 2
  Instances = {i1, i2}
  Callers = {c1, c2, c3}
  BlockSize = 2
  MaxNext = 6
  Evaluators = {e1, e2}
  Patches = {p1, p2}
  Creates = {n1}
  AlertMeasures = {A, B}
  MaxRules = 2
  MaxTicks = 2
  MaxEdits = 2
  Limits = {1, 2}
  Parts = {"availability", "rate"}
INVARIANTS
  StatusIsReference
PROPERTIES
  Spaced
  SpikeOpens
CHECK_DEADLOCK FALSE
