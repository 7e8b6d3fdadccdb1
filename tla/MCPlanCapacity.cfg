SPECIFICATION Spec
CONSTANTS
  Projects = {1, 2}
  Monitors = {1, 2}
  Flaky = {2}
  Home <- MCHome
  Plans <- MCPlans
  Job = job
  Deletion = deletion
  None = none
  MaxChanges = 2
  MaxFaults = 1
INVARIANTS
  OpenOutageIsPaged
  CutIsNotPaged
PROPERTIES
  OwnerPauseIsKept
  CapacitySettles
CHECK_DEADLOCK FALSE
