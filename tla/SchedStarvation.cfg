CONSTANTS
  MAX_PROCESSES = 3
  Idle = Idle
  NULL = NULL
  queue_time_slices <- MCSlices
  AgingPeriod = 3
  PRIORITY_RT_MAX = 1
  PRIORITY_MAX = 5
  PriorityArgs = {}
  PolicyArgs = {}
  InitialContext = "entry"
SPECIFICATION YieldingSpec
PROPERTIES
  AgingPreventsStarvation
