CONSTANTS
  MAX_PROCESSES = 3
  Idle = Idle
  NULL = NULL
  queue_time_slices <- MCSlices
  AgingPeriod = 5
  PRIORITY_RT_MAX = 1
  PRIORITY_MAX = 5
  PriorityArgs = {1}
  PolicyArgs = {"SCHED_FIFO", "SCHED_IDLE"}
  InitialContext = "entry"
SPECIFICATION Spec
INVARIANTS
  TypeOK
  QueuesDistinct
  QueuedIsReady
  Routed
  NoProcessLost
  OneRunning
  RtSorted
  RunnerHasSlice
  TrapStateIntact
PROPERTIES
  NoOvertaking
  TakesTurns
  LevelSteps
  ImplementsDispatch
