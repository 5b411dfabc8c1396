CONSTANTS
  MAX_PROCESSES = 4
  Processes = {p1, p2, p3}
  First = p1
  Idle = Idle
  NULL = NULL
SPECIFICATION Spec
INVARIANT NoRaceOnOneCpu
