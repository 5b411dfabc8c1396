CONSTANTS
  MAX_PROCESSES = 4
  Processes = {p1, p2, p3}
  NULL = NULL
SPECIFICATION Spec
INVARIANTS
  TypeOK
  WindowSound
PROPERTIES
  ImplementsFifo
