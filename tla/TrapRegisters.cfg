CONSTANTS
  NPROC = 1
  Values = {"x", "y"}
  Depths = {0, 1}
SPECIFICATION Spec
INVARIANTS
  ContextRestored
CHECK_DEADLOCK FALSE
