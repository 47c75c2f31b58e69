SPECIFICATION Spec
CONSTANTS
  A = a
  B = b
  SEQ_RANGE = 8
  HISTORY = 2
  Careful = FALSE
  MAX_PACKETS = 5
  MAX_STARTS = 1
  MAX_FAULTS = 1
INVARIANT NoDuplicate
CHECK_DEADLOCK FALSE
