SPECIFICATION FairSpec
CONSTANTS
  A = a
  B = b
  SEQ_RANGE = 4
  HISTORY = 2
  Careful = TRUE
  MAX_PACKETS = 5
  MAX_STARTS = 2
  MAX_FAULTS = 1
INVARIANT TypeOK ExactDelivery QuietMeansDelivered
CHECK_DEADLOCK FALSE
PROPERTY LineFallsSilent
