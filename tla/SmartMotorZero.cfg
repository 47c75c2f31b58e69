SPECIFICATION FairSpec
CONSTANTS
  MAX_CMD = 1
  DEADBAND = 1
  SLEW_RATES = {1}
  UNDEFINED = 2
  MAX_REQUEST = 1
  Limiters = {"ptc"}
  ZeroCurrents = TRUE
  Mounted = {FALSE}
PROPERTY ZeroLimitStops
