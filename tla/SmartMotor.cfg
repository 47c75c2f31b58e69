SPECIFICATION FairSpec
CONSTANTS
  MAX_CMD = 2
  DEADBAND = 2
  SLEW_RATES = {2}
  UNDEFINED = 4
  MAX_REQUEST = 2
  Limiters = {"ptc", "current"}
  ZeroCurrents = FALSE
  Mounted = {TRUE}
INVARIANT TypeOK SlewIsGentle
PROPERTY BreakBeforeMake SettlesAtCommand LimitHolds
