SPECIFICATION FairSpec
CONSTANTS
  User = user
  Keepers = {slew}
  NoThread = none
  Source = source
  Workers = {w1}
  MAX_THREAD = 3
  EmergencyStops = TRUE
  AutonReturns = FALSE
INVARIANT RegisteredAreListening
PROPERTY SignalledEnds
