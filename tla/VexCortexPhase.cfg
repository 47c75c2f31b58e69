SPECIFICATION FairSpec
CONSTANTS
  User = user
  Keepers = {slew}
  NoThread = none
  Source = source
  Workers = {w1}
  MAX_THREAD = 3
  EmergencyStops = FALSE
  AutonReturns = FALSE
PROPERTY PhaseEnds
