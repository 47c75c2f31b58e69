SPECIFICATION Spec
CONSTANTS
  User = user
  Keepers = {slew}
  NoThread = none
  Source = source
  Workers = {w1}
  MAX_THREAD = 3
  EmergencyStops = FALSE
  AutonReturns = TRUE
INVARIANT RegisteredAreListening
