SPECIFICATION Spec
CONSTANTS
  User = user
  Keepers = {slew}
  NoThread = none
  Source = source
  Workers = {w1, w2}
  MAX_THREAD = 4
  EmergencyStops = TRUE
  AutonReturns = TRUE
INVARIANT TypeOK CleanBetweenPhases EmergencyStopIsFinal
PROPERTY NoLiveOverwrite PersistentSurvives RoutineInControl BroadcastReachesAll
