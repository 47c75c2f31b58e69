SPECIFICATION LcdSpec
CONSTANTS
  SLOTS = 2
  CELLS = 2
  MAX_WRITE = 3
  Data = {0, 1, 2, zero}
  Zero = zero
  Erased = erased
  MODES = 3
INVARIANT LcdTypeOK FailsOnlyOnSpoiltPage SelectionSurvives
PROPERTY RefinesStore BlockedForGood
