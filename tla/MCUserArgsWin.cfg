SPECIFICATION Spec
CONSTANTS
  MaxGiven = 0
  MaxSettings = 0
  MaxExtra = 2
INVARIANT
  UserArgsWin
CHECK_DEADLOCK FALSE
