CONSTANTS
  None = None
  Numbers <- MCNumbers
  Words <- MCWords
  UserSaves <- MCLimitSaves
  MaxSaves = 1
  MaxStarts = 2
SPECIFICATION Spec
CHECK_DEADLOCK FALSE
INVARIANT LimitsAreApplied
