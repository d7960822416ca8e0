CONSTANTS
  Checks = {1, 2}
  Levels <- MCLevels
  Limits <- MCLimits
  Unset = Unset
  StartOn <- MCStartOn
  StartLevels = {20}
  MaxChanges = 2
SPECIFICATION FairSpec
CHECK_DEADLOCK FALSE
INVARIANT TypeOK
PROPERTIES FoundWhatLasts NothingInvented ChangeIsReported
