CONSTANTS
  Day = 4
  NoTime = NoTime
  Given <- MCGiven
  MaxEvents = 2
SPECIFICATION FairSpec
INVARIANTS TypeOK ReadIsArmed
PROPERTIES CalledAtASavedTime  ScheduleRecurs
