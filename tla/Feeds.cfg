CONSTANTS
  u = u
  v = v
  text = text
  s = s
  Urls <- MCUrls
  OtherText <- MCText
  Placeholder = u
  Sources <- MCSources
  Openings = 2
  Loops = {1, 2}
  MaxOps = 3
SPECIFICATION FairSpec
CHECK_DEADLOCK FALSE
INVARIANTS TypeOK 
PROPERTY RefreshEnds
