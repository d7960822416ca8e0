CONSTANTS
  None = None
  Numbers <- MCNumbers
  Words <- MCWords
  UserSaves <- MCUserSaves
  MaxSaves = 3
  MaxStarts = 2
SPECIFICATION FairSpec
CHECK_DEADLOCK FALSE
INVARIANTS TypeOK EncryptionWasChosen ProxyWasChosen
PROPERTY StartEnds
