CONSTANTS
  Seeds <- MCSeeds
  Hashes <- MCHashes
  MaxQueue = 5
SPECIFICATION Spec
INVARIANTS TypeOK QueueNumbersIncrease OneRowPerHash
 
