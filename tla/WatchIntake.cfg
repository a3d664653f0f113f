CONSTANTS
  MaxChunk = 2
  MaxUnits = 3
  MaxRotations = 1
  MaxTruncations = 1
  MaxCrashes = 2
SPECIFICATION FairSpec
INVARIANTS
  TypeOK
  NothingTwice
  OneChunkPerCrash
  
  KillsSpoilOneItem
PROPERTIES
  LogIsFollowed
CHECK_DEADLOCK FALSE
