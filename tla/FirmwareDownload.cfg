SPECIFICATION FairSpec
CONSTANTS
  NumBlocks = 2
  MaxSends = 2
  MaxTries = 3
  MaxMishaps = 1
  Worlds <- MCWorlds
INVARIANTS ToolIsRight FlashIsGuarded
PROPERTIES RunEnds InstallsEventually
CHECK_DEADLOCK FALSE
