SPECIFICATION FairSpec
CONSTANTS
  Blocks = 2
  Worlds <- MCWorlds
INVARIANTS OnlyWholeImagesRun
PROPERTIES DetachIsNoRevert OkIsInstalled UpdatesEnd
CHECK_DEADLOCK FALSE
