SPECIFICATION FairSpec
CONSTANTS
  Objects <- MCObjects
  Segs <- MCSegs
  Partial <- MCPartial
  Missing <- MCMissing
  SrvBlk = 2
  SrvCrc = TRUE
  BlockSize = 2
  MaxBlk = 3
  MaxBuffer = 3
  Threshold = 2
  SdoTimeout = 2
  InitTimeout = 2
  SubTimeout = 1
  EndTimeout = 2
  MaxAge = 2
  Nodes = {1, 2}
  Worlds <- MCWorlds
INVARIANTS IndicatorMatches ReportsAreTrue
PROPERTIES EveryTransferEnds EveryCommandSucceeds
CHECK_DEADLOCK FALSE
