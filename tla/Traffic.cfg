SPECIFICATION FairSpec
CONSTANTS
  Worlds <- MCWorlds
  TapCap = 2
  LogCap = 2
  QueueCap = 2
INVARIANTS ShownIsLatest OthersAsReceived
PROPERTIES WireFollowsList
CHECK_DEADLOCK FALSE
