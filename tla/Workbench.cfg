SPECIFICATION FairSpec
CONSTANTS
  Worlds <- MCWorlds
  MaxThreads = 2
  MaxQueue = 1
  MaxNodes = 2
PROPERTIES LeftThreadsEnd MonitorIsServed ConnectsByItself
CHECK_DEADLOCK FALSE
