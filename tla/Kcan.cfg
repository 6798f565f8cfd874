SPECIFICATION FairSpec
CONSTANTS
  TxCmdCap = 2
  ToUsbCap = 1
  ToCanCap = 1
  FifoCap = 2
  Wrap = 4
  Worlds <- MCWorlds
INVARIANTS SeenIsTrue ListenOnlyIsQuiet
PROPERTIES TimeNeverGoesBack HostIsServed
CHECK_DEADLOCK FALSE
