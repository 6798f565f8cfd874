SPECIFICATION FairSpec
CONSTANTS
  NumSegs = 5
  TxCap = 2
  MaxSends = 3
  Worlds <- MCWorlds
INVARIANT StoredIsPrefix
PROPERTIES EndsAsReported ImplementsTransfer
CHECK_DEADLOCK FALSE
