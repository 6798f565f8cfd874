SPECIFICATION FairSpec
CONSTANTS
  NumSegs = 4
  BlkSizes = {0, 1, 2, 3, 4}
  DefaultBlk = 2
  MaxBlk = 3
  MaxStall = 1
  MaxSends = 2
  Worlds <- MCWorlds
INVARIANTS TypeOK CrcGuardsCommit
PROPERTIES Terminates LossIsRepaired ImplementsTransfer
CHECK_DEADLOCK FALSE
