SPECIFICATION Spec
CONSTANTS
  NetParts = 2
  SeqMax = 2
  NetWorlds <- MCNetWorlds
  ApexCmdCap = 2
  ApexWorlds <- MCApexWorlds
  Processes = {p1, p2, p3}
  Programs = {1, 2, 3}
  Capacity = 2
  MaxRows = 3
  PageWorlds <- MCPageWorlds
  Chunks = 2
  UpdateWorlds <- MCUpdateWorlds
  Kinds = {"socketcan"}
  LockWorlds <- Together
INVARIANT OneHolder
CHECK_DEADLOCK FALSE
