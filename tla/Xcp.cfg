SPECIFICATION FairSpec
CONSTANTS
  PidRange = 256
  Addresses = {1, 5, 20, 30, 40}
  Far = 100
  MaxOdt = 2
  Regions <- MCRegions
  DaqLists = {0, 1}
  Worlds <- MCWorlds
INVARIANT ValuesAreTrue
PROPERTIES SuccessIsTrue TransactionsEnd
CHECK_DEADLOCK FALSE
