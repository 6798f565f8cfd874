\* Every conversion of the formats over bounded inputs.
CONSTANTS
  WordBits = 8
  Addresses <- A2lAddresses
  FlushEntries = 2
  FlushAge = 2
  MaxFrames = 3
  MaxHistoryPoints = 2
  NumCharts = 2
SPECIFICATION Spec
INVARIANTS DecodedIsSlice WrittenReadsBack PeersUnderstand FilesAreRead
CHECK_DEADLOCK FALSE
