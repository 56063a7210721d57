CONSTANTS
  RamBlocks = 7
  Padding = 2
  MaxData = 6
  Requests <- MCRequests
SPECIFICATION EBFairSpec
INVARIANTS
  EBTypeOK
  BlocksIntact
  ReaderAligned
  BufferFits
  DoneMeansFull
PROPERTY
  EventsTaken
