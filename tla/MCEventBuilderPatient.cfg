\* A padding in which more than two events are written.
CONSTANTS
  RamBlocks = 9
  Padding = 48
  MaxData = 2
  Requests <- MCRequests
SPECIFICATION PatientSpec
INVARIANT BlocksIntact
PROPERTY EventsTaken
