CONSTANTS
  Links <- MCLinks
  Lengths <- MCLengths
  DonePolls = 1
  WritePolls = 2
  ReadPolls = 2
  MaxOps = 2
  MaxLosses = 1
SPECIFICATION SCFairSpec
CHECK_DEADLOCK FALSE
INVARIANTS
  SCTypeOK
  ReadOwnReply
  AckMeansWritten
  NothingLeftBehind
  BlockedOnlyByReset
PROPERTIES
  NothingHangs
