SPECIFICATION FairSpec
CONSTANTS
  Requests <- EveryShape
  NumSlots = 1
  MaxPackets = 2
  EngineMayFault = TRUE
  BlockWords = 2
  BufBeats = 3
  BufWords = 4
  ClrCycles = 2
  ArgWords = 3
  FeedReads = 1
  EncCycles = 2
INVARIANT FakeAnswersAlike
PROPERTIES Implements Answered
