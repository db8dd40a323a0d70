SPECIFICATION FairSpec
CONSTANTS
  Frames <- Plain
  MaxFrames = 3
  TagDepth = 2
  CoreDepth = 2
  CoresMayDiverge = TRUE
INVARIANT FailClosed
PROPERTIES Answered
