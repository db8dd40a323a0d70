SPECIFICATION Spec
CONSTANTS
  Frames <- Mixed
  MaxFrames = 4
  TagDepth = 2
  CoreDepth = 2
  CoresMayDiverge = FALSE
INVARIANTS NoOverflow TagsDescribe KeystoresAgree
PROPERTIES Implements
