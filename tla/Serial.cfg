SPECIFICATION SerialSpec
CONSTANTS
  Depth = 2
  Data <- TwoValues
INVARIANT LossIsSeen
PROPERTY Implements
