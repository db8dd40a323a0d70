SPECIFICATION Spec
CONSTANTS
  Bytes = 4
  MinBytes = 2
  CntMax = 1
  WordBytes = 2
  MaxRaw = 6
  Plain <- NoPlain
INVARIANT TailIsZero
PROPERTIES BeatHeld Walked Implements
