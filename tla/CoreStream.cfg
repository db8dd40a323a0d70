SPECIFICATION Spec
CONSTANTS
  Requests <- Stream
  NumSlots = 2
  MaxPackets = 4
  EngineMayFault = TRUE
  BlockWords = 2
  BufBeats = 3
  BufWords = 4
  ClrCycles = 2
  ArgWords = 3
  FeedReads = 1
  EncCycles = 2
INVARIANTS BanksInterlocked EngineOwned ResultIsOwners DrainCatches OnlyVerifiedBytesLeave
PROPERTIES HeldBanksFrozen Implements
