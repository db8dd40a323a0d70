SPECIFICATION ConsoleFairSpec
CONSTANTS
  Ids = 16
  Commands <- AllCommands
  Reordering = TRUE
  Faults <- SomeFault
  MaxRequests = 14
  MaxProcesses = 2
  Seeds <- OneSeed
  MaxFaults = 1
  Invocations <- Kinds
INVARIANTS OwnReply ErrorsHaveCause ExitIsTheContract
PROPERTIES InvocationEnds
CHECK_DEADLOCK FALSE
