SPECIFICATION FairSpec
CONSTANTS
  Ids = 4
  Commands <- Single
  Reordering = FALSE
  Faults <- LineFaults
  MaxRequests = 3
  MaxProcesses = 1
INVARIANTS OwnReply WholeReply
PROPERTIES NothingLeftUnread CommandEnds
CHECK_DEADLOCK FALSE
