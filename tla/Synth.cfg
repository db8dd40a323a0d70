SPECIFICATION FairSpec
CONSTANTS
  Tops <- ThreeTops
  Netlists <- Mapped
  Timings <- Reported
  Constants <- TwoConstants
  Interruptions <- Everything
  MaxRuns = 2
INVARIANTS BitMatchesReportCalm BitIsSound
PROPERTIES EarlyEndKeeps SuccessMeans RunEnds
CHECK_DEADLOCK FALSE
