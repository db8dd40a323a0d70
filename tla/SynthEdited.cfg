SPECIFICATION FairSpec
CONSTANTS
  Tops <- DualOnly
  Netlists <- GoodOnly
  Timings <- MetOnly
  Constants <- TwoConstants
  Interruptions <- EditedOnly
  MaxRuns = 2
INVARIANTS BitKnowsItsClock
CHECK_DEADLOCK FALSE
