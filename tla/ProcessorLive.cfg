CONSTANTS
  p1 = p1
  p2 = p2
  p3 = p3
  Shown = {"transactions", "locks"}
  Processors <- OneProcessor
  NumMonths = 2
  MonthLen = 1
  MaxTime = 4
  MaxLag = 0
  RefreshTimeout = 1
  Grace = 2
  Contenders <- ThreeProcessors
  NumKeys = 1
SPECIFICATION MCFairSpec
PROPERTIES EveryMonthBilled ConsolidationEnds
