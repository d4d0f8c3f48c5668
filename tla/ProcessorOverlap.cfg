CONSTANTS
  p1 = p1
  p2 = p2
  p3 = p3
  Shown = {"transactions", "locks"}
  Processors <- TwoProcessors
  NumMonths = 2
  MonthLen = 1
  MaxTime = 5
  MaxLag = 1
  RefreshTimeout = 1
  Grace = 2
  Contenders <- ThreeProcessors
  NumKeys = 3
SPECIFICATION MCSpec
SYMMETRY ProcessorSymmetry
INVARIANTS BillsAreComplete NoMonthLeftOut ConsolidationInNoCircle
PROPERTIES ImplementsLedger
