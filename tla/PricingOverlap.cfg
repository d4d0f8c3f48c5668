CONSTANTS
  p1 = p1
  p2 = p2
  old = old
  new = new
  sparse = sparse
  early = early
  NoConfig = NoConfig
  Dummy = Dummy
  Processes <- TwoProcesses
  Configs <- OldNewEarly
  VatRatesOf <- VatRates
  CurrencyRatesOf <- CurrencyRates
  PlansOf <- PlanFiles
  IgnoreMissing <- NewOnly
  FirstConfig = old
  Usage <- Events
  Horizon = 3
SPECIFICATION DeploySpec
SYMMETRY ProcessSymmetry
INVARIANTS TypeOK OneConfig NoOrphanParts
PROPERTIES PricedExactlyOnce EveryEventPriced DummiesFillTheGaps
