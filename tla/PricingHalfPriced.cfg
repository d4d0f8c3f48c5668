CONSTANTS
  p1 = p1
  p2 = p2
  old = old
  new = new
  sparse = sparse
  early = early
  NoConfig = NoConfig
  Dummy = Dummy
  Processes <- OneProcess
  Configs <- OldAndNew
  VatRatesOf <- VatRates
  CurrencyRatesOf <- CurrencyRates
  PlansOf <- PlanFiles
  IgnoreMissing <- NoFile
  FirstConfig = old
  Usage <- Events
  Horizon = 3
SPECIFICATION DeploySpec
PROPERTIES EventsPricedThroughout
