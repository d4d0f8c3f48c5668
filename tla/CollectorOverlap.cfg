CONSTANTS
  c1 = c1
  c2 = c2
  Collectors <- TwoCollectors
  MaxEvents = 3
  MaxTime = 3
  FetchLimit = 2
  MinAge = 2
  MaxTx = 1
  MaxSkew = 0
  MaxRequest = 0
SPECIFICATION Spec
SYMMETRY CollectorSymmetry
INVARIANTS IdOrderIsLogOrder NoCircularWait
PROPERTIES ImplementsEventFeed
