CONSTANTS
  c1 = c1
  c2 = c2
  Collectors <- OneCollector
  MaxEvents = 2
  MaxTime = 6
  FetchLimit = 1
  MinAge = 4
  MaxTx = 1
  MaxSkew = 1
  MaxRequest = 1
SPECIFICATION FairSpec
INVARIANTS TypeOK NoEventSkipped
PROPERTIES ScheduledMeansCaughtUp EventuallyStored
