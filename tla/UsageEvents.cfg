CONSTANTS
  p1 = p1
  p2 = p2
  Processes <- TwoProcesses
  app = app
  service = service
  smoke = smoke
  Resources <- EveryKind
  Unmetered <- OnlySmoke
  States <- StatesOf
  MaxRows = 3
  MaxTime = 2
  MaxSkew = 1
  MinAge = 1
SPECIFICATION Spec
SYMMETRY ProcessSymmetry
INVARIANTS TypeOK TableAgreesWithRows BilledAsUsed
PROPERTIES PastIsStable
