CONSTANTS
  k1 = k1
  o1 = o1
  o2 = o2
  p1 = p1
  p2 = p2
  v1 = v1
  v2 = v2
  AskedOrgs <- TwoOrgs
  Keys <- OneKey
  TokenTime = 1
  MaxChanges = 1
  Names <- TwoNames
  AppNames <- OneName
  Hosts <- TwoHosts
  Routes <- ThreeRoutes
  MaxInstances = 1
  Codes <- TwoCodes
  Components <- TwoComponents
  Days = 3
  Configs <- ConfigFiles
  Shown = {"lone", "paged", "lifecycle"}
  Services = {1}
  Plans = {2}
  Orgs = {}
  Spaces = {}
  ServiceOf <- ServiceOfPlan
  Values = {v1, v2}
  Processes = {p1}
  PageSize = 1
  SameSecond = FALSE
  MaxFailures = 1
  MaxRequests = 0
  MaxTime = 1
SPECIFICATION MCFairSpec
PROPERTIES AllCurrent EndsTogether
