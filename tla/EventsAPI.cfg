CONSTANTS
  bills = bills
  usage = usage
  forecast = forecast
  Requests = {bills, usage, forecast}
  Together <- Clients
  Endpoint <- Endpoints
  AskedRange <- Ranges
  Orgs <- Asked
  Events = {1, 2, 3}
  Span <- Spans
  OrgOf <- Organisations
  Tasks = {2}
  Dummies = {3}
  MonthStart <- MonthStarts
  MaxMonth = 2
  MaxFailures = 1
SPECIFICATION FairSpec
INVARIANTS RepliesAreWhole DaysAnsweredOnce BilledMonthsRepeated ForecastsLeaveNothing
PROPERTY RequestsEnd
