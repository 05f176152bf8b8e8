SPECIFICATION Spec
CONSTANTS
  p1 = p1
  p2 = p2
  k1 = k1
  c1 = c1
  Nobody = Nobody
  Processes <- MCProcesses
  Limiters <- MCProcesses
  Reporters <- MCProcesses
  Recorders <- MCProcesses
  Latest <- MCLatest
  Stores = 2
  Keys <- MCKeys
  Customers <- MCCustomers
  Offset <- MCOffset
  Start <- MCStart
  End = 5
  MonthLength = 2
  MonthsPerYear = 2
  FireAt = 0
  Limit = 1
  Window = 2
  MaxStarts = 3
  MaxDeeds = 2
  Tenants <- MCCustomers
  EventIds <- MCEventIds
  Periods <- MCPeriods
  PageLimit = 1
  Retention = 1
INVARIANTS StoresClosed
CHECK_DEADLOCK FALSE
