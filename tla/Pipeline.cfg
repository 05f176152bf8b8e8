SPECIFICATION Spec
CONSTANTS
  b1 = b1
  b2 = b2
  b3 = b3
  b4 = b4
  s1 = s1
  p1 = p1
  sell = sell
  scrap = scrap
  NoAction = NoAction
  Batches <- MCBatches
  Stocked <- MCStocked
  DaysLeft <- MCDaysLeft
  Id <- MCId
  Stock <- MCStock
  Jobs <- MCJobs
  Scanners <- MCScanners
  Planners <- MCPlanners
  Enabled <- MCEnabled
  Capacities <- MCCapacities
  PageSize = 2
  MaxRetries = 1
  MaxMoves = 1
  MaxBusy = 1
  Red = 7
  Orange = 15
  Yellow = 30
  MaxConcurrency = 2
  MaxAttempts = 2
  MaxDeaths = 1
INVARIANTS TypeOK LoadIsWhole NoBatchForgotten CardsMatchStore CapacityRespected NoneOvertaken PlanCoversStock
PROPERTIES ScansEnd
CHECK_DEADLOCK FALSE
