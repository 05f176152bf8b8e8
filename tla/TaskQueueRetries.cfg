SPECIFICATION Spec
CONSTANTS
  k1 = k1
  k2 = k2
  w1 = w1
  w2 = w2
  NoTask = NoTask
  Tasks <- MCTasks
  Workers <- MCWorkers
  MaxAttempts = 2
  Visibility = 2
  BackoffCap = 3
  SlowScans = FALSE
  MaxCrashes = 3
  MaxDbErrors = 0
INVARIANTS BoundedRetry
