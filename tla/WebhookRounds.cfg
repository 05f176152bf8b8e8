SPECIFICATION Spec
CONSTANTS
  snooze = snooze
  revise1 = revise1
  revise2 = revise2
  text1 = text1
  text2 = text2
  b1 = b1
  op1 = op1
  h1 = h1
  h2 = h2
  i1 = i1
  i2 = i2
  NoEvent = NoEvent
  NoSession = NoSession
  NoDraft = NoDraft
  Events <- MCEvents
  Kind <- MCKind
  OperatorOf <- MCOperatorOf
  BatchOf <- MCBatchOf
  Batches <- MCBatches
  Operators <- MCOperators
  Handlers <- MCHandlers
  Instances <- TwoInstances
  InstanceOf <- Apart
  MaxScans = 1
  MaxTime = 3
  MaxDbErrors = 0
  MaxCrashes = 0
INVARIANTS OneRoundPerSuggestion
CHECK_DEADLOCK FALSE
