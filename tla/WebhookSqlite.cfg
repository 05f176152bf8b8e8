SPECIFICATION FairSpec
CONSTANTS
  snooze = snooze
  revise1 = revise1
  revise2 = revise2
  text1 = text1
  text2 = text2
  b1 = b1
  op1 = op1
  h1 = h1
  h2 = h2
  i1 = i1
  i2 = i2
  NoEvent = NoEvent
  NoSession = NoSession
  NoDraft = NoDraft
  Events <- MCEvents
  Kind <- MCKind
  OperatorOf <- MCOperatorOf
  BatchOf <- MCBatchOf
  Batches <- MCBatches
  Operators <- MCOperators
  Handlers <- MCHandlers
  Instances <- OneInstance
  InstanceOf <- Together
  MaxScans = 2
  MaxTime = 4
  MaxDbErrors = 1
  MaxCrashes = 1
INVARIANTS TypeOK OneProcessor OneDecisionPerEvent AnswersAreTrue OneRoundPerSuggestion OwnFeedback SessionsMatchRevisions
PROPERTIES ImplementsIdempotency ClaimsSettle
CHECK_DEADLOCK FALSE
