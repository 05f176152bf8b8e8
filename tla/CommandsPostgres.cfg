SPECIFICATION CommandsSpec
CONSTANTS
  b1 = b1
  b2 = b2
  e1 = e1
  p1 = p1
  c1 = c1
  c2 = c2
  r1 = r1
  t1 = t1
  s1 = s1
  NoReceipt = NoReceipt
  NoOrder = NoOrder
  NoDecision = NoDecision
  NoCall = NoCall
  NoResult = NoResult
  Scan = Scan
  Batches <- MCBatches
  Events <- MCEvents
  BatchOf <- MCBatchOf
  Plans <- MCPlans
  Clients <- MCClients
  Receipts <- MCReceipts
  Tokens <- MCTokens
  ScanTokens <- MCScanTokens
  Backend = "postgres"
  Limit = 1
  MaxWindow = 1
  MaxRequests = 3
SYMMETRY MCSymmetry
INVARIANTS CommandsTypeOK CarriedOutOnce ClaimsHaveOneHolder QuotaOnTime
PROPERTIES ImplementsIdempotency
CHECK_DEADLOCK FALSE
