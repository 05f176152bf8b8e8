SPECIFICATION Spec
CONSTANTS
  b1 = b1
  b2 = b2
  e1 = e1
  e2 = e2
  e3 = e3
  p1 = p1
  c1 = c1
  c2 = c2
  r1 = r1
  r2 = r2
  NoReceipt = NoReceipt
  NoOrder = NoOrder
  NoDecision = NoDecision
  NoCall = NoCall
  Batches <- MCBatches
  Events <- MCEvents
  BatchOf <- MCBatchOf
  Plans <- MCPlans
  Clients <- MCClients
  Receipts <- MCReceipts
  Backend = "postgres"
PROPERTIES LegalTransitions
