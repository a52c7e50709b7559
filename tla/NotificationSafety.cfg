SPECIFICATION Spec
CONSTANTS
  d1 = d1
  d2 = d2
  d3 = d3
  w1 = w1
  w2 = w2
  t1 = t1
  t2 = t2
  t3 = t3
  k1 = k1
  p1 = p1
  p2 = p2
  Delivery <- TwinDelivery
  Worker = {w1, w2}
  Token = {t1, t2, t3}
  Dedupe <- TwinDedupe
  Key = {k1}
  NoDelivery = NoDelivery
  NoToken = NoToken
  DedupeOf <- TwinDedupeOf
  KeyOf <- TwinKeyOf
  Lease = 2
  Renewal = 1
  Deadline = 1
  Window = 3
  Backoff = 1
  RetryDelay <- OneRetry
  Limit = 2
  MaxDisturbances = 1
  OnTime = FALSE
  PromptPreflight = FALSE
INVARIANTS TypeOK NoDuplicateWithinWindow
PROPERTIES ImplementsLedger
SYMMETRY Symmetric
