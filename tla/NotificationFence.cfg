SPECIFICATION Spec
CONSTANTS
  d1 = d1
  d2 = d2
  d3 = d3
  w1 = w1
  w2 = w2
  t1 = t1
  t2 = t2
  t3 = t3
  k1 = k1
  p1 = p1
  p2 = p2
  Delivery <- CollidingDelivery
  Worker = {w1, w2}
  Token = {t1, t2, t3}
  Dedupe <- CollidingDedupe
  Key = {k1}
  NoDelivery = NoDelivery
  NoToken = NoToken
  DedupeOf <- CollidingDedupeOf
  KeyOf <- CollidingKeyOf
  Lease = 3
  Renewal = 1
  Deadline = 2
  Window = 1
  Backoff = 1
  RetryDelay <- NoRetry
  Limit = 1
  MaxDisturbances = 0
  OnTime = TRUE
  PromptPreflight = TRUE
INVARIANTS SingleSender
PROPERTIES ReservationKeepsItsTriple
SYMMETRY Symmetric
