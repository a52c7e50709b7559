SPECIFICATION FairSpec
CONSTANTS
  d1 = d1
  d2 = d2
  d3 = d3
  w1 = w1
  w2 = w2
  t1 = t1
  t2 = t2
  t3 = t3
  k1 = k1
  p1 = p1
  p2 = p2
  Delivery <- TwinDelivery
  Worker = {w1}
  Token = {t1, t2}
  Dedupe <- TwinDedupe
  Key = {k1}
  NoDelivery = NoDelivery
  NoToken = NoToken
  DedupeOf <- TwinDedupeOf
  KeyOf <- TwinKeyOf
  Lease = 3
  Renewal = 1
  Deadline = 1
  Window = 1
  Backoff = 1
  RetryDelay <- OneRetry
  Limit = 2
  MaxDisturbances = 2
  OnTime = FALSE
  PromptPreflight = TRUE
PROPERTIES EventuallyResolved
