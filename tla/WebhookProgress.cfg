SPECIFICATION FairSpec
CONSTANTS
  d1 = d1
  d2 = d2
  w1 = w1
  w2 = w2
  t1 = t1
  t2 = t2
  t3 = t3
  ann = ann
  bob = bob
  Delivery = {d1, d2}
  Worker = {w1, w2}
  Token = {t1, t2, t3}
  Person = {ann}
  Leavers = {ann}
  NoDelivery = NoDelivery
  NoToken = NoToken
  SourceOf <- TestAndRedelivery
  Creator = ann
  Lease = 2
  Timeout = 1
  RetryDelay <- OneRetry
  Limit = 2
  DisableAfter = 1
  Skew = 0
  MaxLag = 0
  MaxClaims <- ThreeEach
  MaxEdits = 0
  MaxCrashes = 1
  Prompt = TRUE
INVARIANTS SinglePost
PROPERTIES EventuallyFinished
