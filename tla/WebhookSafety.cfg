SPECIFICATION Spec
CONSTANTS
  d1 = d1
  d2 = d2
  w1 = w1
  w2 = w2
  t1 = t1
  t2 = t2
  t3 = t3
  ann = ann
  bob = bob
  Delivery = {d1, d2}
  Worker = {w1, w2}
  Token = {t1, t2}
  Person = {ann, bob}
  Leavers = {}
  NoDelivery = NoDelivery
  NoToken = NoToken
  SourceOf <- EventAndRedelivery
  Creator = ann
  Lease = 1
  Timeout = 0
  RetryDelay <- OneRetry
  Limit = 2
  DisableAfter = 2
  Skew = 1
  MaxLag = 1
  MaxClaims <- TwoAndOne
  MaxEdits = 1
  MaxCrashes = 0
  Prompt = FALSE
SYMMETRY Symmetric
INVARIANTS TypeOK BodyStaysWithDestination
PROPERTIES ImplementsLedger DisabledOnlyAfterWindow
