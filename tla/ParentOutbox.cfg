SPECIFICATION FairSpec
CONSTANTS
  e1 = e1
  e2 = e2
  webhook = webhook
  automation = automation
  Event = {e1, e2}
  Replica = {r1, r2}
  Consumer = {webhook, automation}
  Handles <- BothWantFirst
  Corrupt = {e2}
  NoEvent = NoEvent
  NoReplica = NoReplica
  RetryDelay <- TwoRetries
  Limit = 3
  MaxCrashes = 2
  MaxRequeues = 1
INVARIANTS TypeOK
PROPERTIES ImplementsFanout EventuallySettled
