SPECIFICATION FairSpec
CONSTANTS
  Export = {x1, x2}
  Worker = {w1, w2}
  NoExport = NoExport
  MaxActive = 2
  StaleRunning = 1
  Ttl = 1
  NotifyLease = 2
  Prompt = TRUE
  MaxBreaks = 1
INVARIANTS TypeOK ReadyIsWhole OneSender
PROPERTIES NeverReadyAgain ExportsEnd
CHECK_DEADLOCK FALSE
