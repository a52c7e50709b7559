SPECIFICATION FairSpec
CONSTANTS
  a = a
  b = b
  Rule = {a, b}
  Worker = {w1, w2}
  NoRule = NoRule
  Position <- FirstASecondB
  Stops = {a}
  Actions = 1
  Roots = 1
  MaxDepth = 2
  MaxEvents = 4
  Lease = 1
  MaxEdits = 1
  MaxBreaks = 1
INVARIANTS HistoryIsTruthful FailuresAreTold LoopsAreCutAndShown
PROPERTIES RulesActInOrder ImplementsHistory CascadeEnds
CHECK_DEADLOCK FALSE
