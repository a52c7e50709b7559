SPECIFICATION FairSpec
CONSTANTS
  q1 = q1
  q2 = q2
  k1 = k1
  h = h
  item = item
  Request = {q1, q2}
  Action = {q1, q2}
  Body = {q1, q2}
  Key = {k1}
  NoKey = NoKey
  HashOf <- SameHash
  Nobody = Nobody
  NoReply = NoReply
  InFlightLease = 1
  ResponseTtl = 2
  Target = {item}
  TargetOf <- OneTarget
  Watched = {}
  ActionTtl = 1
  MaxChanges = 1
  Prompt = FALSE
  MaxFaults = 1
INVARIANTS TypeOK StoredAnswerIsTheHolders DeletedOnceAsShown RepeatsAgree
PROPERTIES EndIsFinal EverythingEnds
CHECK_DEADLOCK FALSE
