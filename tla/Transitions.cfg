SPECIFICATION FairSpec
CONSTANTS
  waiting = waiting
  started = started
  start = start
  back = back
  check = check
  sign = sign
  State = {waiting, started}
  Start = waiting
  Edge = {start, back, check, sign}
  From <- TheFrom
  To <- TheTo
  Gate <- TheGate
  Hop <- TheHop
  NoHop = NoHop
  NoEdge = NoEdge
  Requested = {check, sign}
  Request = {q1}
  Worker = {w1}
  Approval = {a1, a2}
  Expiry = 1
  Delay = 1
  MaxMoves = 6
  MaxAsked = 3
  MaxRetired = 1
  MaxFaults = 1
INVARIANTS ApprovalsAreSingleUse NoDeadRequests
PROPERTIES HopsAreNeverStale EverythingSettles
CHECK_DEADLOCK FALSE
