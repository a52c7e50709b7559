SPECIFICATION FairSpec
CONSTANTS
  j1 = j1
  m1 = m1
  s1 = s1
  s2 = s2
  Job = {j1}
  Process = {p1, p2}
  Run = {m1, s1}
  JobOf <- ManualAndScheduled
  Manual = {m1}
  Nobody = Nobody
  NoProcess = NoProcess
  RunLease = 2
  JobLease = 1
  MaxChanges = 1
  MaxCrashes = 1
INVARIANTS TypeOK ManualSuccessIsExclusive
PROPERTIES OutcomeIsFinal EventuallySettled
CHECK_DEADLOCK FALSE
