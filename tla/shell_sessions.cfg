SPECIFICATION FairSpec
CONSTANTS
  s1 = s1
  o1 = o1
  w1 = w1
  NoId = NoId
  NoTarget = NoTarget
  Shells <- MCOneShell
  Others <- MCOther
  WorkerIds <- MCOneId
  Beat = 2
  StaleAfter = 5
  Delay = 1
  MaxMisses = 1
  MaxLate = 1
INVARIANTS RunningIsNotStale AttachableIsVouched
PROPERTY GoneSessionsFade
