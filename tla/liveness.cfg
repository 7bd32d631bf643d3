SPECIFICATION FairSpec
CONSTANTS
  c1 = c1
  c2 = c2
  r1 = r1
  Clients = {c1, c2}
  HandoffReqs = {r1}
  Anchors <- QuietRepo
  Operations <- SteadyOperations
  MaxVersion = 3
  MaxRuns = 1
  MaxPackets = 1
  MaxAttempts = 2
INVARIANTS
  LaunchersAwaited
PROPERTIES
  LiveRunsEnd
  LaunchesConclude
