SPECIFICATION TornSpec
CONSTANTS
  c1 = c1
  c2 = c2
  r1 = r1
  Clients = {c1, c2}
  Reader = c1
  HandoffReqs = {r1}
  Anchors <- QuietRepo
  Operations <- TornOperations
  MaxVersion = 5
  MaxRuns = 2
  MaxPackets = 1
  MaxAttempts = 0
INVARIANTS
  TypeOK
  OnlyLatestRunning
  VersionVouchesForSnapshot
  CurrentVersionCurrentRun
PROPERTIES
  VersionCoversChanges
  ImplementsRunLedger
  TerminalRunsStay
