SPECIFICATION StepSpec
CONSTANTS
  c1 = c1
  c2 = c2
  r1 = r1
  Clients = {c1, c2}
  Operator = c1
  HandoffReqs = {r1}
  Anchors <- QuietRepo
  Operations <- HandoffOperations
  MaxVersion = 4
  MaxRuns = 1
  MaxPackets = 2
  MaxAttempts = 1
  MaxReceipts = 1
INVARIANTS
  SuccessIsDurable
  OnlyOpenRunsAreInconsistent
PROPERTIES
  ResolvesWhatWasPlanned
  NoRunWhileClaudeOwns
