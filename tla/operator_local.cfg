SPECIFICATION StepSpec
CONSTANTS
  c1 = c1
  c2 = c2
  r1 = r1
  Clients = {c1, c2}
  Operator = c1
  HandoffReqs = {r1}
  Anchors <- DriftingRepo
  Operations <- LocalOperations
  MaxVersion = 5
  MaxRuns = 1
  MaxPackets = 0
  MaxAttempts = 0
  MaxReceipts = 1
INVARIANTS
  ContinueSettles
  OfferedStepsAreAccepted
PROPERTIES
  StepsAdvance
