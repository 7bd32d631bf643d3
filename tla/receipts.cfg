SPECIFICATION AuditSpec
CONSTANTS
  c1 = c1
  r1 = r1
  Clients = {c1}
  HandoffReqs = {r1}
  Anchors <- QuietRepo
  Operations <- AuditOperations
  MaxVersion = 3
  MaxRuns = 0
  MaxPackets = 2
  MaxAttempts = 1
  MaxEvidence = 2
  MaxGapAcks = 1
INVARIANTS
  ReceiptsTellTheirOwn
  ResolutionEndsTheTrail
