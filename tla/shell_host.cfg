SPECIFICATION FairSpec
CONSTANTS
  MaxLines = 4
  HostMaxLines = 2
  DrainLimit = 1
  Lossy = TRUE
INVARIANTS EvidenceInOrder NoUnattendedWorker
PROPERTY EndsReachRegistry
CHECK_DEADLOCK FALSE
