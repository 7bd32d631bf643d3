SPECIFICATION ParitySpec
CONSTANTS
  Sources = {"worker_output", "fallback_note"}
  h1 = h1
  Handlers <- MCOne
  Sessions = {"s1"}
  Base = 2
  Digits = 2
  Retention = 2
  MaxBatch = 2
  MaxChunks = 4
  MaxTime = 7
  MaxRows = 2
INVARIANTS ReadsAgree LatestWithinASecond
CHECK_DEADLOCK FALSE
