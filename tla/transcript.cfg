SPECIFICATION Spec
CONSTANTS
  Sources = {"worker_output", "fallback_note"}
  h1 = h1
  Handlers <- MCOne
  Retention = 2
  MaxBatch = 2
  MaxChunks = 3
  MaxReviews = 2
  MaxAcks = 1
INVARIANTS CurrentMeansSeen ProgressionIsHonest FreshAckSawAll
PROPERTY ImplementsBoundedLog
CHECK_DEADLOCK FALSE
