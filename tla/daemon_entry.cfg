SPECIFICATION FairSpec
CONSTANTS
  c1 = c1
  c2 = c2
  d1 = d1
  d2 = d2
  Nobody = Nobody
  Clients <- MCTwoClients
  Daemons <- MCTwoDaemons
  MaxAttempts = 1
  MaxRetries = 1
  MaxUpdates = 1
  Faults = TRUE
INVARIANTS SettledSocketServes CreatedOnlyIfNoneWas
PROPERTIES CommandsEnd
CHECK_DEADLOCK FALSE
