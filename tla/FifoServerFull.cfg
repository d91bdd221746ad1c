\* One slot for two clients, several files, one of them missing.
CONSTANTS
  a = a
  b = b
  Clients <- TwoClients
  MAX_CLIENTS = 1
  PERIOD = 1
  Wanted <- TwoAndMiss
  TxCapacity = 2
  Unruly <- OneUnruly
  MayStop = TRUE
SPECIFICATION FairSpec
CHECK_DEADLOCK FALSE
INVARIANTS OwnData FileInOrder FdsAccounted
PROPERTY ServedClientEnds
