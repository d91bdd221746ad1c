\* Two slots: a client that may be killed, one that only registers, and SIGTERM.
CONSTANTS
  a = a
  b = b
  Clients <- TwoClients
  MAX_CLIENTS = 2
  PERIOD = 2
  Wanted <- OneAndNone
  TxCapacity = 1
  Unruly <- OneUnruly
  MayStop = TRUE
SPECIFICATION FairSpec
CHECK_DEADLOCK FALSE
INVARIANT TypeOK
PROPERTY SlotsReclaimed
