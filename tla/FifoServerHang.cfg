\* A single client that asks for a file that exists.
CONSTANTS
  a = a
  b = b
  Clients <- OneClient
  MAX_CLIENTS = 2
  PERIOD = 5
  Wanted <- OneFile
  TxCapacity = 2
  Unruly <- NoUnruly
  MayStop = FALSE
SPECIFICATION FairSpec
CHECK_DEADLOCK FALSE
PROPERTY ClientsEnd
