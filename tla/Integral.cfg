SPECIFICATION FairSpec
CONSTANTS
  Servers <- MCServers
  Arguments <- MCArguments
  TCP_TASK_PORT = 8125
  MAX_SERVERS = 3
  DefaultPoints = 5
  XMax = 6
  Faults = {"crash", "stop", "loss", "copy"}
  MaxChanges = 2
INVARIANTS TypeOK StripsPartition SumOfStrips FoundOnce
PROPERTIES ClientEnds
CHECK_DEADLOCK FALSE
