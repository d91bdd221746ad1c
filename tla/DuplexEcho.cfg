\* What the parent of sem_2 copies should have been to the child and back.
SPECIFICATION SeminarsSpec
CONSTANTS
  Programs = {"duplex_pipe"}
  FileBlocks = 8
  Faults = {"open", "read", "write"}
  MqBlocks = 9
  MqEofLike <- EofLikeBlocks
  QueueSize = 2
  MqRunsBlocks = 3
  MqFaults = {"open", "read", "send", "write", "kill"}
  FifoBlocks = 4
  Capacity = 2
  FifoFaults = {"open", "read", "write", "kill"}
  NRuns = 2
  Files <- MCFiles
  Full = 2
  Inherited <- MCInherited
  DuplexFaults = {"open"}
  Lines <- MCLines
  MAX_ARGS = 3
  MAX_COMMANDS = 3
  Blocks = 3
  ShellFaults = {"fork"}
  Entered <- MCEntered
  TOTAL_POINTS = 6
  MaxCores = 5
INVARIANT DuplexEchoed
CHECK_DEADLOCK FALSE
