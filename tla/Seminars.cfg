\* Each program of the seminars.  A process may wait for ever for one that has
\* failed, and all end, so the system may stop.
SPECIFICATION SeminarsSpec
CONSTANTS
  Programs <- AllPrograms
  FileBlocks = 8
  Faults = {"open", "read", "write"}
  MqBlocks = 9
  MqEofLike <- EofLikeBlocks
  QueueSize = 2
  MqRunsBlocks = 3
  MqFaults = {"open", "read", "send", "write", "kill"}
  FifoBlocks = 4
  Capacity = 2
  FifoFaults = {"open", "read", "write", "kill"}
  NRuns = 2
  Files <- MCFiles
  Full = 2
  Inherited <- MCInherited
  DuplexFaults = {"open"}
  Lines <- MCLines
  MAX_ARGS = 3
  MAX_COMMANDS = 3
  Blocks = 3
  ShellFaults = {"fork"}
  Entered <- MCEntered
  TOTAL_POINTS = 6
  MaxCores = 5
INVARIANTS
  SeminarsTypeOK Exclusive CompleteAtReturn
  MqCutOnlyAtEofLike MqEachMessageOnce
  FifoCompleteWhenDone FifoNameRemoved
  DuplexLosesOnlyShortEnd
  ShellCommandsAsWritten ShellEndsClosed ShellEachReapedOnce
  CounterIsSum NearlyAllDrawn
PROPERTIES
  CopiesInOrder MqCopiesInOrder ProgramsEnd
CHECK_DEADLOCK FALSE
