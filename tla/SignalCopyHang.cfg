\* The program may wait for ever in pause().
CONSTANTS
  NChunks = 2
  FileBlocks = 2
  MaxAttempts = 4
  Faults <- NoFaults
  Prompt = TRUE
SPECIFICATION FairSpec
CHECK_DEADLOCK FALSE
PROPERTY ProgramEnds
