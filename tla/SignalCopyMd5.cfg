\* The comparison of input and output in run.sh.
CONSTANTS
  NChunks = 2
  FileBlocks = 3
  MaxAttempts = 4
  Faults <- NoFaults
  Prompt = TRUE
SPECIFICATION Spec
CHECK_DEADLOCK FALSE
INVARIANT SuccessMeansCopied
