\* No fault, prompt signals: what the program delivers, and its progress.
CONSTANTS
  NChunks = 3
  FileBlocks = 4
  MaxAttempts = 4
  Faults <- NoFaults
  Prompt = TRUE
SPECIFICATION FairSpec
CHECK_DEADLOCK FALSE
INVARIANT CompleteUnlessUnsent
PROPERTY CopyGoesOn
