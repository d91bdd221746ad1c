\* Every fault, signals that may arrive late.
CONSTANTS
  NChunks = 3
  FileBlocks = 4
  MaxAttempts = 4
  Faults <- AllFaults
  Prompt = FALSE
SPECIFICATION Spec
CHECK_DEADLOCK FALSE
INVARIANTS TypeOK OneHolder NothingVanishes
PROPERTIES UntouchedUntilWritten CopiesInOrder
