CONSTANTS
  MaxChunks <- MCMaxChunks
  MaxFaults <- MCMaxFaults
  MaxRuns <- MCMaxRuns
  Batches <- MCBatches
SPECIFICATION Spec
INVARIANT
  FlushedIsReadable
CHECK_DEADLOCK FALSE
