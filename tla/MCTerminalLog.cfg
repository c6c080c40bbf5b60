CONSTANTS
  MaxChunks <- MCMaxChunks
  MaxFaults <- MCMaxFaults
  MaxRuns <- MCMaxRuns
  Batches <- MCBatches
SPECIFICATION FairSpec
CHECK_DEADLOCK FALSE
INVARIANTS
  LogTypeOK NothingIsStranded FlushTakesWhatItFound IndexIsAChain
  RemovalLeavesNothing
PROPERTY OutputIsIndexed
