SPECIFICATION FairQueueSpec
CONSTANTS
  Keys = {"session"}
  NoKey = "none"
  Sizes = {1, 2, 5}
  Calls <- MCCalls
  MaxCommands = 4
  MaxCommandBytes = 3
  MaxPendingCommands = 2
  MaxPendingBytes = 3
  MaxBatchCommands = 2
  MaxBatchBytes = 3
  MaxRetries = 1
CHECK_DEADLOCK FALSE
INVARIANTS QueueTypeOK PendingIsHeld BudgetIsExact CallOrder OnlyBatchesRepeat
PROPERTY EveryCommandIsDecided
