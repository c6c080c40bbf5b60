SPECIFICATION WritesSpec
CONSTANTS
  Keys = {"session"}
  NoKey = "none"
  Values = {"active", "ended"}
  NoValue = "absent"
  Sizes = {1}
  Calls = {}
  MaxCommands = 3
  MaxCommandBytes = 1
  MaxPendingCommands = 1
  MaxPendingBytes = 2
  MaxBatchCommands = 2
  MaxBatchBytes = 2
  MaxRetries = 1
CHECK_DEADLOCK FALSE
INVARIANTS WritesTypeOK PendingEntryHasWrite QueuedWritesRefuseRepeatsOnly
