SPECIFICATION FairSpec
CONSTANTS
  Types <- MCTypes
  Keys = {r, s}
  MaxTasks = 2
  Concurrency <- MCConcurrency
  MaxAttempts <- MCMaxAttempts
  HasBackoff <- MCHasBackoff
  HasTimeout <- MCHasTimeout
  HasQueueTimeout <- MCHasQueueTimeout
  HelperLane <- MCHelperLane
CHECK_DEADLOCK FALSE
PROPERTIES TimeoutTypesSettle QueueWaitIsBounded
