SPECIFICATION Spec
CONSTANTS
  Types <- MCTypes
  Keys = {r, s}
  MaxTasks = 3
  Concurrency <- MCConcurrency
  MaxAttempts <- MCMaxAttempts
  HasBackoff <- MCHasBackoff
  HasTimeout <- MCHasTimeout
  HasQueueTimeout <- MCHasQueueTimeout
  HelperLane <- MCHelperLane
SYMMETRY KeySymmetry
CHECK_DEADLOCK FALSE
INVARIANTS
  TypeOK ActiveIsPending NothingStranded SlotAccounting WorkConserving SweepArmed
  SnapshotAgreesWithPromise
PROPERTIES KeepsContract NoOvertaking
