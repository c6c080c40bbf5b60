CONSTANTS
  short = short
  stuck = stuck
  huge = huge
  only = only
  Calls = {short, stuck, huge}
  Oversized = {huge}
  Stuck = {stuck}
  Handlers = {only}
  Handler <- HandlerOfAll
  Slots <- OneSlot
  QueueLimited <- ShortIsLimited
  Abortable = {stuck}
  Crashing = {1}
  Leaking = {1}
SPECIFICATION Spec
INVARIANTS
  HelperTypeOK
  WaitingIsPending
  UnackedIsSomewhere
  RefusalsDidNotRun
  RepeatOnlyAfterLoss
  IdleIsCoveredUnlessRefused
CHECK_DEADLOCK FALSE
