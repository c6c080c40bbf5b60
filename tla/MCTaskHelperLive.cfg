CONSTANTS
  short = short
  stuck = stuck
  huge = huge
  only = only
  Calls = {short, stuck}
  Oversized = {}
  Stuck = {stuck}
  Handlers = {only}
  Handler <- HandlerOfAll
  Slots <- OneSlot
  QueueLimited <- NoneIsLimited
  Abortable = {stuck}
  Crashing = {1}
  Leaking = {}
SPECIFICATION FairSpec
PROPERTIES
  AbandonedIsForgotten
  CallsSettle
CHECK_DEADLOCK FALSE
