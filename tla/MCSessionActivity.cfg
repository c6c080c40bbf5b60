SPECIFICATION FairSpec
CONSTANTS
  StaleAfter = 1
  UnknownAfter = 2
  ExternalMaxAge = 1
  InspectGrace = 0
  Turns = 1
  MaxTime = 4
  Activity = 2
  Overlap = FALSE
INVARIANTS
  WatchdogIsArmed
PROPERTIES
  LiveRunIsShown
  SilentRunIsQuestioned
