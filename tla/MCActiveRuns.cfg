\* two sends: safety and the release of ended runs
SPECIFICATION FairSpec
CONSTANTS
  m1 = m1
  m2 = m2
  m3 = m3
  None = None
  Sends <- TwoSends
  RecentLimit = 2
  MaxQueue = 2
CHECK_DEADLOCK FALSE
INVARIANTS
  OneChainUntilAbandoned
  CompletedRunIsPersisted
PROPERTY
  RecordIsReleased
