\* three sends: a second execution chain
SPECIFICATION Spec
CONSTANTS
  m1 = m1
  m2 = m2
  m3 = m3
  None = None
  Sends <- ThreeSends
  RecentLimit = 2
  MaxQueue = 2
SYMMETRY AnyOrder
CHECK_DEADLOCK FALSE
INVARIANTS
  OneExecutionChain
