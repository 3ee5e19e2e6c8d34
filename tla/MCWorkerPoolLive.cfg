SPECIFICATION FairSpec
CONSTANTS
  Conns = {c1, c2, c3}
  NThreads = 2
  PipeCap = 1
  Backlog = 3
  None = None
PROPERTIES
  EveryConnectionStarted
  DispatchSpec
CHECK_DEADLOCK FALSE
