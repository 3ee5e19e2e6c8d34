SPECIFICATION Spec
CONSTANTS
  Conns = {c1, c2, c3, c4, c5}
  NThreads = 2
  PipeCap = 2
  Backlog = 2
  None = None
SYMMETRY ConnSymmetry
INVARIANTS
  TypeOK
  QueueSafe
  TasksInOrder
  OneOwner
  NoneLost
  Balanced
  GencbBeforeRequests
CHECK_DEADLOCK FALSE
