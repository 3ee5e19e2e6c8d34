SPECIFICATION Spec
CONSTANTS
  MaxWorkers = 2
  MaxCbs = 1
  Uris = {u1}
  Cbs = {f}
  Timeouts = {30}
  None = None
INVARIANTS
  FreeClean
CHECK_DEADLOCK FALSE
