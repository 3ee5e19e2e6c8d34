SPECIFICATION AllSpec
CONSTANTS
  Requests <- AllRequests
  MaxReqs = 1
  MaxWrites = 1
  Timeout <- DefaultTimeout
  Pipelining = FALSE
INVARIANTS
  LinesReadOnce
CHECK_DEADLOCK FALSE
