SPECIFICATION AllSpec
CONSTANTS
  Requests <- IntactRequests
  MaxReqs = 1
  MaxWrites = 1
  Timeout <- DefaultTimeout
  Pipelining = FALSE
INVARIANTS
  CallbackAfterWholeRequest
CHECK_DEADLOCK FALSE
