\* HTTP and RPC.
CONSTANTS
  Requests <- AllRequests
  MaxReqs = 2
  MaxWrites = 1
  Timeout <- DefaultTimeout
  Pipelining = TRUE
SPECIFICATION AllSpec
INVARIANTS
  Watched
  CloseAgreed
  ServedExactly
  
  
  RpcExact
 
CHECK_DEADLOCK FALSE
