\* Signals, the back ends of the event loop, and evdns.c.
CONSTANTS
  None = None
  Bases = {"b1"}
  SigEvents = {"e1", "e2", "e3"}
  Sigs = {1, 3}
  BaseOf <- OneLoop
  SigOf <- TwoSigs
  Persist = {"e1", "e3"}
  Pair = 2
  Faults = {"sh_old"}
  MaxSignals = 4
  MaxCalls = 4
SPECIFICATION AllSpec
INVARIANTS
  SignalsSound
  
  
  MessagesExact
  HoldersExact
 
CHECK_DEADLOCK FALSE
