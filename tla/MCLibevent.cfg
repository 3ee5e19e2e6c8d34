\* The parts of libevent below HTTP and DNS.
CONSTANTS
  None = None
  Junk = Junk
  Marks = {0, 1, 2}
  MaxIn = 3
  MaxOut = 2
  MaxCalls = 3
SPECIFICATION AllSpec
INVARIANTS
  BevSound
  ListsExact
  CallsRight
  StreamsSound
PROPERTY BuffersAreQueues
CHECK_DEADLOCK FALSE
