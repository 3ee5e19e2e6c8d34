\* The parts of testbed in one thread, and the other programs.
CONSTANTS
  MaxWorkers = 3
  MaxCbs = 3
  Uris = {u1, u2}
  Cbs = {f, g}
  Timeouts = {30}
  None = None
SPECIFICATION AllSpec
INVARIANTS
  RingInOrder
  WorkersAgree
  CallbacksMirrored
  FreeCleanInLargerRings
  TablesExact
  PagesRepeatable
  ConfigSound
  Repairs
  OwnStems
  StemsFollowRules
  FrontEndsExact
CHECK_DEADLOCK FALSE
