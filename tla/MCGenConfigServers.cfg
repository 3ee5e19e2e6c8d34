SPECIFICATION Spec
CONSTANTS
  MaxLines = 3
  Ints = {0}
  Percents = {0}
  Names = {"host"}
INVARIANTS
  ServersAsConfigured
CHECK_DEADLOCK FALSE
