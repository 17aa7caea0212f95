CONSTANTS
  cli = cli  luci = luci  refresh = refresh  health = health  daemon = daemon
  None = None
  Threads <- Shared
  Processes <- SharedProcs
  ProcessOf <- SharedOf
  MaxOps = 1
  MaxRestarts = 0
SPECIFICATION Spec
INVARIANT HoldsLock
CHECK_DEADLOCK FALSE
