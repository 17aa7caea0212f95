CONSTANTS
  cli = cli  luci = luci  refresh = refresh  health = health  daemon = daemon
  None = None
  Threads <- Apart
  Processes <- ApartProcs
  ProcessOf <- ApartOf
  MaxOps = 2
  MaxRestarts = 0
SPECIFICATION Spec
INVARIANT HoldsLock
PROPERTY LedgerIsAtomic
CHECK_DEADLOCK FALSE
