SYMMETRY SameProcs
SPECIFICATION Spec
CONSTANTS
  Selectors = {"t"}
  Hosts = {"h"}
  Ports = {10808, 10809}
  p1 = p1  p2 = p2
  Procs = {p1, p2}
  Nobody = "nobody"
  Stored <- MCStored
  BackupNames = {1, 2}
  MaxUpdates = 2
  MaxSpoils = 1
  Faults = {"disk", "crash"}
INVARIANTS TypeOK ChangesSurvive CorruptKept
PROPERTY NewerKept
