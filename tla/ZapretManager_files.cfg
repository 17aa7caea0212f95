SPECIFICATION Spec
CONSTANT
  Faults = {"file", "service", "status", "crash"}
INVARIANT
  TypeOK
  UserFilesKept
  DisableRestores
