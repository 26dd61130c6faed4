SPECIFICATION Spec
CONSTANTS
  k1 = k1
  k2 = k2
  Keys = {k1, k2}
  MaxLSN = 4
  MaxSeq = 4
  MaxCrashes = 0
  MaxFaults = 0
  MaxFreezes = 1
  MaxCompacts = 1
  MaxScans = 0
  Deletes = TRUE
  Checkpoints = FALSE
  Closes = FALSE
  ShutdownFaults = FALSE
  MemtableRecords = 2
SYMMETRY KeySymmetry
INVARIANT
  RegisteredFilesExist
CHECK_DEADLOCK FALSE
