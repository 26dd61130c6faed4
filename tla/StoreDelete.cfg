SPECIFICATION Spec
CONSTANTS
  k1 = k1
  k2 = k2
  Keys = {k1, k2}
  MaxLSN = 3
  MaxSeq = 3
  MaxCrashes = 0
  MaxFaults = 0
  MaxFreezes = 2
  MaxCompacts = 0
  MaxScans = 0
  Deletes = TRUE
  Checkpoints = FALSE
  Closes = FALSE
  ShutdownFaults = FALSE
  MemtableRecords = 2
SYMMETRY KeySymmetry
INVARIANT
  DeletedStaysDeleted
CHECK_DEADLOCK FALSE
