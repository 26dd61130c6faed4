SPECIFICATION Spec
CONSTANTS
  k1 = k1
  k2 = k2
  Keys = {k1, k2}
  MaxLSN = 4
  MaxSeq = 4
  MaxCrashes = 0
  MaxFaults = 1
  MaxFreezes = 1
  MaxCompacts = 0
  MaxScans = 0
  Deletes = TRUE
  Checkpoints = FALSE
  Closes = TRUE
  ShutdownFaults = TRUE
  MemtableRecords = 2
SYMMETRY KeySymmetry
INVARIANT
  LiveReadsLatest
CHECK_DEADLOCK FALSE
