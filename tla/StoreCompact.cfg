SPECIFICATION Spec
CONSTANTS
  k1 = k1
  k2 = k2
  Keys = {k1, k2}
  MaxLSN = 4
  MaxSeq = 4
  MaxCrashes = 0
  MaxFaults = 0
  MaxFreezes = 0
  MaxCompacts = 2
  MaxScans = 1
  Deletes = TRUE
  Checkpoints = TRUE
  Closes = FALSE
  ShutdownFaults = FALSE
  MemtableRecords = 2
SYMMETRY KeySymmetry
INVARIANTS
  CompactedReadsLatest
  IndexResolves
  ScanLocationsSurvive
CHECK_DEADLOCK FALSE
