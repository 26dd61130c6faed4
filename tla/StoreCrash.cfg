SPECIFICATION Spec
CONSTANTS
  k1 = k1
  k2 = k2
  Keys = {k1, k2}
  MaxLSN = 4
  MaxSeq = 4
  MaxCrashes = 1
  MaxFaults = 1
  MaxFreezes = 1
  MaxCompacts = 0
  MaxScans = 0
  Deletes = TRUE
  Checkpoints = FALSE
  Closes = TRUE
  ShutdownFaults = FALSE
  MemtableRecords = 2
SYMMETRY KeySymmetry
INVARIANTS
  TypeOK
  LiveReadsLatest
  IndexResolves
  JournalCoversCheckpoint
  WatermarksOrdered
PROPERTIES
  DurableCheckpointMonotone
CHECK_DEADLOCK FALSE
