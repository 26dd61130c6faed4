SPECIFICATION Spec
CONSTANTS
  Checkpointers = {flush}
  flush = flush
  SegmentRecords = 2
  MaxBatch = 2
  MaxLSN = 5
  MaxSegs = 5
  MaxCrashes = 2
  MaxFaults = 0
INVARIANT
  AlwaysReopens
CHECK_DEADLOCK FALSE
