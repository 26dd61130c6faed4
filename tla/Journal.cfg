SPECIFICATION Spec
CONSTANTS
  Checkpointers = {flush}
  flush = flush
  SegmentRecords = 2
  MaxBatch = 2
  MaxLSN = 5
  MaxSegs = 5
  MaxCrashes = 2
  MaxFaults = 1
INVARIANTS
  TypeOK
  AckedReplayed
  ReopensUntroubled
  SegEndMatchesFiles
PROPERTY
  ImplementsLog
CHECK_DEADLOCK FALSE
