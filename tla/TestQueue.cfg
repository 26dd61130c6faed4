SPECIFICATION Spec
CONSTANTS
  a = a
  b = b
  r = r
  Fps <- MCFps
  Workers <- MCWorkers
  Tasks <- MCTasks
  Tuners <- MCTuners
  Batches <- MCBatches
  Options <- MCOptions
  Prios <- MCPrios
  MaxQueueSize = 2
  MaxAttempts = 2
  Measurements = 2
  CoreProbes = 1
  AdmissionBatch = 1
  AdmissionFloor = 2
  Concurrency = 2
  Sizes <- MCSizes
  MaxCalls = 3
INVARIANTS
  TypeOK
  OneTestPerConfig
  BatchReportTrue
PROPERTIES
  ResultsFinal
  TakenTasksEnd
  StopReturns
CHECK_DEADLOCK FALSE
