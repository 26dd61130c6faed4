SPECIFICATION Spec
CONSTANTS
  Callers = {1, 2}
  MaxCandidates = 2
  Threshold = 2
  MaxOps = 2
  Instances = {1, 2}
  Monitors = {1, 2}
INVARIANTS
  TypeOK
  NoOrphanCore
  EvidenceOfThisSession
PROPERTIES
  CallsReturn
  DeadCoreNoticed
  ShutdownQuiesces
CHECK_DEADLOCK FALSE
