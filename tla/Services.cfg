SPECIFICATION Spec
INVARIANTS
  TypeOK
  Orderly
  Backed
PROPERTY
  Progress
CHECK_DEADLOCK FALSE
