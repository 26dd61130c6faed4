SPECIFICATION Spec
INVARIANTS
  TypeOK
  Durable
  Consistent
  WithinBounds
PROPERTY
  NeverUndone
CHECK_DEADLOCK FALSE
