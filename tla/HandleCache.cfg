SPECIFICATION Spec
CONSTANTS
  c1 = c1
  c2 = c2
  c3 = c3
  r1 = r1
  r2 = r2
  r3 = r3
  Chunks = {c1, c2, c3}
  Readers = {r1, r2, r3}
  MaxOpen = 1
  MaxFds = 8
SYMMETRY CacheSymmetry
INVARIANTS
  PinnedStaysOpen
  OneOwner
  PinsCounted
  OpenBounded
  RemovedFilesClosed
CHECK_DEADLOCK FALSE
