\* Two rings that show, detach and forget the same buffers.
SPECIFICATION Spec
CONSTANTS
  Threads = {t1, t2}
  Buffers = {b1, b2}
  MaxSurfaces = 2
  None = None
SYMMETRY Symmetry
INVARIANTS
  NoCircularWait
  NothingDeadUsed
CHECK_DEADLOCK FALSE
