CONSTANTS
  Cpus = {c1, c2}
  Sizes = {1, 5, 8, 13}
  PageUnits = 8
  InitialPages = 2
  HeapBase = 25
  Radix = 3
  FractalIndex = 2
  NumFrames = 11
SPECIFICATION Spec
INVARIANTS
  TypeOK
  Tiling
  Linked
  Coalesced
  HeldIntact
  HeapMapped
PROPERTIES
  ExpansionSuffices
  KmallocEnds
\* Once the last page is taken, all CPUs may wait for _heap_lock.
CHECK_DEADLOCK FALSE
