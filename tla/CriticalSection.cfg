CONSTANTS
  t1 = t1
  t2 = t2
  Threads <- MCThreads
  Isrs <- MCIsrs
  MaxNest = 2
SPECIFICATION Spec
SYMMETRY MCSymmetry
INVARIANTS
  MutualExclusion
  MaskMatchesSections
  CounterIsOwn
CHECK_DEADLOCK TRUE
