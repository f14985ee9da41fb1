CONSTANTS
  a = a
  b = b
  c = c
  X = X
  Y = Y
  Idle = Idle
  NoThread = NoThread
  NoMutex = NoMutex
  Threads <- MCThreads
  Objects = {X, Y}
  Recursive = {X, Y}
  PrioInherit = {X, Y}
  Robust = {X, Y}
  Prios = {1, 2}
  LockLimit = 2
  Programs <- MCPrograms
SPECIFICATION Spec
SYMMETRY MCSymmetry
INVARIANTS
  OwnedListExact
  HeldIsOwned
  WaitersServed
  InheritanceOK
  HighestPriorityRuns
