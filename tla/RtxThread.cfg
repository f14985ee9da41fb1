CONSTANTS
  a = a
  b = b
  c = c
  Idle = Idle
  NoThread = NoThread
  Threads <- MCThreads
  Objects = {}
  Calls <- AllCalls
  Attrs <- AllAttrs
  Prios <- MCPrios
  IdlePrio = 1
  MaxDelay = 2
  RobinTimeout = 2
  JoinDiscipline = TRUE
SPECIFICATION Spec
SYMMETRY MCSymmetry
INVARIANTS
  TypeOK
  PlacesOK
  HighestPriorityRuns
  JoinPointsToWaiter
PROPERTIES
  JoinEndsWithThread
CHECK_DEADLOCK TRUE
