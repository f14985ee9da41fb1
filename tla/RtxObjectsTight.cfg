CONSTANTS
  a = a
  b = b
  f = f
  g = g
  B1 = B1
  B2 = B2
  M1 = M1
  M2 = M2
  Idle = Idle
  NoThread = NoThread
  NoBlock = NoBlock
  NoMsg = NoMsg
  Sem = Sem
  Event = Event
  Pool = Pool
  Queue = Queue
  Threads <- MCThreads
  Objects <- MCObjects
  BlocksOf <- MCBlocksOf
  Prios = {1, 2}
  MaxQueued = 2
  MaxTokens = 2
  Flags = {f, g}
  Wants <- MCWants
  Msgs = {1, 2}
  Uses <- MCTightUses
SPECIFICATION Spec
SYMMETRY MCSymmetry
INVARIANTS
  NothingLost
