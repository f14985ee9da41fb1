SPECIFICATION Spec
CONSTANTS
  t1 = t1
  t2 = t2
  v1 = v1
  v2 = v2
  MaxKeys = 3
  Values <- MCValues
  Slots = 2
  Wrap = 65536
  MaxVersion = 2
  Threads <- MCThreads
  Rules <- MCRules
  Blank = Blank
  Bad = Bad
  NoCall = NoCall
  NoOp = NoOp
  Absent = Absent
SYMMETRY MCSymmetry
INVARIANTS IndexMatchesFlash BlankBeforeWrite
PROPERTIES SetOnceKept ImplementsStore
