SPECIFICATION Spec
CONSTANTS
  t1 = t1
  t2 = t2
  o1 = o1
  o2 = o2
  o3 = o3
  Null = Null
  Threads <- MCThreads
  Objs <- MCObjs
  Ids <- MCIds
  NHASH = 2
  MaxStored = 2
SYMMETRY MCSymmetry
INVARIANT NeverRelocks
CHECK_DEADLOCK FALSE
