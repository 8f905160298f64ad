SPECIFICATION TablesSpec
CONSTANTS
  r1 = r1
  r2 = r2
  r3 = r3
  t1 = t1
  t2 = t2
  o1 = o1
  o2 = o2
  o3 = o3
  j1 = j1
  j2 = j2
  j3 = j3
  j4 = j4
  f1 = f1
  f2 = f2
  Null = Null
  Threads <- MCThreads
  Workers <- MCWorkers
  Objs <- MCObjs
  Ids <- MCIds
  NHASH = 2
  MaxStored = 2
  Jobs <- MCJobs
  Finders <- MCFinders
SYMMETRY Symmetry
INVARIANTS CountExact NeverFreedInUse TableSound QueueSound
CHECK_DEADLOCK FALSE
