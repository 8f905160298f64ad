SPECIFICATION Spec
CONSTANTS
  MaxFd = 8
  MaxProc = 5
  PipeCap = 2
  MaxFaults = 1
  TIMES = 3
  NTHREADS = 2
  NQ = 2
CHECK_DEADLOCK FALSE
INVARIANTS
  JoinedExact
  SharedSound
  ArrivesInOrder
PROPERTIES
  Finishes
