SPECIFICATION Spec
CONSTANTS
  MaxFd = 8
  MaxProc = 5
  PipeCap = 3
  MaxFaults = 1
INVARIANTS
  DataExact
  StatusExact
  OrderKept
  Daemonized
PROPERTIES
  Finishes
