SPECIFICATION PassingSpec
CONSTANTS
  MaxFd = 8
  MaxProc = 5
  PipeCap = 3
  MaxFaults = 0
INVARIANTS
  DescriptorReturned
