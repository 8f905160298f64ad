SPECIFICATION FairBatch
CONSTANTS
  AIO_BUFF_NUM = 2
  AIO_BUFF_SIZE = 2
  Sizes <- MCSizes
  NTHR = 2
  TNUM = 3
  LONG_MAX = 3
  SECTONSEC = 3
  DELAY = 1
  Starts <- MCStarts
  LastSec = 7
  MaxSignals = 4
  MaxWakeups = 2
  MAXLINE = 2
  Inputs <- MCInputs
  Zeros <- MCZeros
  Cap = 2
  Reach = 3
INVARIANTS OpNumExact BlocksOwned OutputExact MergeSound CallSound QuitSound ClientSound
PROPERTY BatchEnds
