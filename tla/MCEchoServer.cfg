SPECIFICATION FairSpec
CONSTANTS
  c1 = c1
  c2 = c2
  Free = Free
  Clients <- MCClients
  MaxSlots = 2
  MaxSent = 2
INVARIANTS NeverBlocks SlotsSound EchoExact
PROPERTIES Serves AllServed
CHECK_DEADLOCK FALSE
