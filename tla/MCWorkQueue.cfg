SPECIFICATION FairSpec
CONSTANTS
  c1 = c1
  c2 = c2
  main = main
  b1 = b1
  b2 = b2
  b3 = b3
  Null = Null
  Main = main
  Pool <- MCPool
  Blocks <- MCBlocks
INVARIANTS TypeOK TakeNonEmpty UniqueOwner NoLostWakeup
PROPERTIES Refines QueueServed
