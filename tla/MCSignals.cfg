SPECIFICATION MCSpec
CONSTANTS
  c1 = c1
  c2 = c2
  p1 = p1
  p2 = p2
  Programs <- Mains
  MaxSignals <- MCMaxSignals
  Clients <- MCClients
  Pids <- MCPids
  Parent = Parent
  MaxSent = 1
  None = None
INVARIANTS HandlersSound WaitsSound ChildrenExact ChildrenEcho
PROPERTIES EndsRight ChildrenServe SignalsArrive ClientsServed
CHECK_DEADLOCK FALSE
