SPECIFICATION Spec
CONSTANTS
  c1 = c1
  c2 = c2
  p1 = p1
  p2 = p2
  main_pid = main_pid
  None = None
  Parent = main_pid
  Clients <- MCClients
  Pids <- MCPids
  MaxSent = 1
INVARIANT SurvivesSignals
CHECK_DEADLOCK FALSE
