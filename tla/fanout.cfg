SPECIFICATION Spec
CONSTANTS
  None = None
  r1 = r1
  r2 = r2
  h1 = h1
  NConfigs = 1
  Requests = {r1, r2}
  Handlers = {h1}
  MaxAsks = 2
  MaxTimeouts = 1
  MaxFaults = 1
CHECK_DEADLOCK FALSE
INVARIANTS
  LoopsAccounted
  TableFollowsRows
  NoLostWakeup
PROPERTIES
  ModuleReconnects
  RequestsEnd
