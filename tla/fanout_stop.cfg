SPECIFICATION Spec
CONSTANTS
  None = None
  r1 = r1
  h1 = h1
  NConfigs = 1
  Requests = {r1}
  Handlers = {h1}
  MaxAsks = 2
  MaxTimeouts = 2
  MaxFaults = 1
CHECK_DEADLOCK FALSE
PROPERTIES
  StopReturns
