SPECIFICATION Spec
CONSTANTS
  None = None
  Clients = {c1}
  Sessions = {s1, s2}
  Arrivals <- MCArrivals
  MaxConnects = 2
  MaxFailures = 1
  InboxSize = 1
  ReplayLimit = 2
SYMMETRY Connections
CHECK_DEADLOCK FALSE
INVARIANTS
  TypeOK
  ResumesFromPulled
  EveryAppFed
PROPERTIES
  CursorNeverBack
