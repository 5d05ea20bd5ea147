SPECIFICATION FairSpec
CONSTANTS
  st = st
  mo = mo
  wd = wd
  o1 = o1
  o2 = o2
  u1 = u1
  x = x
  y = y
  None = None
  Startup = st
  Monitor = mo
  Watchdog = wd
  Operators = {o1}
  Users = {u1}
  Transports = {x, y}
  Faults = {"drop", "dial", "dead", "setup", "timeout", "close"}
  MaxFaults = 1
  MaxAsks = 2
INVARIANTS
  OneTransport
  StableWhileHeld
  SetupForCurrent
PROPERTIES
  PauseDisconnects
  Recovers
  NoStarvation
