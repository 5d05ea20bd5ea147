SPECIFICATION Spec
CONSTANTS
  r1 = r1
  r2 = r2
  h1 = h1
  h2 = h2
  x = x
  None = None
  Requests = {r1, r2}
  Hearers = {h1, h2}
  Foreign = {x}
  MaxAsks = 3
  MaxHears = 2
  MaxDrops = 2
  MaxEvents = 3
  AutoResend = TRUE
  Ids <- MCIds
  Contents <- MCContents
SYMMETRY Alike
CHECK_DEADLOCK FALSE
INVARIANTS
  EchoesCounted
  OwnEchoNotForeign
  DeletedStaysOffAir
  ShownIsStored
  NothingMissed
PROPERTIES
  ChatLogged
