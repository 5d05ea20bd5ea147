SPECIFICATION Spec
CONSTANTS
  pub = pub
  a = a
  b = b
  c = c
  None = None
  Keys = {pub, a, b}
  Public = pub
  Capacity = 2
  Reuse = TRUE
  ResidentsOn = TRUE
  Hazards = {}
  MaxTasks = 2
  MaxUpsets = 0
SYMMETRY Alike
INVARIANTS
  ImageUnderOwnKey
