SPECIFICATION FairSpec
CONSTANTS
  pub = pub
  a = a
  b = b
  c = c
  None = None
  Keys = {pub, a}
  Public = pub
  Capacity = 2
  Reuse = TRUE
  ResidentsOn = TRUE
  Hazards = {"delete", "lost", "foreign"}
  MaxTasks = 2
  MaxUpsets = 1
INVARIANTS
  MapsAgree
PROPERTIES
  Healed
