SPECIFICATION FairSpec
CONSTANTS
  Timeout = 2
  Cooldown = 18
  BusyMesh = TRUE
  Faults = {"lose", "stall", "busy", "stats", "raise", "restart"}
  MaxFaults = 3
  None = None
INVARIANTS
  ReconnectFirst
PROPERTIES
  QuietMeshLeftAlone
  RebootsApart
  StallCleared
  IncidentCloses
