SPECIFICATION Spec
CONSTANTS
  None = None
  Keys = {1, 2, 3}
  Public = 2
  Tasks = {t1, t2}
  MaxSlots = 3
  Advertised = 2
  MaxAsks = 4
  MaxMishaps = 2
SYMMETRY TaskSwaps
CHECK_DEADLOCK FALSE
INVARIANTS
  OneSlotEach
  SlotKeepsMeaning
  TableDurable
