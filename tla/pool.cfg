CONSTANTS
  Calls = {p1, c1, c2, c3}
  Private = {p1}
  Slots = 2
  Lease = 2
  Backlog = 2
  MaxTime = 3
  MaxCommands = 3
SPECIFICATION PoolSpec
CHECK_DEADLOCK FALSE
SYMMETRY Symmetry
PROPERTIES
  ClosedForGood
  StartsNeedSupervisor
  ImplementsSlots
