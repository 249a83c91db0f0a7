SPECIFICATION Spec
CONSTANTS
  own1 = own1
  own2 = own2
  shared = shared
  Cells = {1, 2}
  Bricks <- MCBricks
  Reach <- MCReach
  FuseTicks = 2
  SnapshotInterval = 1
  MaxPending = 2
  MaxEventsPerTick = 2
  MaxTick = 4
CHECK_DEADLOCK FALSE
INVARIANT BricksConverge
