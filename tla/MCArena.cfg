SPECIFICATION FairSpec
CONSTANTS
  Width = 6
  Height = 3
  TileQ = 4
  HitboxHalfQ = 1
  PlayerIds = {0, 1, 2}
  SpeedQ = 2
  BoostedSpeedQ = 2
  DefaultMaxBombs = 1
  BoostedMaxBombs = 1
  DefaultRange = 1
  RangeBoost = 1
  MaxSnapshotBombs = 3
  FuseTicks = 2
  EffectTicks = 2
  BaseTiles <- MCBase
  BrickMaps <- NoBricks
  Spawn <- MCSpawn
  Inputs <- LeftOrBomb
  Placements <- NoPowerups
INVARIANTS
  EventsMatchSnapshots
PROPERTIES
  BombsGoOff
