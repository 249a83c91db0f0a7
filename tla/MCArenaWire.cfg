SPECIFICATION Spec
CONSTANTS
  Width = 6
  Height = 4
  TileQ = 4
  HitboxHalfQ = 1
  PlayerIds = {0, 1}
  SpeedQ = 3
  BoostedSpeedQ = 3
  DefaultMaxBombs = 1
  BoostedMaxBombs = 2
  DefaultRange = 2
  RangeBoost = 1
  MaxSnapshotBombs = 4
  FuseTicks = 3
  EffectTicks = 3
  BaseTiles <- MCBase
  BrickMaps <- MCBrickMaps
  Spawn <- MCSpawn
  Inputs <- MCInputs
  Placements <- MCPlacements
  Modulus <- MCModulus
INVARIANTS
  BombsAccounted
  EffectsComeFromPowerups
  InTheOpen
  LossesToldOnce
  BlastsAreSimultaneous
  MessagesArrive
PROPERTIES
  OutOfPlay
  ImplementsBattle
