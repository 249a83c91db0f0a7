SPECIFICATION FairSpec
CONSTANTS
  Width = 4
  Height = 3
  TileQ = 4
  HitboxHalfQ = 1
  SpeedQ = 2
  BoostedSpeedQ = 3
  HistorySize = 1
  MaxSeq = 2
  MaxChanges = 1
  StartTiles <- MCStartTiles
  OpenTiles <- MCOpenTiles
  SpawnCell <- MCSpawnCell
  Inputs <- MCTwoInputs
INVARIANTS
  PredictionIsReplay
  AgreesWithServer
PROPERTIES
  Converges
