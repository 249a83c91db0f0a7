SPECIFICATION Spec
CONSTANTS
  Width = 3
  Height = 3
  MaxPlayers = 2
  MaxBombs = 2
  MaxPowerups = 2
  MaxBatch = 2
  NameMax = 3
  PowerupTypes = 2
  Modulus <- MCModulus
  Names <- MCNames
  Ticks = {1, 2, 3}
  TickRate = 2
  CountdownTicks = 4
  UnlockDelayTicks = 2
  Positions <- MCPositions
INVARIANTS
  DeliveredAsSent
  HandlersMayRelyOnIt
