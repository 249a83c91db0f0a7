SPECIFICATION Spec
CONSTANTS
  BatchSize = 2
  InputLead = 2
  UnlockDelay = 1
  MaxSeq = 6
  MaxProcessed = 7
  MaxInFlight = 3
INVARIANTS
  RingHoldsTheFuture
PROPERTIES
  InputsApplyOnTheirTick
