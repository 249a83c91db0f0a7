SPECIFICATION Spec
CONSTANTS
  BatchSize = 2
  InputLead = 1
  UnlockDelay = 1
  MaxSeq = 2
  MaxProcessed = 3
  MaxInFlight = 2
INVARIANT LeadKept
