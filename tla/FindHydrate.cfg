SPECIFICATION FairSpec
PROPERTY QueuedSettles
CONSTANTS
  MaxWrites = 1
  Guarded = {}
  MaxItems = 1
  MaxBatch = 1
  MaxAttempts = 2
  QueueEarly = TRUE
  Takeover = TRUE
  MaxPasses = 2
  MaxReloads = 1
  MaxFaults = 0
CHECK_DEADLOCK FALSE
