SPECIFICATION FairSpec
PROPERTY QueuedSettles
CONSTANTS
  MaxWrites = 2
  Guarded = {1}
  MaxItems = 2
  MaxBatch = 2
  MaxAttempts = 2
  QueueEarly = FALSE
  Takeover = FALSE
  MaxPasses = 2
  MaxReloads = 1
  MaxFaults = 0
CHECK_DEADLOCK FALSE
