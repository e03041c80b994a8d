SPECIFICATION Spec
INVARIANT TypeOK Backed StoreExact
PROPERTY WritesOnce LiveBehindQueue
CONSTANTS
  MaxWrites = 2
  Guarded = {1}
  MaxItems = 1
  MaxBatch = 2
  MaxAttempts = 1
  QueueEarly = TRUE
  Takeover = FALSE
  MaxPasses = 2
  MaxReloads = 1
  MaxFaults = 1
CHECK_DEADLOCK FALSE
