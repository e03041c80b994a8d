SPECIFICATION Spec
PROPERTY LandedNotDropped
CONSTANTS
  MaxWrites = 2
  Guarded = {1}
  MaxItems = 2
  MaxBatch = 2
  MaxAttempts = 1
  QueueEarly = TRUE
  Takeover = FALSE
  MaxPasses = 2
  MaxReloads = 0
  MaxFaults = 1
CHECK_DEADLOCK FALSE
