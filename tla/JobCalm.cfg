SPECIFICATION Spec
INVARIANT TypeOK DeadOnlyWhenSpent ClockPunctual
PROPERTY NotBeforeDue NoSendWhilePaused
CONSTANTS
  a = a
  b = b
  Id = {a,b}
  Pooled = {}
  Forever = {b}
  NoAlarm = NoAlarm
  Caps = {1}
  Dues = {0, 2}
  Lease = 3
  Retries = 1
  Backoff = 2
  Budget <- MCBudget
  AttemptCap = 2
  Delay <- MCDelay
  RetryBase = 2
  Backpressure = 2
  Retention = 4
  MaxIndexable = 20
  Lanes = 1
  Prompt = FALSE
  TickStep = 2
  MaxClock = 6
  Horizon = 0
  MaxJobs = 1
  MaxCrashes = 0
  MaxFaults = 0
  MaxLosses = 1
CHECK_DEADLOCK FALSE
