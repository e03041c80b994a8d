SPECIFICATION FairSpec
INVARIANT OutcomeIsOwn
PROPERTY PendingSettles NoEarlyRefire
CONSTANTS
  a = a
  Id = {a}
  Pooled = {}
  Forever = {}
  NoAlarm = NoAlarm
  Caps = {1}
  Dues = {0, 2}
  Lease = 3
  Retries = 1
  Backoff = 2
  Budget <- MCBudget
  AttemptCap = 2
  Delay <- MCDelay
  RetryBase = 2
  Backpressure = 2
  Retention = 4
  MaxIndexable = 20
  Lanes = 1
  Prompt = TRUE
  TickStep = 2
  MaxClock = 14
  Horizon = 2
  MaxJobs = 2
  MaxCrashes = 1
  MaxFaults = 0
  MaxLosses = 1
CHECK_DEADLOCK FALSE
