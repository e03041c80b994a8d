SPECIFICATION Spec
INVARIANT CleanMeansIndexed ClockRuns SucceededRan
PROPERTY NeverVanishes CancelHolds NeverRefireSettled
CONSTANTS
  a = a
  Id = {a}
  Pooled = {a}
  Forever = {}
  NoAlarm = NoAlarm
  Caps = {1}
  Dues = {0, 2}
  Lease = 3
  Retries = 1
  Backoff = 2
  Budget <- MCBudget
  AttemptCap = 2
  Delay <- MCDelay
  RetryBase = 2
  Backpressure = 2
  Retention = 4
  MaxIndexable = 20
  Lanes = 1
  Prompt = FALSE
  TickStep = 2
  MaxClock = 6
  Horizon = 0
  MaxJobs = 1
  MaxCrashes = 1
  MaxFaults = 1
  MaxLosses = 1
CHECK_DEADLOCK FALSE
