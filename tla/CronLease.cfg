SPECIFICATION FairSpec
INVARIANT TypeOK RunAccounted NoOverlap
PROPERTY HolderOnly LostOnlyUnreported DeadLeaseGoes
CONSTANTS
  v = v
  w = w
  Worker = {v, w}
  Lease = 6
  Renew = 2
  Latency = 1
  HistoryLimit = 4
  MaxRuns = 2
  MaxPauses = 2
  MaxFaults = 1
  MaxLosses = 2
CHECK_DEADLOCK FALSE
