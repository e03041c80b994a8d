SPECIFICATION FairSpec
PROPERTY EveryCallHeard
CONSTANTS
  m = m
  a = a
  d1 = d1
  d2 = d2
  Mutations = {m}
  Actions = {a}
  MaxSeq = 1
  Slots = {d1, d2}
  Host = "gate"
  Aging = {}
  None = None
  NoId = NoId
  MaxRestarts = 1
  MaxTakeovers = 1
  MaxRuns = 4
