SPECIFICATION Spec
INVARIANT WatermarkExact
SYMMETRY SlotSymmetry
CONSTANTS
  m = m
  a = a
  d1 = d1
  d2 = d2
  d3 = d3
  Mutations = {m}
  Actions = {a}
  MaxSeq = 2
  Slots = {d1, d2, d3}
  Host = "lock"
  Aging = {m}
  None = None
  NoId = NoId
  MaxRestarts = 1
  MaxTakeovers = 1
  MaxRuns = 4
