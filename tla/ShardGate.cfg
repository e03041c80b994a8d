SPECIFICATION Spec
INVARIANT TypeOK MutationOnce ReceiptsTrue WatermarkExact ActionSparse ActionAlone AnswerOwn
PROPERTY KeepsPromise
SYMMETRY SlotSymmetry
CONSTANTS
  m = m
  a = a
  d1 = d1
  d2 = d2
  d3 = d3
  Mutations = {m}
  Actions = {a}
  MaxSeq = 2
  Slots = {d1, d2, d3}
  Host = "gate"
  Aging = {a}
  None = None
  NoId = NoId
  MaxRestarts = 1
  MaxTakeovers = 1
  MaxRuns = 4
