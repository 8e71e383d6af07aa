SPECIFICATION CallFairSpec
CONSTANTS
  Jobs = {j1}
  Workers = {w1}
  k1 = k1
  g1 = g1
  Keys = {k1}
  NoKey = NoKey
  Grants = {g1}
  NoGrant = NoGrant
  NoJob = NoJob
  MaxQueue = 1
  MaxRecords = 1
  Calls = {c1, c2}
  JobRequests <- MCRequests
INVARIANTS
  AnswerWasTrue
PROPERTIES
  KeepsPromise
  EveryCallIsAnswered
