SPECIFICATION QueueSpec
CONSTANTS
  Jobs = {j1, j2, j3}
  Workers = {w1, w2}
  Keys = {k1}
  NoKey = NoKey
  Grants = {g1}
  NoGrant = NoGrant
  NoJob = NoJob
  MaxQueue = 1
  MaxRecords = 2
SYMMETRY JobSymmetry
INVARIANTS
  OneJobPerKey
  NoLostJob
  RevokedStaysHidden
  RunsOnce
  DoneMeansStopped
