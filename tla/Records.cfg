SPECIFICATION RecordsSpec
CONSTANTS
  Closers = {c1}
  NormalItems = 1
  CriticalItems = 1
  MaxSeq = 3
  MaxDrops = 1
  Producers = {1, 2}
  MaxSegments = 2
  MaxLines = 2
  MaxEvictions = 1
CHECK_DEADLOCK FALSE
INVARIANTS
  SyncedIsDurable
  LossIsCounted
  LossIsReported
  ExportIsWhole
PROPERTIES
  StoppingEnds
