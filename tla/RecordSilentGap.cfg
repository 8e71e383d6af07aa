SPECIFICATION QuerySpec
CONSTANTS
  Producers = {1, 2}
  MaxSegments = 2
  MaxLines = 2
  MaxEvictions = 1
CHECK_DEADLOCK FALSE
INVARIANT
  NeverSilentlyPartial
