SPECIFICATION Spec
CONSTANTS
  Launches = {l1, l2, l3}
  Nobody = Nobody
  Posix = TRUE
  Streams = {stderr}
  Threshold = 2
  MaxAttempts = 1
  MaxGenerations = 1
  MaxLines = 0
INVARIANTS
  SingleInstance
