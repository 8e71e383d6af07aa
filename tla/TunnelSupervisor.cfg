SPECIFICATION FairSpec
CONSTANTS
  Launches = {l1, l2}
  Nobody = Nobody
  Posix = FALSE
  Streams = {stderr}
  Threshold = 2
  MaxAttempts = 1
  MaxGenerations = 2
  MaxLines = 2
INVARIANTS
  SingleInstance
  EveryRespawnIsPaid
PROPERTIES
  SignalIsAnswered
  StopIsObeyed
