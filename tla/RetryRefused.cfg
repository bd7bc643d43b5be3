CONSTANTS
  Datasets = 2
  RefreshInterval = 5
  RefreshTimeout = 4
  RetryBase = 1
  Timeout = 2
  ClientDelay = 1
  Second = 2
  MaxDuration = 7
  Headers <- MCHeaders
  Credentials = TRUE
  MaxTime = 6
SPECIFICATION Spec
INVARIANTS RetryAfterRespected
