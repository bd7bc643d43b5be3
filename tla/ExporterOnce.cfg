CONSTANTS
  vm = vm
  jobs = jobs
  once = once
  Modules <- MCModules
  Calls <- OneCall
  RefreshInterval = 2
  RetryBase = 1
  RetryAfters <- MCRetryAfters
  MaxTime = 2
SPECIFICATION FairSpec
INVARIANTS
  TypeOK
  UpIsJustified
  NextAttemptDiscipline
  GaugeZeroWhileRefreshing
  NoSchedulerAfterStop
PROPERTIES
  ReadyNeverReturns
  RefreshOnceReturns
