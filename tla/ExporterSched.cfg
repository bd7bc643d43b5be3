CONSTANTS
  vm = vm
  jobs = jobs
  once = once
  Modules <- MCModules
  Calls <- NoCall
  RefreshInterval = 4
  RetryBase = 1
  RetryAfters <- MCRetryAfters
  MaxTime = 6
SPECIFICATION FairSpec
INVARIANTS
  UpMatchesLatestAttempts
  GaugeIsEarliest
PROPERTIES
  ImplementsSchedule
  DueModulesAreRefreshed
  SchedulerWindsDown
