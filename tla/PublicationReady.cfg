CONSTANTS
  dashboard = dashboard
  sla = sla
  health = health
  s1 = s1
  s2 = s2
  probe = probe
  Modules <- OnlyDashboard
  Core <- OnlyDashboard
  Parts <- DashboardParts
  Scrapers <- OneScrape
  Probes <- NoProbe
  Rows = 1
  MaxStale = 2
  MaxRuns = 2
  MaxTime = 5
SPECIFICATION Spec
CHECK_DEADLOCK FALSE
INVARIANTS ReadyMeansServed
