CONSTANTS
  dashboard = dashboard
  sla = sla
  health = health
  s1 = s1
  s2 = s2
  probe = probe
  Modules <- OnlyDashboard
  Core <- OnlyDashboard
  Parts <- DashboardParts
  Scrapers <- TwoScrapes
  Probes <- OneProbe
  Rows = 1
  MaxStale = 1
  MaxRuns = 2
  MaxTime = 3
SPECIFICATION Spec
CHECK_DEADLOCK FALSE
INVARIANTS
  TypeOK
  SiblingsFetchedEqually
  PartsAsFreshAsTheirRun
  PublishedVectorsFrozen
PROPERTIES
  ScrapesAreAtomic
