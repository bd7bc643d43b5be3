--------------------------- MODULE MCPublication ---------------------------
(* Instances of Publication for TLC.                                       *)
EXTENDS Publication, TLC

CONSTANTS
  dashboard, sla, health,  \* model values: a module and its subcollectors
  s1, s2, probe            \* model values: scrapes and a probe

OnlyDashboard == {dashboard}
DashboardParts == dashboard :> <<sla, health>>

TwoScrapes == {s1, s2}
OneScrape == {s1}
OneProbe == {probe}
NoProbe == {}

=============================================================================
