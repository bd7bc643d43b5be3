----------------------------- MODULE MCExporter -----------------------------
(* Instances of Exporter for TLC.                                          *)
EXTENDS Exporter

CONSTANTS vm, jobs, once   \* model values: two modules and a RefreshOnce call

MCModules == {vm, jobs}
OneCall == {once}
NoCall == {}

MCRetryAfters == {0, 3}

=============================================================================
