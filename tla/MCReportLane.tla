----------------------------- MODULE MCReportLane -----------------------------
(* ReportLane on small instances, whose first day obsd refuses. *)
EXTENDS ReportLane

FirstRefused == {0}
=============================================================================
