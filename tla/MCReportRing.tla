--------------------------- MODULE MCReportRing ----------------------------
(***************************************************************************)
(* Model checking ReportRing: two game threads, a ring of two lines that   *)
(* five lines overflow, and a drain that may be cut short once.            *)
(***************************************************************************)
EXTENDS ReportRing

=============================================================================
