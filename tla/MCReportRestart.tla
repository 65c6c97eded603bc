-------------------------- MODULE MCReportRestart --------------------------
(* A small instance of ReportRestart for TLC. *)
EXTENDS ReportRestart

=============================================================================
