---------------------------- MODULE MCReportIntake ----------------------------
\* A small instance of ReportIntake for TLC.
EXTENDS ReportIntake
=============================================================================
