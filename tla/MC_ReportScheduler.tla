-------------------------- MODULE MC_ReportScheduler --------------------------
(* Periods stand for schedules, one minute for the grace time of five. *)
EXTENDS ReportScheduler
===============================================================================
