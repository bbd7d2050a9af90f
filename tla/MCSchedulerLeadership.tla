----------------------- MODULE MCSchedulerLeadership -----------------------
(* Two instances with an interval and a manual trigger each; a lease of two *)
(* ticks and a job lock of one.                                             *)
EXTENDS SchedulerLeadership
=============================================================================
