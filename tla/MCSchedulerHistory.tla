------------------------- MODULE MCSchedulerHistory -------------------------
(***************************************************************************)
(* SchedulerHistory on the clusters of MCScheduler.                        *)
(***************************************************************************)
EXTENDS MCScheduler, SchedulerHistory
=============================================================================
