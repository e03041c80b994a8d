------------------------------ MODULE MCCronRuns ------------------------------
(* TLC instances of CronRuns. *)
EXTENDS CronRuns
=============================================================================
