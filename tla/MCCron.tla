------------------------------- MODULE MCCron -------------------------------
(* Schedules with neighbouring and with distant instants.                  *)
EXTENDS CronScheduler, TLC

CONSTANTS j1, j2
MCSlots == (j1 :> {3, 5}) @@ (j2 :> {4})
=============================================================================
