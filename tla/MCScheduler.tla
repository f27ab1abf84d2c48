---------------------------- MODULE MCScheduler ----------------------------
(* Instances of Scheduler for TLC.                                         *)
EXTENDS Scheduler, TLC

CONSTANTS job1, job2

\* A cron job that ends and a job of another sort beside it.
Mixed == (job1 :> {"oneshot", "malformed"}) @@ (job2 :> {"loop", "recurring"})
=============================================================================
