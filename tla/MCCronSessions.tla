--------------------------- MODULE MCCronSessions ---------------------------
(* An instance of CronSessions for TLC. *)
EXTENDS CronSessions

\* A state is explored further while the sessions are undisturbed and at most one of
\* them has died, and in any case while there are no tasks: so all that may happen
\* to the lock alone is explored, with as many deaths as MaxCrashes.
Explored == (Undisturbed /\ crashes =< 1) \/ (created = {} /\ Quiet)
=============================================================================
